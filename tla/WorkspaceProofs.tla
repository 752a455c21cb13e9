--------------------------- MODULE WorkspaceProofs ---------------------------
(* Theorems about what an agent works on: a file that several edit, for    *)
(* any agents, passages and writes; the settings under the overlay of a    *)
(* session, for any fields and models; and the todo list, for any titles   *)
(* and any number of items.                                                *)
EXTENDS FileEdits, SessionModel, TodoList, SequenceInduction, FiniteSetTheorems, TLAPS

-----------------------------------------------------------------------------
(* A file.                                                                 *)

Holding(a) == stage[a] \in {"copying", "replacing"}

(* An edit that has read the file holds its lock, and the file is there.   *)
HoldersHold ==
    \A a \in Agents : Holding(a) => fileLock = a /\ exists

(* What is in the file and not in what an agent goes by was raced: for an  *)
(* edit that is what it has read, and its backup once there is one; who    *)
(* creates the file goes by nothing, and then an edit has nothing else     *)
(* than raced passages to write back.                                      *)
UnseenIsRaced ==
    /\ \A a \in Agents : Holding(a) => Written(text) \ Written(original[a]) \subseteq raced
    /\ BackupBeforeEdit =>
          \A a \in Agents : stage[a] = "replacing" => Written(text) \ Written(backup) \subseteq raced
    /\ \A a \in Agents : stage[a] = "creating" => Written(text) \subseteq raced
    /\ \A a, b \in Agents :
          stage[a] = "creating" /\ Holding(b) => Written(original[b]) \subseteq raced

(* There is no text without a file.                                        *)
NoFileNoText == ~exists => text = Empty

RaceInv == HoldersHold /\ UnseenIsRaced /\ NoFileNoText /\ OnlyRacedIsLost

(* What the clock accounts for: the text under a record newer than the     *)
(* file, the text and what was read of it while an edit is under way, and  *)
(* what a read under way has not got.                                      *)
Known == displayed \cup slipped
SightInv ==
    /\ readTime = "newer" => Written(text) \subseteq Known
    /\ \A a \in Agents : stage[a] \in InFlight => Written(text) \subseteq Known
    /\ \A a \in Agents : Holding(a) => Written(original[a]) \subseteq Known
    /\ \A a \in Agents : stage[a] = "reading" => Written(text) \subseteq Written(original[a]) \cup Known
    /\ OnlySlippedIsReplaced

EditInv == EditTypeOK /\ RaceInv /\ SightInv

LEMMA WrittenType ==
  ASSUME NEW t \in Texts
  PROVE  Written(t) \subseteq 1 .. MaxWrites
  BY EditAssumption DEF Texts, Written, Range

LEMMA WrittenEmpty == Empty \in Texts /\ Written(Empty) = {}
  BY EditAssumption DEF Texts, Empty, Written, Range

LEMMA WrittenExcept ==
  ASSUME NEW t \in Texts, NEW p \in Passages, NEW v \in 1 .. MaxWrites
  PROVE  /\ [t EXCEPT ![p] = v] \in Texts
         /\ Written([t EXCEPT ![p] = v]) \subseteq Written(t) \cup {v}
  BY EditAssumption DEF Texts, Written, Range

LEMMA WrittenInPlaces ==
  ASSUME NEW t \in Texts, NEW P \in SUBSET Passages, NEW v \in 1 .. MaxWrites,
         NEW new, new = [p \in Passages |-> IF p \in P THEN v ELSE t[p]]
  PROVE  /\ new \in Texts
         /\ Written(new) \subseteq Written(t) \cup {v}
  BY EditAssumption DEF Texts, Written, Range

LEMMA WrittenEverywhere ==
  ASSUME NEW v \in 1 .. MaxWrites
  PROVE  /\ [p \in Passages |-> v] \in Texts
         /\ Written([p \in Passages |-> v]) \subseteq {v}
  BY EditAssumption DEF Texts, Written, Range

LEMMA PlacesWritten ==
  ASSUME NEW a \in Agents, NEW t \in Texts, NEW P \in Matches(a, t)
  PROVE  P \in SUBSET Passages /\ {t[p] : p \in P} \subseteq Written(t)
  BY DEF Matches, Written, Range, Texts

LEMMA NoQuoteType == NoQuote \in [at : Passages, as : 0 .. MaxWrites]
  <1>1. (CHOOSE p \in Passages : TRUE) \in Passages
    BY EditAssumption
  <1>2. QED
    BY <1>1, EditAssumption DEF NoQuote

Stages == {"idle", "reading", "checked", "approving", "locking", "copying",
           "replacing", "edited", "creating"}

LEMMA GoOnType ==
  ASSUME EditTypeOK, NEW a \in Agents, NEW at \in Stages, GoOn(a, at)
  PROVE  /\ stage' \in [Agents -> Stages]
         /\ quote' \in [Agents -> [at : Passages, as : 0 .. MaxWrites]]
         /\ original' \in [Agents -> Texts]
         /\ stage'[a] = at /\ \A b \in Agents \ {a} : stage'[b] = stage[b]
         /\ \A b \in Agents \ {a} : original'[b] = original[b]
         /\ at # "idle" => original' = original
  <1>1. stage' = [stage EXCEPT ![a] = at]
    BY DEF GoOn
  <1>2. quote' = [quote EXCEPT ![a] = NoQuote] \/ quote' = quote
    BY DEF GoOn
  <1>3. original' = [original EXCEPT ![a] = Empty] \/ original' = original
    BY DEF GoOn
  <1>4. stage \in [Agents -> Stages]
    BY DEF EditTypeOK, Stages
  <1>5. original' \in [Agents -> Texts] /\ \A b \in Agents \ {a} : original'[b] = original[b]
    BY <1>3, WrittenEmpty DEF EditTypeOK
  <1>6. quote' \in [Agents -> [at : Passages, as : 0 .. MaxWrites]]
    BY <1>2, NoQuoteType DEF EditTypeOK
  <1>7. at # "idle" => original' = original
    BY DEF GoOn
  <1>8. QED
    BY <1>1, <1>4, <1>5, <1>6, <1>7

LEMMA PutType ==
  ASSUME EditTypeOK, NEW a, NEW locked \in BOOLEAN, NEW known, NEW new \in Texts,
         PutText(a, locked, known, new)
  PROVE  /\ text' \in Texts /\ backup' \in Texts /\ exists' \in BOOLEAN
         /\ readTime' \in {"none", "newer", "older"}
         /\ unused \in 1 .. MaxWrites /\ unused' \in 1 .. MaxWrites + 1
         /\ raced' \subseteq 1 .. MaxWrites /\ lost' \subseteq 1 .. MaxWrites
         /\ displayed' \subseteq 1 .. MaxWrites /\ slipped' \subseteq 1 .. MaxWrites
  <1>1. unused \in 1 .. MaxWrites /\ unused' \in 1 .. MaxWrites + 1
    BY EditAssumption DEF PutText, EditTypeOK
  <1>2. raced' \subseteq 1 .. MaxWrites /\ slipped' \subseteq 1 .. MaxWrites
    BY <1>1 DEF PutText, Race, Slip, EditTypeOK
  <1>3. lost' \subseteq 1 .. MaxWrites
    BY WrittenType DEF PutText, EditTypeOK
  <1>4. QED
    BY <1>1, <1>2, <1>3 DEF PutText, Touch, EditTypeOK

LEMMA TruncateType ==
  ASSUME EditTypeOK, Truncate
  PROVE  /\ text' \in Texts /\ exists' \in BOOLEAN /\ lost' \subseteq 1 .. MaxWrites
         /\ Written(text)' = {}
         /\ UNCHANGED <<backup, unused, raced, displayed, slipped, replaced>>
  <1>1. Written(text)' = {}
    BY WrittenEmpty DEF Truncate, Written
  <1>2. QED
    BY <1>1, WrittenEmpty, WrittenType DEF Truncate, EditTypeOK

(* The type of the variables, action by action.                            *)
LEMMA EditTypeStep ==
  ASSUME EditTypeOK, EditNext
  PROVE  EditTypeOK'
  <1>1. ASSUME NEW a \in Agents, BeginRead(a) PROVE EditTypeOK'
    <2>1. stage' = [stage EXCEPT ![a] = "reading"] /\ original' = [original EXCEPT ![a] = text]
      BY <1>1 DEF BeginRead
    <2>2. QED
      BY <1>1, <2>1 DEF BeginRead, SameFile, SameText, SameSight, EditTypeOK
  <1>2. ASSUME NEW a \in Agents, RecordRead(a) PROVE EditTypeOK'
    <2>1. displayed' \subseteq 1 .. MaxWrites
      BY <1>2, WrittenType DEF RecordRead, EditTypeOK
    <2>2. GoOn(a, "idle")
      BY <1>2 DEF RecordRead
    <2>3. QED
      BY <1>2, <2>1, <2>2, GoOnType DEF RecordRead, SameFile, SameText, EditTypeOK, Stages
  <1>3. ASSUME NEW a \in Agents, NotReplaced(a), fileLock' = fileLock PROVE EditTypeOK'
    BY <1>3, GoOnType DEF NotReplaced, SameFile, SameText, SameSight, EditTypeOK, Stages
  <1>4. ASSUME NEW a \in Agents, DryRun(a) PROVE EditTypeOK'
    <2>1. CASE NotReplaced(a)
      BY <1>3, <1>4, <2>1 DEF DryRun
    <2>2. CASE GoOn(a, "approving") /\ SameFile /\ SameSight
      BY <1>4, <2>2, GoOnType DEF DryRun, SameFile, SameText, SameSight, EditTypeOK, Stages
    <2>3. QED
      BY <1>4, <2>1, <2>2 DEF DryRun
  <1>5. ASSUME NEW a \in Agents, LockAndRead(a) PROVE EditTypeOK'
    <2>1. CASE NotReplaced(a) /\ UNCHANGED fileLock
      BY <1>3, <2>1
    <2>2. CASE /\ SameFile /\ SameSight
               /\ fileLock' = a /\ stage' = [stage EXCEPT ![a] = "copying"]
               /\ original' = [original EXCEPT ![a] = text]
               /\ UNCHANGED quote
      BY <2>2 DEF SameFile, SameText, SameSight, EditTypeOK
    <2>3. QED
      BY <1>5, <2>1, <2>2 DEF LockAndRead
  <1>6. ASSUME NEW a \in Agents, Copy(a) PROVE EditTypeOK'
    <2>1. GoOn(a, "replacing")
      BY <1>6 DEF Copy, SameText
    <2>2. backup' \in Texts
      BY <1>6 DEF Copy, SameText, EditTypeOK
    <2>3. QED
      BY <1>6, <2>1, <2>2, GoOnType DEF Copy, SameText, SameSight, EditTypeOK, Stages
  <1>7. ASSUME NEW a \in Agents, CopyFails(a) PROVE EditTypeOK'
    <2>1. GoOn(a, "idle") /\ fileLock' = Nobody
      BY <1>7 DEF CopyFails
    <2>2. backup' \in Texts
      BY <1>7, WrittenEmpty DEF CopyFails, EditTypeOK
    <2>3. QED
      BY <1>7, <2>1, <2>2, GoOnType DEF CopyFails, SameText, SameSight, EditTypeOK, Stages
  <1>8. ASSUME NEW a \in Agents, ReplaceText(a) PROVE EditTypeOK'
    <2>1. original[a] \in Texts /\ GoOn(a, "edited") /\ fileLock' = Nobody
      BY <1>8 DEF ReplaceText, EditTypeOK
    <2>2a. PICK P \in Matches(a, original[a]) :
            /\ PutText(a, TRUE, original[a],
                   [p \in Passages |-> IF p \in P THEN unused ELSE original[a][p]])
            /\ replaced' = IF Exact(a, original[a]) THEN replaced
                           ELSE replaced \cup ({original[a][p] : p \in P} \ displayed)
      BY <1>8 DEF ReplaceText
    <2>2. PICK new : /\ new = [p \in Passages |-> IF p \in P THEN unused ELSE original[a][p]]
                       /\ PutText(a, TRUE, original[a], new)
      BY <2>2a
    <2>3. unused \in 1 .. MaxWrites
      BY <2>2, EditAssumption DEF PutText, EditTypeOK
    <2>4. new \in Texts
      <3>1. P \in SUBSET Passages
        BY <2>2 DEF Matches
      <3>2. original[a] \in Texts
        BY <2>1
      <3>3. new = [p \in Passages |-> IF p \in P THEN unused ELSE original[a][p]]
        BY <2>2
      <3>4. QED
        BY <2>3, <3>1, <3>2, <3>3, EditAssumption DEF Texts
    <2>5. replaced' \subseteq 1 .. MaxWrites
      BY <2>1, <2>2a, PlacesWritten, WrittenType DEF EditTypeOK
    <2>6. QED
      BY <2>1, <2>2, <2>4, <2>5, PutType, GoOnType DEF EditTypeOK, Stages
  <1>9. ASSUME NEW a \in Agents, WriteFails(a) PROVE EditTypeOK'
    <2>1. GoOn(a, "idle") /\ fileLock' \in Agents \cup {Nobody}
      BY <1>9 DEF WriteFails, EditTypeOK
    <2>2. CASE SameFile /\ SameSight
      BY <2>1, <2>2, GoOnType DEF SameFile, SameText, SameSight, EditTypeOK, Stages
    <2>3. CASE Truncate /\ Touch
      BY <2>1, <2>3, GoOnType, TruncateType DEF Touch, EditTypeOK, Stages
    <2>4. QED
      BY <1>9, <2>2, <2>3 DEF WriteFails
  <1>10. ASSUME NEW a \in Agents, Invalidate(a) PROVE EditTypeOK'
    <2>1. GoOn(a, "idle")
      BY <1>10 DEF Invalidate
    <2>2. QED
      BY <1>10, <2>1, GoOnType DEF Invalidate, SameFile, SameText, EditTypeOK, Stages
  <1>11. ASSUME NEW a \in Agents, CheckAbsent(a) PROVE EditTypeOK'
    <2>1. GoOn(a, "creating")
      BY <1>11 DEF CheckAbsent
    <2>2. QED
      BY <1>11, <2>1, GoOnType DEF CheckAbsent, SameFile, SameText, SameSight, EditTypeOK, Stages
  <1>12. ASSUME NEW a \in Agents, Create(a) PROVE EditTypeOK'
    <2>1. PICK new : new = [p \in Passages |-> unused] /\ PutText(a, FALSE, Empty, new)
      BY <1>12 DEF Create
    <2>2. unused \in 1 .. MaxWrites
      BY <2>1, EditAssumption DEF PutText, EditTypeOK
    <2>3. new \in Texts
      BY <2>1, <2>2, WrittenEverywhere
    <2>4. GoOn(a, "idle") /\ UNCHANGED <<fileLock, replaced>>
      BY <1>12 DEF Create
    <2>5. QED
      BY <2>1, <2>3, <2>4, PutType, GoOnType DEF EditTypeOK, Stages
  <1>13. ASSUME NEW a \in Agents, NEW p \in Passages, NEW v \in 1 .. MaxWrites,
                CheckFresh(a, p, v)
         PROVE  EditTypeOK'
    <2>1. stage' = [stage EXCEPT ![a] = "checked"]
          /\ quote' = [quote EXCEPT ![a] = [at |-> p, as |-> v]]
      BY <1>13 DEF CheckFresh
    <2>2. [at |-> p, as |-> v] \in [at : Passages, as : 0 .. MaxWrites]
      BY EditAssumption
    <2>3. quote' \in [Agents -> [at : Passages, as : 0 .. MaxWrites]]
      BY <2>1, <2>2 DEF EditTypeOK
    <2>4. slipped' \subseteq 1 .. MaxWrites
      BY <1>13, WrittenType DEF CheckFresh, EditTypeOK
    <2>5. QED
      BY <1>13, <2>1, <2>3, <2>4 DEF CheckFresh, SameFile, SameText, EditTypeOK
  <1>14. ASSUME NEW a \in Agents, NEW ok \in BOOLEAN, Decide(a, ok) PROVE EditTypeOK'
    <2>1. PICK at \in {"idle", "locking"} : GoOn(a, at)
      BY <1>14 DEF Decide
    <2>2. QED
      BY <1>14, <2>1, GoOnType DEF Decide, SameFile, SameText, SameSight, EditTypeOK, Stages
  <1>15. ASSUME NEW p \in Passages, UserSaves(p) PROVE EditTypeOK'
    <2>1. PICK new : new = [text EXCEPT ![p] = unused] /\ PutText(Nobody, FALSE, text, new)
      BY <1>15 DEF UserSaves
    <2>2. unused \in 1 .. MaxWrites
      BY <2>1, EditAssumption DEF PutText, EditTypeOK
    <2>3. new \in Texts
      BY <2>1, <2>2, WrittenExcept DEF EditTypeOK
    <2>4. UNCHANGED <<fileLock, stage, quote, original, replaced>>
      BY <1>15 DEF UserSaves
    <2>5. QED
      BY <2>1, <2>3, <2>4, PutType DEF EditTypeOK
  <1>16. ASSUME NEW truncates \in BOOLEAN, Crash(truncates) PROVE EditTypeOK'
    <2>1. /\ readTime' = "none" /\ fileLock' = Nobody
          /\ stage' = [a \in Agents |-> "idle"]
          /\ quote' = [a \in Agents |-> NoQuote] /\ original' = [a \in Agents |-> Empty]
      BY <1>16 DEF Crash
    <2>2. /\ stage' \in [Agents -> Stages]
          /\ quote' \in [Agents -> [at : Passages, as : 0 .. MaxWrites]]
          /\ original' \in [Agents -> Texts]
      BY <2>1, WrittenEmpty, NoQuoteType DEF Stages
    <2>3. CASE truncates
      BY <1>16, <2>1, <2>2, <2>3, TruncateType DEF Crash, EditTypeOK, Stages
    <2>4. CASE ~truncates
      BY <1>16, <2>1, <2>2, <2>4 DEF Crash, SameFile, SameText, EditTypeOK, Stages
    <2>5. QED
      BY <2>3, <2>4
  <1>17. QED
    BY <1>1, <1>2, <1>4, <1>5, <1>6, <1>7, <1>8, <1>9, <1>10, <1>11, <1>12, <1>13, <1>14,
       <1>15, <1>16 DEF EditNext

-----------------------------------------------------------------------------
(* A step that only moves agents, none of them to where the text matters,  *)
(* keeps what is known of races.                                           *)
LEMMA MovingKeeps ==
  ASSUME RaceInv, SameText,
         backup' = backup \/ \A b \in Agents : ~Holding(b)',
         \A b \in Agents : stage'[b] \in {"copying", "replacing", "creating"} =>
                /\ stage'[b] = stage[b] /\ original'[b] = original[b]
                /\ stage'[b] = "creating" \/ fileLock' = fileLock
  PROVE  RaceInv'
  <1>1. \A b \in Agents : Holding(b)' => Holding(b) /\ fileLock' = fileLock
    BY DEF Holding
  <1>2. HoldersHold'
    BY <1>1 DEF RaceInv, HoldersHold, SameText
  <1>3. Written(text)' = Written(text) /\ (backup' = backup => Written(backup)' = Written(backup))
        /\ \A b \in Agents : stage'[b] \in {"copying", "replacing", "creating"} =>
               Written(original[b])' = Written(original[b])
    BY DEF SameText, Written
  <1>4. UnseenIsRaced'
    <2>1. raced' = raced
      BY DEF SameText
    <2>2. \A b \in Agents : Holding(b)' => Written(original[b])' = Written(original[b])
      BY <1>3 DEF Holding
    <2>3. QED
      <3>1. ASSUME NEW b \in Agents, stage'[b] = "replacing", backup' # backup
            PROVE  FALSE
        BY <3>1 DEF Holding
      <3>2. QED
        BY <1>1, <1>3, <2>1, <2>2, <3>1 DEF RaceInv, UnseenIsRaced
  <1>5. NoFileNoText' /\ OnlyRacedIsLost'
    BY DEF RaceInv, NoFileNoText, OnlyRacedIsLost, SameText, Empty
  <1>6. QED
    BY <1>2, <1>4, <1>5 DEF RaceInv

(* A new passage written without the lock.                                 *)
LEMMA UnlockedWriteRaces ==
  ASSUME RaceInv, NEW a, unused \in 1 .. MaxWrites,
         Written(text)' \subseteq Written(text) \cup {unused}, exists' = TRUE,
         Race(a, FALSE), fileLock' = fileLock, backup' = backup,
         lost' \subseteq lost \cup raced,
         \A b \in Agents \ {a} : stage'[b] = stage[b] /\ original'[b] = original[b],
         a \in Agents => stage'[a] = "idle"
  PROVE  RaceInv'
  <1> USE DEF RaceInv
  <1>1. /\ raced \subseteq raced'
        /\ \A b \in Agents \ {a} : stage[b] = "creating" \/ Holding(b) => unused \in raced'
    BY DEF Race, Holding
  <1>2. \A b \in Agents : stage'[b] \in {"copying", "replacing", "creating"} =>
            b # a /\ stage'[b] = stage[b] /\ original'[b] = original[b] /\ unused \in raced'
    BY <1>1 DEF Holding
  <1>3. \A b \in Agents : Holding(b)' => Holding(b)
    BY <1>2 DEF Holding
  <1>4. HoldersHold'
    BY <1>3 DEF HoldersHold
  <1>5. Written(backup)' = Written(backup)
        /\ \A b \in Agents : Holding(b)' => Written(original[b])' = Written(original[b])
    BY <1>2 DEF Written, Holding
  <1>6. UnseenIsRaced'
    <2>1. \A b \in Agents : Holding(b)' => unused \in raced'
      BY <1>2 DEF Holding
    <2>2. \A b \in Agents : Holding(b)' => (Written(text) \ Written(original[b]))' \subseteq raced'
      BY <1>1, <1>3, <1>5, <2>1 DEF UnseenIsRaced
    <2>3. BackupBeforeEdit => \A b \in Agents : stage'[b] = "replacing" =>
              (Written(text) \ Written(backup))' \subseteq raced'
      BY <1>1, <1>2, <1>5 DEF UnseenIsRaced
    <2>4. \A b \in Agents : stage'[b] = "creating" => Written(text)' \subseteq raced'
      BY <1>1, <1>2 DEF UnseenIsRaced
    <2>5. \A b, c \in Agents : stage'[b] = "creating" /\ Holding(c)' => Written(original[c])' \subseteq raced'
      BY <1>1, <1>2, <1>3, <1>5 DEF UnseenIsRaced
    <2>6. QED
      BY <2>2, <2>3, <2>4, <2>5 DEF UnseenIsRaced
  <1>7. NoFileNoText' /\ OnlyRacedIsLost'
    BY <1>1 DEF NoFileNoText, OnlyRacedIsLost
  <1>8. QED
    BY <1>4, <1>6, <1>7

(* A write that fails leaves an empty file.                                *)
LEMMA TruncateRaces ==
  ASSUME RaceInv, EditTypeOK, Truncate, NEW a \in Agents,
         stage[a] \in {"replacing", "creating"},
         \A b \in Agents : stage'[b] \in {"copying", "replacing", "creating"} =>
                /\ stage'[b] = stage[b] /\ original'[b] = original[b]
                /\ stage'[b] = "creating" \/ fileLock' = fileLock
  PROVE  RaceInv'
  <1> USE DEF RaceInv
  <1>1. Written(text)' = {} /\ text' = Empty /\ exists' = TRUE /\ raced' = raced
    BY TruncateType DEF Truncate
  <1>2. \A b \in Agents : Holding(b)' => /\ Holding(b) /\ fileLock' = fileLock
                                         /\ Written(original[b])' = Written(original[b])
    BY DEF Holding, Written
  <1>3. HoldersHold'
    BY <1>1, <1>2 DEF HoldersHold
  <1>4. \A b \in Agents : stage'[b] = "creating" => stage[b] = "creating"
    OBVIOUS
  <1>5. UnseenIsRaced'
    BY <1>1, <1>2, <1>4 DEF UnseenIsRaced
  <1>6. OnlyRacedIsLost'
    <2>1. BackupBeforeEdit => Written(text) \ Written(backup) \subseteq raced
      BY DEF UnseenIsRaced
    <2>2. QED
      BY <1>1, <2>1 DEF Truncate, OnlyRacedIsLost
  <1>7. QED
    BY <1>1, <1>3, <1>5, <1>6 DEF NoFileNoText

LEMMA LockAndReadRaces ==
  ASSUME EditTypeOK, RaceInv, NEW a \in Agents, LockAndRead(a)
  PROVE  RaceInv'
  <1> USE DEF RaceInv
  <1>0. fileLock = Nobody
    BY DEF LockAndRead
  <1>1. CASE NotReplaced(a) /\ UNCHANGED fileLock
    BY <1>1, GoOnType, MovingKeeps DEF NotReplaced, SameFile, Stages
  <1>2. CASE /\ Matches(a, text) # {} /\ SameFile
             /\ fileLock' = a /\ stage' = [stage EXCEPT ![a] = "copying"]
             /\ original' = [original EXCEPT ![a] = text]
    <2>2. original'[a] = text
      BY <1>2 DEF EditTypeOK
    <2>3. text # Empty
      BY <1>2 DEF Matches, Empty
    <2>4. \A b \in Agents : ~Holding(b)
      BY <1>0, EditAssumption DEF HoldersHold
    <2>5. stage'[a] = "copying" /\ \A b \in Agents \ {a} : stage'[b] = stage[b] /\ ~Holding(b)'
      BY <1>2, <2>4 DEF Holding, EditTypeOK
    <2>6. HoldersHold'
      BY <1>2, <2>3, <2>5 DEF HoldersHold, SameFile, SameText, NoFileNoText, EditTypeOK
    <2>7. text' = text /\ backup' = backup /\ raced' = raced
      BY <1>2 DEF SameFile, SameText
    <2>8. Written(text)' = Written(text) /\ Written(original[a])' = Written(text)
      BY <2>2, <2>7 DEF Written
    <2>9. UnseenIsRaced'
      <3>1. \A b \in Agents : Holding(b)' => b = a
        BY <2>5
      <3>2. \A b \in Agents : stage'[b] # "replacing"
        BY <2>5 DEF Holding
      <3>3. \A b \in Agents : stage'[b] = "creating" => stage[b] = "creating"
        BY <2>5
      <3>4. \A b \in Agents : stage'[b] = "creating" => Written(text)' \subseteq raced'
        BY <2>7, <2>8, <3>3 DEF UnseenIsRaced
      <3>5. \A b \in Agents : Holding(b)' => Written(original[b])' = Written(text)'
        BY <3>1, <2>8
      <3>6. QED
        BY <3>2, <3>4, <3>5 DEF UnseenIsRaced
    <2>10. NoFileNoText' /\ OnlyRacedIsLost'
      BY <1>2 DEF NoFileNoText, OnlyRacedIsLost, SameFile, SameText, Empty
    <2>11. QED
      BY <2>6, <2>9, <2>10
  <1>3. QED
    BY <1>1, <1>2 DEF LockAndRead

LEMMA CopyRaces ==
  ASSUME EditTypeOK, RaceInv, NEW a \in Agents, Copy(a)
  PROVE  RaceInv'
  <1> USE DEF RaceInv
  <1>1. /\ stage[a] = "copying" /\ GoOn(a, "replacing")
        /\ backup' = IF BackupBeforeEdit THEN text ELSE backup
        /\ UNCHANGED <<text, exists, unused, raced, lost, fileLock>>
    BY DEF Copy, SameText
  <1>3. stage'[a] = "replacing" /\ original' = original
        /\ \A b \in Agents \ {a} : stage'[b] = stage[b]
    BY <1>1, GoOnType DEF Stages
  <1>4. \A b \in Agents : Holding(b)' <=> Holding(b)
    BY <1>1, <1>3 DEF Holding
  <1>5. HoldersHold'
    BY <1>1, <1>4 DEF HoldersHold
  <1>7. Written(text)' = Written(text)
        /\ (BackupBeforeEdit => Written(backup)' = Written(text))
        /\ \A b \in Agents : Written(original[b])' = Written(original[b])
    BY <1>1, <1>3 DEF Written
  <1>8. \A b \in Agents : stage'[b] = "creating" => stage[b] = "creating"
    BY <1>3
  <1>9. UnseenIsRaced'
    BY <1>1, <1>4, <1>7, <1>8 DEF UnseenIsRaced
  <1>10. NoFileNoText' /\ OnlyRacedIsLost'
    BY <1>1 DEF NoFileNoText, OnlyRacedIsLost, Empty
  <1>11. QED
    BY <1>5, <1>9, <1>10

(* A new passage: whoever is in the middle of a creation has not seen it,  *)
(* and then it is raced.                                                   *)
LEMMA ReplaceRaces ==
  ASSUME EditTypeOK, RaceInv, NEW a \in Agents, ReplaceText(a)
  PROVE  RaceInv'
  <1> USE DEF RaceInv
  <1>1a. PICK P \in Matches(a, original[a]) :
          /\ PutText(a, TRUE, original[a],
                 [p \in Passages |-> IF p \in P THEN unused ELSE original[a][p]])
    BY DEF ReplaceText
  <1>1. PICK new : /\ new = [p \in Passages |-> IF p \in P THEN unused ELSE original[a][p]]
                     /\ PutText(a, TRUE, original[a], new)
    BY <1>1a
  <1>2. /\ stage[a] = "replacing" /\ fileLock' = Nobody /\ GoOn(a, "edited")
        /\ text' = new /\ exists' = TRUE /\ Race(a, TRUE)
        /\ lost' = lost \cup (Written(text) \ Written(original[a]))
    BY <1>1 DEF ReplaceText, PutText
  <1>3. Written(new) \subseteq Written(original[a]) \cup {unused}
    <2>1. unused \in 1 .. MaxWrites /\ original[a] \in Texts /\ P \in SUBSET Passages
      BY <1>1, EditAssumption DEF PutText, EditTypeOK, Matches
    <2>2. QED
      BY <1>1, <2>1, WrittenInPlaces
  <1>4. /\ raced \subseteq raced'
        /\ \A b \in Agents \ {a} : stage[b] = "creating" => unused \in raced'
    BY <1>2 DEF Race
  <1>10. stage'[a] = "edited" /\ \A b \in Agents \ {a} : stage'[b] = stage[b]
    BY <1>2, GoOnType DEF Stages
  <1>11. Holding(a) /\ \A b \in Agents \ {a} : ~Holding(b)
    BY <1>2 DEF HoldersHold, Holding
  <1>12. \A b \in Agents : ~Holding(b)'
    BY <1>10, <1>11 DEF Holding
  <1>13. HoldersHold'
    BY <1>12 DEF HoldersHold
  <1>14. UnseenIsRaced'
    <2>1. \A b \in Agents : stage'[b] # "replacing"
      BY <1>12 DEF Holding
    <2>2. ASSUME NEW b \in Agents, stage'[b] = "creating"
          PROVE  Written(new) \subseteq raced'
      <3>1. b # a /\ stage[b] = "creating"
        BY <2>2, <1>10
      <3>2. Written(original[a]) \subseteq raced
        BY <3>1, <1>11 DEF UnseenIsRaced
      <3>3. QED
        BY <3>1, <3>2, <1>3, <1>4
    <2>3. Written(text)' = Written(new)
      BY <1>2 DEF Written
    <2>4. QED
      BY <1>12, <2>1, <2>2, <2>3 DEF UnseenIsRaced
  <1>15. NoFileNoText'
    BY <1>2 DEF NoFileNoText
  <1>16. OnlyRacedIsLost'
    <2>1. Written(text) \ Written(original[a]) \subseteq raced
      BY <1>11 DEF UnseenIsRaced
    <2>2. QED
      BY <1>2, <1>4, <2>1 DEF OnlyRacedIsLost
  <1>17. QED
    BY <1>13, <1>14, <1>15, <1>16

LEMMA CheckAbsentRaces ==
  ASSUME EditTypeOK, RaceInv, NEW a \in Agents, CheckAbsent(a)
  PROVE  RaceInv'
  <1> USE DEF RaceInv
  <1>1. stage[a] = "idle" /\ ~exists /\ GoOn(a, "creating") /\ SameFile
    BY DEF CheckAbsent
  <1>3. stage'[a] = "creating" /\ \A b \in Agents \ {a} : stage'[b] = stage[b]
    BY <1>1, GoOnType DEF Stages
  <1>4. \A b \in Agents : ~Holding(b)
    BY <1>1 DEF HoldersHold
  <1>5. \A b \in Agents : ~Holding(b)'
    BY <1>3, <1>4 DEF Holding
  <1>6. HoldersHold'
    BY <1>5 DEF HoldersHold
  <1>7. text' = Empty /\ Written(text)' = {}
    BY <1>1, WrittenEmpty DEF NoFileNoText, SameFile, SameText, Written
  <1>8. UnseenIsRaced'
    BY <1>5, <1>7 DEF UnseenIsRaced, Holding
  <1>9. NoFileNoText' /\ OnlyRacedIsLost'
    BY <1>1 DEF NoFileNoText, OnlyRacedIsLost, SameFile, SameText, Empty
  <1>10. QED
    BY <1>6, <1>8, <1>9

LEMMA CreateRaces ==
  ASSUME EditTypeOK, RaceInv, NEW a \in Agents, Create(a)
  PROVE  RaceInv'
  <1>1. PICK new : new = [p \in Passages |-> unused] /\ PutText(a, FALSE, Empty, new)
    BY DEF Create
  <1>2. unused \in 1 .. MaxWrites
    BY <1>1, EditAssumption DEF PutText, EditTypeOK
  <1>3. Written(text)' \subseteq {unused}
    <2>1. Written(new) \subseteq {unused}
      BY <1>1, <1>2, WrittenEverywhere
    <2>2. QED
      BY <1>1, <2>1 DEF PutText, Written
  <1>4. Written(text) \subseteq raced
    BY DEF Create, RaceInv, UnseenIsRaced
  <1>5. exists' = TRUE /\ Race(a, FALSE) /\ backup' = backup /\ lost' \subseteq lost \cup raced
    BY <1>1, <1>4 DEF PutText
  <1>6. GoOn(a, "idle") /\ fileLock' = fileLock
    BY DEF Create
  <1>7. stage'[a] = "idle"
        /\ \A b \in Agents \ {a} : stage'[b] = stage[b] /\ original'[b] = original[b]
    BY <1>6, GoOnType DEF Stages
  <1>8. QED
    BY <1>2, <1>3, <1>5, <1>6, <1>7, UnlockedWriteRaces

LEMMA UserSavesRaces ==
  ASSUME EditTypeOK, RaceInv, NEW p \in Passages, UserSaves(p)
  PROVE  RaceInv'
  <1>1. PICK new : new = [text EXCEPT ![p] = unused] /\ PutText(Nobody, FALSE, text, new)
    BY DEF UserSaves
  <1>2. unused \in 1 .. MaxWrites
    BY <1>1, EditAssumption DEF PutText, EditTypeOK
  <1>3. Written(text)' \subseteq Written(text) \cup {unused}
    <2>1. Written(new) \subseteq Written(text) \cup {unused}
      BY <1>1, <1>2, WrittenExcept DEF EditTypeOK
    <2>2. QED
      BY <1>1, <2>1 DEF PutText, Written
  <1>4. exists' = TRUE /\ Race(Nobody, FALSE) /\ backup' = backup /\ lost' \subseteq lost
    BY <1>1 DEF PutText
  <1>5. UNCHANGED <<fileLock, stage, original>> /\ Nobody \notin Agents
    BY EditAssumption DEF UserSaves
  <1>6. QED
    BY <1>2, <1>3, <1>4, <1>5, UnlockedWriteRaces

(* A step that neither writes nor reads, or only empties the file, keeps   *)
(* what the clock accounts for.                                            *)
LEMMA SightKept ==
  ASSUME SightInv, Written(text)' \subseteq Written(text),
         displayed \subseteq displayed', slipped \subseteq slipped', replaced' = replaced,
         readTime' = "newer" => readTime = "newer",
         \A b \in Agents : stage'[b] \in InFlight => stage[b] \in InFlight,
         \A b \in Agents : Holding(b)' => Holding(b) /\ original'[b] = original[b],
         \A b \in Agents : stage'[b] = "reading" =>
                               stage[b] = "reading" /\ original'[b] = original[b]
  PROVE  SightInv'
  <1> USE DEF SightInv
  <1>1. Known \subseteq Known'
    BY DEF Known
  <1>2. \A b \in Agents : original'[b] = original[b] => Written(original[b])' = Written(original[b])
    BY DEF Written
  <1>3. readTime' = "newer" => Written(text)' \subseteq Known'
    BY <1>1
  <1>4. \A b \in Agents : stage'[b] \in InFlight => Written(text)' \subseteq Known'
    BY <1>1
  <1>5. \A b \in Agents : Holding(b)' => Written(original[b])' \subseteq Known'
    BY <1>1, <1>2
  <1>6. \A b \in Agents : stage'[b] = "reading" =>
            Written(text)' \subseteq Written(original[b])' \cup Known'
    BY <1>1, <1>2
  <1>7. OnlySlippedIsReplaced'
    BY DEF OnlySlippedIsReplaced
  <1>8. QED
    BY <1>3, <1>4, <1>5, <1>6, <1>7 DEF InFlight

(* A new passage: the clock accounts for it, or it slips.                  *)
LEMMA SightWritten ==
  ASSUME SightInv, NEW a, Touch, Slip(a),
         Written(text)' \subseteq Written(text) \cup Known \cup {unused},
         displayed' = displayed, replaced' \subseteq slipped',
         \A b \in Agents \ {a} : stage'[b] = stage[b] /\ original'[b] = original[b],
         a \in Agents => stage'[a] \in {"idle", "edited"}
  PROVE  SightInv'
  <1> USE DEF SightInv
  <1>1. Known \subseteq Known' /\ slipped \subseteq slipped'
    BY DEF Known, Slip
  <1>2. readTime' = "newer" => readTime = "newer" /\ unused \in Known'
    BY DEF Touch, Slip, Known
  <1>3. \A b \in Agents : stage'[b] \in InFlight \cup {"reading"} =>
            /\ b # a /\ stage'[b] = stage[b] /\ original'[b] = original[b]
            /\ unused \in Known'
    BY DEF Slip, Known, InFlight
  <1>4. \A b \in Agents : Holding(b)' =>
            Holding(b) /\ Written(original[b])' = Written(original[b])
    BY <1>3 DEF Holding, InFlight, Written
  <1>5. readTime' = "newer" => Written(text)' \subseteq Known'
    BY <1>1, <1>2
  <1>6. \A b \in Agents : stage'[b] \in InFlight => Written(text)' \subseteq Known'
    BY <1>1, <1>3
  <1>7. \A b \in Agents : Holding(b)' => Written(original[b])' \subseteq Known'
    BY <1>1, <1>4
  <1>8. \A b \in Agents : stage'[b] = "reading" =>
            Written(text)' \subseteq Written(original[b])' \cup Known'
    BY <1>1, <1>3 DEF Written
  <1>9. OnlySlippedIsReplaced'
    BY DEF OnlySlippedIsReplaced
  <1>10. QED
    BY <1>5, <1>6, <1>7, <1>8, <1>9 DEF InFlight

LEMMA BeginReadSees ==
  ASSUME EditTypeOK, SightInv, NEW a \in Agents, BeginRead(a)
  PROVE  SightInv'
  <1> USE DEF SightInv
  <1>1. /\ stage' = [stage EXCEPT ![a] = "reading"]
        /\ original' = [original EXCEPT ![a] = text]
        /\ SameFile /\ SameSight
    BY DEF BeginRead
  <1>2. stage'[a] = "reading" /\ original'[a] = text
        /\ \A b \in Agents \ {a} : stage'[b] = stage[b] /\ original'[b] = original[b]
    BY <1>1 DEF EditTypeOK
  <1>3. Known' = Known /\ Written(text)' = Written(text) /\ replaced' = replaced
        /\ slipped' = slipped /\ readTime' = readTime
    BY <1>1 DEF SameFile, SameText, SameSight, Known, Written
  <1>4. /\ Written(original[a])' = Written(text)
        /\ \A b \in Agents \ {a} : Written(original[b])' = Written(original[b])
    BY <1>2 DEF Written
  <1>5. \A b \in Agents : stage'[b] \in InFlight => stage[b] \in InFlight
    BY <1>2 DEF InFlight
  <1>6. \A b \in Agents : Holding(b)' => Holding(b) /\ b # a
    BY <1>2 DEF Holding
  <1>7. \A b \in Agents : stage'[b] = "reading" =>
            Written(text)' \subseteq Written(original[b])' \cup Known'
    BY <1>2, <1>3, <1>4
  <1>8. OnlySlippedIsReplaced'
    BY <1>3 DEF OnlySlippedIsReplaced
  <1>9. QED
    BY <1>3, <1>4, <1>5, <1>6, <1>7, <1>8 DEF InFlight

LEMMA RecordReadSees ==
  ASSUME EditTypeOK, SightInv, NEW a \in Agents, RecordRead(a)
  PROVE  SightInv'
  <1> USE DEF SightInv
  <1>1. /\ stage[a] = "reading" /\ GoOn(a, "idle") /\ SameFile /\ slipped' = slipped
        /\ displayed' = displayed \cup Written(original[a])
    BY DEF RecordRead
  <1>2. stage'[a] = "idle"
        /\ \A b \in Agents \ {a} : stage'[b] = stage[b] /\ original'[b] = original[b]
    BY <1>1, GoOnType DEF Stages
  <1>3. Known \subseteq Known' /\ Written(text)' \subseteq Known'
        /\ Written(text)' = Written(text)
    BY <1>1 DEF Known, SameFile, SameText, Written
  <1>4. \A b \in Agents : Holding(b)' => Holding(b) /\ b # a
    BY <1>2 DEF Holding
  <1>5. \A b \in Agents : Holding(b)' => Written(original[b])' \subseteq Known'
    BY <1>2, <1>3, <1>4 DEF Written
  <1>6. OnlySlippedIsReplaced'
    BY <1>1 DEF OnlySlippedIsReplaced, SameFile, SameText
  <1>7. QED
    BY <1>3, <1>5, <1>6

LEMMA CheckFreshSees ==
  ASSUME EditTypeOK, SightInv, NEW a \in Agents, NEW p \in Passages, NEW v \in 1 .. MaxWrites,
         CheckFresh(a, p, v)
  PROVE  SightInv'
  <1> USE DEF SightInv
  <1>1. /\ stage' = [stage EXCEPT ![a] = "checked"] /\ stage[a] = "idle"
        /\ slipped' = IF readTime = "none" THEN slipped \cup (Written(text) \ displayed) ELSE slipped
        /\ SameFile /\ UNCHANGED <<readTime, displayed, original>> /\ readTime # "older"
    BY DEF CheckFresh
  <1>2. stage'[a] = "checked" /\ \A b \in Agents \ {a} : stage'[b] = stage[b]
    BY <1>1 DEF EditTypeOK
  <1>3. Known \subseteq Known' /\ slipped \subseteq slipped' /\ Written(text)' = Written(text)
        /\ \A b \in Agents : Written(original[b])' = Written(original[b])
    BY <1>1 DEF Known, SameFile, SameText, Written
  <1>4. Written(text) \subseteq Known'
    <2>1. CASE readTime = "none"
      BY <1>1, <2>1 DEF Known
    <2>2. CASE readTime = "newer"
      BY <1>3, <2>2
    <2>3. QED
      BY <1>1, <2>1, <2>2 DEF EditTypeOK
  <1>5. \A b \in Agents : (Holding(b)' => Holding(b))
                          /\ (stage'[b] = "reading" => stage[b] = "reading")
    BY <1>2 DEF Holding
  <1>6. \A b \in Agents : Holding(b)' => Written(original[b])' \subseteq Known'
    BY <1>3, <1>5
  <1>7. OnlySlippedIsReplaced'
    BY <1>1, <1>3 DEF OnlySlippedIsReplaced, SameFile, SameText
  <1>8. QED
    BY <1>3, <1>4, <1>6, <1>7

LEMMA LockAndReadSees ==
  ASSUME EditTypeOK, SightInv, NEW a \in Agents, LockAndRead(a)
  PROVE  SightInv'
  <1>1. CASE NotReplaced(a)
    <2>1. GoOn(a, "idle") /\ SameFile /\ SameSight
      BY <1>1 DEF NotReplaced
    <2>2. stage'[a] = "idle"
          /\ \A b \in Agents \ {a} : stage'[b] = stage[b] /\ original'[b] = original[b]
      BY <2>1, GoOnType DEF Stages
    <2>3. QED
      BY <2>1, <2>2, SightKept DEF SameFile, SameText, SameSight, Holding, InFlight, Written
  <1>2. CASE /\ SameFile /\ SameSight
             /\ stage' = [stage EXCEPT ![a] = "copying"]
             /\ original' = [original EXCEPT ![a] = text]
    <2> USE DEF SightInv
    <2>1. stage[a] \in InFlight
      BY DEF LockAndRead, InFlight
    <2>2. stage'[a] = "copying" /\ original'[a] = text
          /\ \A b \in Agents \ {a} : stage'[b] = stage[b] /\ original'[b] = original[b]
      BY <1>2 DEF EditTypeOK
    <2>3. Known' = Known /\ Written(text)' = Written(text) /\ replaced' = replaced
          /\ slipped' = slipped /\ readTime' = readTime
      BY <1>2 DEF SameFile, SameText, SameSight, Known, Written
    <2>4. /\ Written(original[a])' = Written(text)
          /\ \A b \in Agents \ {a} : Written(original[b])' = Written(original[b])
      BY <2>2 DEF Written
    <2>5. Written(text) \subseteq Known
      BY <2>1
    <2>6. \A b \in Agents : Holding(b)' => Written(original[b])' \subseteq Known'
      BY <2>2, <2>3, <2>4, <2>5 DEF Holding
    <2>7. \A b \in Agents : stage'[b] = "reading" => stage[b] = "reading" /\ b # a
      BY <2>2
    <2>8. OnlySlippedIsReplaced'
      BY <2>3 DEF OnlySlippedIsReplaced
    <2>9. QED
      BY <2>3, <2>5, <2>6, <2>8
  <1>3. QED
    BY <1>1, <1>2 DEF LockAndRead

LEMMA ReplaceSees ==
  ASSUME EditTypeOK, SightInv, NEW a \in Agents, ReplaceText(a)
  PROVE  SightInv'
  <1>1a. PICK P \in Matches(a, original[a]) :
          /\ PutText(a, TRUE, original[a],
                 [p \in Passages |-> IF p \in P THEN unused ELSE original[a][p]])
          /\ replaced' = IF Exact(a, original[a]) THEN replaced
                         ELSE replaced \cup ({original[a][p] : p \in P} \ displayed)
    BY DEF ReplaceText
  <1>1. PICK new : /\ new = [p \in Passages |-> IF p \in P THEN unused ELSE original[a][p]]
                     /\ PutText(a, TRUE, original[a], new)
    BY <1>1a
  <1>2. stage[a] = "replacing" /\ GoOn(a, "edited")
    BY DEF ReplaceText
  <1>3. original[a] \in Texts /\ unused \in 1 .. MaxWrites
    BY <1>1, EditAssumption DEF PutText, EditTypeOK
  <1>4. P \in SUBSET Passages /\ {original[a][p] : p \in P} \subseteq Written(original[a])
    BY <1>3, PlacesWritten
  <1>5. Written(new) \subseteq Written(original[a]) \cup {unused}
    <2>1. new = [p \in Passages |-> IF p \in P THEN unused ELSE original[a][p]]
      BY <1>1
    <2>2. QED
      BY <1>3, <1>4, <2>1, WrittenInPlaces
  <1>6. Written(original[a]) \subseteq Known
    BY <1>2 DEF SightInv, Holding
  <1>7. Touch /\ Slip(a) /\ displayed' = displayed /\ Written(text)' = Written(new)
    BY <1>1 DEF PutText, Written
  <1>8. replaced' \subseteq slipped'
    <2>1. slipped \subseteq slipped'
      BY <1>7 DEF Slip
    <2>2. replaced \subseteq slipped
      BY DEF SightInv, OnlySlippedIsReplaced
    <2>3. {original[a][p] : p \in P} \ displayed \subseteq slipped
      BY <1>4, <1>6 DEF Known
    <2>4. QED
      BY <1>1a, <2>1, <2>2, <2>3
  <1>9. stage'[a] = "edited"
        /\ \A b \in Agents \ {a} : stage'[b] = stage[b] /\ original'[b] = original[b]
    BY <1>2, GoOnType DEF Stages
  <1>10. Written(text)' \subseteq Written(text) \cup Known \cup {unused}
    BY <1>5, <1>6, <1>7
  <1>11. QED
    BY <1>7, <1>8, <1>9, <1>10, SightWritten

LEMMA CreateSees ==
  ASSUME EditTypeOK, SightInv, NEW a \in Agents, Create(a)
  PROVE  SightInv'
  <1>1. PICK new : new = [p \in Passages |-> unused] /\ PutText(a, FALSE, Empty, new)
    BY DEF Create
  <1>2. unused \in 1 .. MaxWrites
    BY <1>1, EditAssumption DEF PutText, EditTypeOK
  <1>3. Written(text)' \subseteq {unused}
    <2>1. Written(new) \subseteq {unused}
      BY <1>1, <1>2, WrittenEverywhere
    <2>2. QED
      BY <1>1, <2>1 DEF PutText, Written
  <1>4. Touch /\ Slip(a) /\ displayed' = displayed
    BY <1>1 DEF PutText
  <1>5. GoOn(a, "idle") /\ replaced' = replaced
    BY DEF Create
  <1>6. replaced' \subseteq slipped'
    BY <1>4, <1>5 DEF Slip, SightInv, OnlySlippedIsReplaced
  <1>7. stage'[a] = "idle"
        /\ \A b \in Agents \ {a} : stage'[b] = stage[b] /\ original'[b] = original[b]
    BY <1>5, GoOnType DEF Stages
  <1>8. Written(text)' \subseteq Written(text) \cup Known \cup {unused}
    BY <1>3
  <1>9. QED
    BY <1>4, <1>6, <1>7, <1>8, SightWritten

LEMMA UserSavesSees ==
  ASSUME EditTypeOK, SightInv, NEW p \in Passages, UserSaves(p)
  PROVE  SightInv'
  <1>1. PICK new : new = [text EXCEPT ![p] = unused] /\ PutText(Nobody, FALSE, text, new)
    BY DEF UserSaves
  <1>2. unused \in 1 .. MaxWrites
    BY <1>1, EditAssumption DEF PutText, EditTypeOK
  <1>3. Written(text)' \subseteq Written(text) \cup Known \cup {unused}
    <2>1. Written(new) \subseteq Written(text) \cup {unused}
      BY <1>1, <1>2, WrittenExcept DEF EditTypeOK
    <2>2. QED
      BY <1>1, <2>1 DEF PutText, Written
  <1>4. Touch /\ Slip(Nobody) /\ displayed' = displayed
    BY <1>1 DEF PutText
  <1>5. UNCHANGED <<stage, original, replaced>> /\ Nobody \notin Agents
    BY EditAssumption DEF UserSaves
  <1>6. replaced' \subseteq slipped'
    BY <1>4, <1>5 DEF Slip, SightInv, OnlySlippedIsReplaced
  <1>7. QED
    BY <1>3, <1>4, <1>5, <1>6, SightWritten

-----------------------------------------------------------------------------
LEMMA EditInitInv == EditInit => EditInv
  <1> SUFFICES ASSUME EditInit PROVE EditInv
    OBVIOUS
  <1>1. EditTypeOK
    <2>1. stage \in [Agents -> Stages]
      BY DEF EditInit, Stages
    <2>2. quote \in [Agents -> [at : Passages, as : 0 .. MaxWrites]]
      BY NoQuoteType DEF EditInit
    <2>3. text \in Texts /\ backup \in Texts /\ original \in [Agents -> Texts]
      BY WrittenEmpty DEF EditInit
    <2>4. unused \in 1 .. MaxWrites + 1
      BY EditAssumption DEF EditInit
    <2>5. QED
      BY <2>1, <2>2, <2>3, <2>4 DEF EditInit, EditTypeOK, Stages
  <1>2. RaceInv
    BY DEF EditInit, RaceInv, HoldersHold, UnseenIsRaced, Holding, NoFileNoText, OnlyRacedIsLost
  <1>3. SightInv
    BY DEF EditInit, SightInv, Holding, InFlight, OnlySlippedIsReplaced
  <1>4. QED
    BY <1>1, <1>2, <1>3 DEF EditInv

(* The steps that neither write nor read the file, one agent or all moving.*)
LEMMA QuietStep ==
  ASSUME EditInv, NEW a \in Agents,
         \/ DryRun(a) \/ CopyFails(a) \/ Invalidate(a)
         \/ \E ok \in BOOLEAN : Decide(a, ok)
  PROVE  RaceInv' /\ SightInv'
  <1> USE DEF EditInv
  <1>1. PICK at \in {"idle", "approving", "locking"} : GoOn(a, at)
    BY DEF DryRun, NotReplaced, CopyFails, Invalidate, Decide
  <1>2. stage'[a] = at
        /\ \A b \in Agents \ {a} : stage'[b] = stage[b] /\ original'[b] = original[b]
    BY <1>1, GoOnType DEF Stages
  <1>3. SameText /\ (backup' = backup \/ stage[a] = "copying")
        /\ displayed' = displayed /\ slipped' = slipped
        /\ (readTime' = "newer" => readTime = "newer")
        /\ (fileLock' = fileLock \/ stage[a] = "copying")
        /\ (at # "idle" => stage[a] \in InFlight)
    <2>1. CASE DryRun(a)
      BY <2>1 DEF DryRun, NotReplaced, SameFile, SameSight, InFlight
    <2>2. CASE CopyFails(a)
      BY <2>2, <1>1, <1>2, GoOnType DEF CopyFails, SameSight, InFlight, Stages
    <2>3. CASE Invalidate(a)
      BY <2>3, <1>2, GoOnType DEF Invalidate, SameFile, Stages
    <2>4. CASE \E ok \in BOOLEAN : Decide(a, ok)
      BY <2>4 DEF Decide, SameFile, SameSight, InFlight
    <2>5. QED
      BY <2>1, <2>2, <2>3, <2>4
  <1>4. stage[a] = "copying" => \A b \in Agents \ {a} : ~Holding(b)
    BY DEF RaceInv, HoldersHold, Holding
  <1>5. SightInv'
    BY <1>2, <1>3, SightKept DEF SameFile, SameText, Holding, InFlight, Written
  <1>6. QED
    BY <1>2, <1>3, <1>4, <1>5, MovingKeeps DEF Holding

LEMMA WriteFailsKeeps ==
  ASSUME EditInv, NEW a \in Agents, WriteFails(a)
  PROVE  RaceInv' /\ SightInv'
  <1> USE DEF EditInv
  <1>1. /\ stage[a] \in {"replacing", "creating"} /\ GoOn(a, "idle")
        /\ stage[a] = "replacing" \/ fileLock' = fileLock
    BY DEF WriteFails
  <1>2. stage'[a] = "idle"
        /\ \A b \in Agents \ {a} : stage'[b] = stage[b] /\ original'[b] = original[b]
    BY <1>1, GoOnType DEF Stages
  <1>3. stage[a] = "replacing" => \A b \in Agents \ {a} : ~Holding(b)
    BY DEF RaceInv, HoldersHold, Holding
  <1>4. \A b \in Agents : stage'[b] \in {"copying", "replacing", "creating"} =>
                /\ stage'[b] = stage[b] /\ original'[b] = original[b]
                /\ stage'[b] = "creating" \/ fileLock' = fileLock
    BY <1>1, <1>2, <1>3 DEF Holding
  <1>5. /\ \A b \in Agents : stage'[b] \in InFlight => stage[b] \in InFlight
        /\ \A b \in Agents : Holding(b)' => Holding(b) /\ original'[b] = original[b]
        /\ \A b \in Agents : stage'[b] = "reading" =>
                              stage[b] = "reading" /\ original'[b] = original[b]
    BY <1>2 DEF InFlight, Holding
  <1>6. CASE SameFile /\ SameSight
    <2>1. RaceInv'
      BY <1>4, <1>6, MovingKeeps DEF SameFile
    <2>2. SightInv'
      BY <1>5, <1>6, SightKept DEF SameFile, SameText, SameSight, Written
    <2>3. QED
      BY <2>1, <2>2
  <1>7. CASE Truncate /\ Touch
    <2>1. RaceInv'
      BY <1>1, <1>4, <1>7, TruncateRaces
    <2>2. /\ Written(text)' = {} /\ UNCHANGED <<displayed, slipped, replaced>>
          /\ (readTime' = "newer" => readTime = "newer")
      BY <1>7, TruncateType DEF Touch
    <2>3. SightInv'
      BY <1>5, <2>2, SightKept
    <2>4. QED
      BY <2>1, <2>3
  <1>8. QED
    BY <1>6, <1>7 DEF WriteFails

LEMMA CrashKeeps ==
  ASSUME EditInv, NEW truncates \in BOOLEAN, Crash(truncates)
  PROVE  RaceInv' /\ SightInv'
  <1> USE DEF EditInv
  <1>1. readTime' = "none" /\ \A b \in Agents : stage'[b] = "idle"
    BY DEF Crash
  <1>2. /\ \A b \in Agents : stage'[b] \notin InFlight \cup {"reading"}
        /\ \A b \in Agents : ~Holding(b)'
    BY <1>1 DEF InFlight, Holding
  <1>3. CASE truncates
    <2>1. Truncate
      BY <1>3 DEF Crash
    <2>2. PICK a \in Agents : stage[a] \in {"replacing", "creating"}
      BY <1>3 DEF Crash
    <2>3. RaceInv'
      BY <1>1, <2>1, <2>2, TruncateRaces
    <2>4. Written(text)' = {} /\ UNCHANGED <<displayed, slipped, replaced>>
      BY <2>1, TruncateType
    <2>5. SightInv'
      BY <1>1, <1>2, <2>4, SightKept
    <2>6. QED
      BY <2>3, <2>5
  <1>4. CASE ~truncates
    <2>1. SameFile /\ UNCHANGED <<displayed, slipped>>
      BY <1>4 DEF Crash
    <2>2. RaceInv'
      BY <1>1, <2>1, MovingKeeps DEF SameFile
    <2>3. SightInv'
      BY <1>1, <1>2, <2>1, SightKept DEF SameFile, SameText, Written
    <2>4. QED
      BY <2>2, <2>3
  <1>5. QED
    BY <1>3, <1>4

LEMMA EditStepInv == EditInv /\ [EditNext]_editVars => EditInv'
  <1> SUFFICES ASSUME EditInv, [EditNext]_editVars PROVE EditInv'
    OBVIOUS
  <1> USE DEF EditInv
  <1>1. CASE UNCHANGED editVars
    BY <1>1 DEF editVars, EditTypeOK, RaceInv, HoldersHold, UnseenIsRaced, NoFileNoText,
                OnlyRacedIsLost, SightInv, Known, OnlySlippedIsReplaced, Holding, Written, Empty
  <1>2. CASE EditNext
    <2>1. EditTypeOK'
      BY <1>2, EditTypeStep
    <2>2. ASSUME NEW a \in Agents, BeginRead(a) \/ RecordRead(a) PROVE RaceInv' /\ SightInv'
      <3>1. /\ SameFile /\ fileLock' = fileLock
            /\ \A b \in Agents \ {a} : stage'[b] = stage[b] /\ original'[b] = original[b]
            /\ stage'[a] \in {"idle", "reading"}
        <4>1. CASE BeginRead(a)
          BY <4>1 DEF BeginRead, EditTypeOK
        <4>2. CASE RecordRead(a)
          BY <4>2, GoOnType DEF RecordRead, Stages
        <4>3. QED
          BY <2>2, <4>1, <4>2
      <3>2. QED
        BY <2>2, <3>1, MovingKeeps, BeginReadSees, RecordReadSees DEF SameFile
    <2>3. ASSUME NEW a \in Agents, NEW p \in Passages, NEW v \in 1 .. MaxWrites,
                 CheckFresh(a, p, v)
          PROVE  RaceInv' /\ SightInv'
      <3>1. /\ SameFile /\ fileLock' = fileLock /\ original' = original
            /\ stage'[a] = "checked" /\ \A b \in Agents \ {a} : stage'[b] = stage[b]
        BY <2>3 DEF CheckFresh, EditTypeOK
      <3>2. RaceInv'
        BY <3>1, MovingKeeps DEF SameFile
      <3>3. QED
        BY <2>3, <3>2, CheckFreshSees
    <2>4. ASSUME NEW a \in Agents, LockAndRead(a) PROVE RaceInv' /\ SightInv'
      BY <2>4, LockAndReadRaces, LockAndReadSees
    <2>5. ASSUME NEW a \in Agents, Copy(a) \/ CheckAbsent(a) PROVE SightInv'
      <3>1. PICK at \in {"replacing", "creating"} : GoOn(a, at) /\ (at = "replacing" => stage[a] = "copying")
        BY <2>5 DEF Copy, SameText, CheckAbsent
      <3>2. /\ stage'[a] = at /\ \A b \in Agents \ {a} : stage'[b] = stage[b]
            /\ original' = original
        BY <3>1, GoOnType DEF Stages
      <3>3. text' = text /\ replaced' = replaced /\ SameSight
        BY <2>5 DEF Copy, CheckAbsent, SameFile, SameText
      <3>4. QED
        BY <3>1, <3>2, <3>3, SightKept DEF SameSight, Written, Holding, InFlight
    <2>6. ASSUME NEW a \in Agents, Copy(a) \/ CheckAbsent(a) PROVE RaceInv' /\ SightInv'
      BY <2>5, <2>6, CopyRaces, CheckAbsentRaces
    <2>7. ASSUME NEW a \in Agents, ReplaceText(a) \/ Create(a) PROVE RaceInv' /\ SightInv'
      BY <2>7, ReplaceRaces, ReplaceSees, CreateRaces, CreateSees
    <2>8. ASSUME NEW p \in Passages, UserSaves(p) PROVE RaceInv' /\ SightInv'
      BY <2>8, UserSavesRaces, UserSavesSees
    <2>9. QED
      BY <1>2, <2>1, <2>2, <2>3, <2>4, <2>6, <2>7, <2>8, QuietStep, WriteFailsKeeps,
         CrashKeeps DEF EditNext
  <1>3. QED
    BY <1>1, <1>2

(* Every variable of FileEdits has its type.                                *)
THEOREM EditTypesHold == EditSpec => []EditTypeOK
  <1>1. EditInv => EditTypeOK
    BY DEF EditInv
  <1>2. QED
    BY <1>1, EditInitInv, EditStepInv, PTL DEF EditSpec

(* What a write sweeps away beside the passage it is for, however many     *)
(* agents and users write and whatever fails, was written between the look *)
(* and the write of an edit (under its lock) or of a creation.             *)
THEOREM NothingSeenIsLost == EditSpec => []OnlyRacedIsLost
  <1>1. EditInv => OnlyRacedIsLost
    BY DEF EditInv, RaceInv
  <1>2. QED
    BY <1>1, EditInitInv, EditStepInv, PTL DEF EditSpec

(* What the search replaces though it was not quoted had been shown, or    *)
(* the tracker's clock could not tell: for any agents, reads and saves,    *)
(* however late the approval.                                              *)
THEOREM NothingCheckedIsReplaced == EditSpec => []OnlySlippedIsReplaced
  <1>1. EditInv => OnlySlippedIsReplaced
    BY DEF EditInv, SightInv
  <1>2. QED
    BY <1>1, EditInitInv, EditStepInv, PTL DEF EditSpec
-----------------------------------------------------------------------------
(* The overlay of models.                                                  *)

(* What was overlaid is a model or an optional field that was not set; the *)
(* normal model is always one.                                             *)
OriginalsFit == "model" \in DOMAIN originals => originals["model"] # NoModel

(* In the terminal the configuration below the overlay was meant for the   *)
(* settings too, and is what was saved last or started with unless a save  *)
(* failed; the project's models are meant with them.                       *)
BelowIsMeant ==
    shell = "terminal" =>
        /\ SettingsStayGlobal
        /\ \A s \in Slots : Restored(config)[s] \in chosen[s]
        /\ \A s \in DOMAIN project : project[s] \in chosen[s]
        /\ ~unsaved => Restored(config) \in {settings, SetOver(project, settings)}

OverlayInv == OverlayTypeOK /\ OriginalsFit /\ BelowIsMeant

LEMMA PartialType ==
  /\ \A S \in SUBSET Slots : [S -> Models] \subseteq Partial
  /\ \A ov \in Partial : DOMAIN ov \subseteq Slots /\ ov \in [DOMAIN ov -> Models]
  /\ NoOverlay \in Partial /\ DOMAIN NoOverlay = {}
  BY DEF Partial, NoOverlay

(* Fields set over a configuration make one again.                         *)
LEMMA SetOverConfig ==
  ASSUME NEW c \in Configs, NEW S \in SUBSET Slots, NEW f \in [S -> Models \cup {NoModel}],
         "model" \in S => f["model"] # NoModel
  PROVE  /\ SetOver(f, c) \in Configs
         /\ \A s \in S : SetOver(f, c)[s] = f[s]
         /\ \A s \in Slots \ S : SetOver(f, c)[s] = c[s]
  <1>1. DOMAIN f = S /\ DOMAIN c = Slots /\ c["model"] # NoModel
        /\ \A s \in Slots : c[s] \in Models \cup {NoModel}
    BY DEF Configs
  <1>2. DOMAIN f \cup DOMAIN c = Slots
    BY <1>1
  <1>3. SetOver(f, c) = [s \in Slots |-> IF s \in S THEN f[s] ELSE c[s]]
    BY <1>1, <1>2 DEF SetOver
  <1>4. SetOver(f, c) \in [Slots -> Models \cup {NoModel}]
    BY <1>1, <1>3
  <1>5. SetOver(f, c)["model"] # NoModel
    BY <1>1, <1>3, SlotAssumption
  <1>6. QED
    BY <1>3, <1>4, <1>5 DEF Configs

(* What the next start reads: the project's models over the settings.      *)
LEMMA StartedConfig ==
  ASSUME OverlayTypeOK, NEW c \in Configs
  PROVE  /\ SetOver(project, c) \in Configs /\ DOMAIN project \in SUBSET Slots
         /\ \A s \in DOMAIN project : SetOver(project, c)[s] = project[s]
         /\ \A s \in Slots \ DOMAIN project : SetOver(project, c)[s] = c[s]
  <1>1. DOMAIN project \in SUBSET Slots /\ project \in [DOMAIN project -> Models]
    BY PartialType DEF OverlayTypeOK
  <1>2. /\ project \in [DOMAIN project -> Models \cup {NoModel}]
        /\ "model" \in DOMAIN project => project["model"] # NoModel
    BY <1>1, SlotAssumption
  <1>3. QED
    BY <1>1, <1>2, SetOverConfig

(* The settings are whole or torn.                                         *)
LEMMA SettingsDomain ==
  ASSUME OverlayTypeOK
  PROVE  /\ DOMAIN settings \subseteq Slots /\ DOMAIN Torn = {}
         /\ settings # Torn => settings \in Configs
  BY DEF OverlayTypeOK, Configs, Torn

LEMMA OriginalsType ==
  ASSUME OverlayInv
  PROVE  /\ DOMAIN originals = DOMAIN overlay /\ DOMAIN originals \in SUBSET Slots
         /\ originals \in [DOMAIN originals -> Models \cup {NoModel}]
         /\ "model" \in DOMAIN originals => originals["model"] # NoModel
  <1>1. originals \in [DOMAIN overlay -> Models \cup {NoModel}] /\ overlay \in Partial
    BY DEF OverlayInv, OverlayTypeOK
  <1>2. DOMAIN originals = DOMAIN overlay
    BY <1>1
  <1>3. QED
    BY <1>1, <1>2, PartialType DEF OverlayInv, OriginalsFit

LEMMA RestoredConfig ==
  ASSUME OverlayInv, NEW c \in Configs
  PROVE  /\ Restored(c) \in Configs
         /\ \A s \in DOMAIN originals : Restored(c)[s] = originals[s]
         /\ \A s \in Slots \ DOMAIN originals : Restored(c)[s] = c[s]
  BY OriginalsType, SetOverConfig DEF Restored

(* A new overlay: below it is what it was laid over.                       *)
LEMMA LaidOver ==
  ASSUME NEW c \in Configs, NEW ov \in Partial, Laid(c, ov)
  PROVE  /\ config' \in Configs /\ overlay' \in Partial
         /\ originals' \in [DOMAIN overlay' -> Models \cup {NoModel}]
         /\ OriginalsFit'
         /\ Restored(config)' = c
  <1>1. overlay' = ov /\ originals' = [s \in DOMAIN ov |-> c[s]] /\ config' = SetOver(ov, c)
    BY DEF Laid
  <1>2. DOMAIN ov \in SUBSET Slots /\ ov \in [DOMAIN ov -> Models]
    BY PartialType
  <1>3. c["model"] # NoModel /\ c \in [Slots -> Models \cup {NoModel}]
    BY DEF Configs
  <1>4. "model" \in DOMAIN ov => ov["model"] # NoModel
    BY <1>2, SlotAssumption
  <1>5. ov \in [DOMAIN ov -> Models \cup {NoModel}]
    BY <1>2
  <1>6. config' \in Configs /\ \A s \in Slots \ DOMAIN ov : config'[s] = c[s]
    BY <1>1, <1>2, <1>4, <1>5, SetOverConfig
  <1>7. originals' \in [DOMAIN ov -> Models \cup {NoModel}] /\ DOMAIN originals' = DOMAIN ov
    BY <1>1, <1>2, <1>3
  <1>8. OriginalsFit'
    BY <1>1, <1>3, <1>7 DEF OriginalsFit
  <1>9. Restored(config)' = c
    <2>1. Restored(config)' = SetOver(originals', config')
      BY DEF Restored, SetOver
    <2>2. "model" \in DOMAIN originals' => originals'["model"] # NoModel
      BY <1>8 DEF OriginalsFit
    <2>3. /\ SetOver(originals', config') \in Configs
          /\ \A s \in DOMAIN ov : SetOver(originals', config')[s] = originals'[s]
          /\ \A s \in Slots \ DOMAIN ov : SetOver(originals', config')[s] = config'[s]
      BY <1>2, <1>6, <1>7, <2>2, SetOverConfig
    <2>4. \A s \in Slots : SetOver(originals', config')[s] = c[s]
      BY <1>1, <1>2, <1>6, <2>3
    <2>5. SetOver(originals', config') \in [Slots -> Models \cup {NoModel}]
      BY <2>3 DEF Configs
    <2>6. QED
      BY <1>3, <2>1, <2>4, <2>5
  <1>10. QED
    BY <1>1, <1>6, <1>7, <1>8, <1>9

(* No overlay: the configuration is its own ground.                        *)
LEMMA NothingLaid ==
  ASSUME NEW c \in Configs, config' = c, overlay' = NoOverlay, originals' = NoOverlay
  PROVE  /\ config' \in Configs /\ overlay' \in Partial
         /\ originals' \in [DOMAIN overlay' -> Models \cup {NoModel}]
         /\ OriginalsFit'
         /\ Restored(config)' = c
  <1>1. DOMAIN NoOverlay = {} /\ NoOverlay \in Partial
        /\ NoOverlay \in [DOMAIN NoOverlay -> Models \cup {NoModel}]
    <2>1. NoOverlay \in [{} -> Models \cup {NoModel}]
      BY DEF NoOverlay
    <2>2. QED
      BY <2>1, PartialType
  <1>2. c = [s \in DOMAIN c |-> c[s]] /\ DOMAIN c = Slots
    BY DEF Configs
  <1>3. Restored(config)' = [s \in Slots |-> c[s]]
    BY <1>1, <1>2 DEF Restored, SetOver
  <1>4. QED
    BY <1>1, <1>2, <1>3 DEF OriginalsFit

LEMMA SwitchedConfig ==
  ASSUME OverlayInv, NEW s \in Slots, NEW m \in Models, NEW fill \in SUBSET Slots
  PROVE  Switched(s, m, fill) \in Configs
  <1>1. config \in [Slots -> Models \cup {NoModel}] /\ config["model"] # NoModel
    BY DEF OverlayInv, OverlayTypeOK, Configs
  <1>2. Switched(s, m, fill) \in [Slots -> Models \cup {NoModel}]
    BY <1>1 DEF Switched
  <1>3. Switched(s, m, fill)["model"] # NoModel
    BY <1>1, SlotAssumption DEF Switched
  <1>4. QED
    BY <1>2, <1>3 DEF Configs

(* What a switch sets is meant for the settings, and what it leaves below  *)
(* the overlay was meant before.                                           *)
LEMMA SwitchIsMeant ==
  ASSUME OverlayInv, shell = "terminal",
         NEW s \in Slots, NEW m \in Models, NEW fill \in SUBSET Slots,
         chosen' = [t \in Slots |-> IF t = s \/ t \in fill THEN chosen[t] \cup {m} ELSE chosen[t]]
  PROVE  /\ chosen' \in [Slots -> SUBSET (Models \cup {NoModel})]
         /\ \A t \in Slots : chosen[t] \subseteq chosen'[t]
         /\ \A t \in DOMAIN project : project[t] \in chosen'[t]
         /\ \A t \in Slots : Restored(Switched(s, m, fill))[t] \in chosen'[t]
  <1>1. chosen \in [Slots -> SUBSET (Models \cup {NoModel})] /\ config \in Configs
    BY DEF OverlayInv, OverlayTypeOK
  <1>2. chosen' \in [Slots -> SUBSET (Models \cup {NoModel})]
        /\ \A t \in Slots : chosen[t] \subseteq chosen'[t]
    BY <1>1
  <1>2a. \A t \in DOMAIN project : project[t] \in chosen'[t]
    BY <1>2, PartialType DEF OverlayInv, OverlayTypeOK, BelowIsMeant
  <1>3. ASSUME NEW t \in Slots
        PROVE  Restored(Switched(s, m, fill))[t] \in chosen'[t]
    <2>1. Restored(config)[t] \in chosen[t]
      BY DEF OverlayInv, BelowIsMeant
    <2>2. CASE t \in DOMAIN originals
      <3>1. Restored(Switched(s, m, fill))[t] = Restored(config)[t]
        BY <1>1, <2>2, RestoredConfig, SwitchedConfig
      <3>2. QED
        BY <1>2, <2>1, <3>1
    <2>3. CASE t \notin DOMAIN originals
      <3>1. /\ Restored(Switched(s, m, fill))[t] = Switched(s, m, fill)[t]
            /\ Restored(config)[t] = config[t]
        BY <1>1, <2>3, RestoredConfig, SwitchedConfig
      <3>2. Switched(s, m, fill)[t] = IF t = s \/ t \in fill THEN m ELSE config[t]
        BY DEF Switched
      <3>3. QED
        BY <1>1, <1>2, <2>1, <3>1, <3>2
    <2>4. QED
      BY <2>2, <2>3
  <1>4. QED
    BY <1>2, <1>2a, <1>3

(* What leaves the settings and what is below the overlay.                 *)
LEMMA BelowKept ==
  ASSUME OverlayInv, UNCHANGED <<shell, project, settings, unsaved, chosen>>,
         Restored(config)' = Restored(config)
  PROVE  BelowIsMeant'
  <1>1. SetOver(project, settings)' = SetOver(project, settings)
    BY DEF SetOver
  <1>2. SettingsStayGlobal' <=> SettingsStayGlobal
    BY DEF SettingsStayGlobal
  <1>3. QED
    BY <1>1, <1>2 DEF OverlayInv, BelowIsMeant

LEMMA SelectKeepsInv ==
  ASSUME OverlayInv, NEW s \in Slots, NEW m \in Models, Select(s, m)
  PROVE  OverlayInv'
  <1> DEFINE ov == SetOver(Single(s, m), overlay)
  <1>1. Laid(Restored(config), ov) /\ UNCHANGED <<shell, project, settings, unsaved, chosen>>
    BY DEF Select
  <1>2. config \in Configs /\ overlay \in Partial
    BY DEF OverlayInv, OverlayTypeOK
  <1>3. ov \in Partial
    <2>1. DOMAIN overlay \subseteq Slots /\ overlay \in [DOMAIN overlay -> Models]
      BY <1>2, PartialType
    <2>2. Single(s, m) = [t \in {s} |-> m] /\ DOMAIN Single(s, m) = {s}
      BY DEF Single
    <2>3. ov \in [{s} \cup DOMAIN overlay -> Models]
      BY <2>1, <2>2 DEF SetOver
    <2>4. {s} \cup DOMAIN overlay \in SUBSET Slots
      BY <2>1
    <2>5. QED
      BY <2>3, <2>4, PartialType
  <1> HIDE DEF ov
  <1>4. Restored(config) \in Configs
    BY <1>2, RestoredConfig
  <1>5. /\ config' \in Configs /\ overlay' \in Partial
        /\ originals' \in [DOMAIN overlay' -> Models \cup {NoModel}]
        /\ OriginalsFit' /\ Restored(config)' = Restored(config)
    BY <1>1, <1>3, <1>4, LaidOver
  <1>6. OverlayTypeOK'
    BY <1>1, <1>5 DEF OverlayInv, OverlayTypeOK
  <1>7. BelowIsMeant'
    BY <1>1, <1>5, BelowKept
  <1>8. QED
    BY <1>5, <1>6, <1>7 DEF OverlayInv

LEMMA PeelKeepsInv ==
  ASSUME OverlayInv, Peel, UNCHANGED <<shell, project, settings, unsaved, chosen>>
  PROVE  OverlayInv'
  <1>1. config \in Configs
    BY DEF OverlayInv, OverlayTypeOK
  <1>2. Restored(config) \in Configs
    BY <1>1, RestoredConfig
  <1>3. /\ config' \in Configs /\ overlay' \in Partial
        /\ originals' \in [DOMAIN overlay' -> Models \cup {NoModel}]
        /\ OriginalsFit' /\ Restored(config)' = Restored(config)
    BY <1>2, NothingLaid DEF Peel
  <1>4. OverlayTypeOK'
    BY <1>3 DEF OverlayInv, OverlayTypeOK
  <1>5. BelowIsMeant'
    BY <1>3, BelowKept
  <1>6. QED
    BY <1>3, <1>4, <1>5 DEF OverlayInv

LEMMA SwitchModelKeepsInv ==
  ASSUME OverlayInv, NEW s \in Slots, NEW m \in Models, NEW fill \in SUBSET Slots,
         SwitchModel(s, m, fill)
  PROVE  OverlayInv'
  <1> DEFINE global == Restored(Switched(s, m, fill))
  <1>1. /\ shell = "terminal" /\ UNCHANGED <<shell, project>> /\ unsaved' = FALSE
        /\ settings' = global /\ Laid(global, overlay)
        /\ chosen' = [t \in Slots |-> IF t = s \/ t \in fill THEN chosen[t] \cup {m} ELSE chosen[t]]
    BY DEF SwitchModel
  <1>2. overlay \in Partial
    BY DEF OverlayInv, OverlayTypeOK
  <1>3. /\ global \in Configs /\ chosen' \in [Slots -> SUBSET (Models \cup {NoModel})]
        /\ \A t \in Slots : global[t] \in chosen'[t]
        /\ \A t \in DOMAIN project : project[t] \in chosen'[t]
    BY <1>1, RestoredConfig, SwitchedConfig, SwitchIsMeant
  <1> HIDE DEF global
  <1>4. /\ config' \in Configs /\ overlay' \in Partial
        /\ originals' \in [DOMAIN overlay' -> Models \cup {NoModel}]
        /\ OriginalsFit' /\ Restored(config)' = global
    BY <1>1, <1>2, <1>3, LaidOver
  <1>5. OverlayTypeOK'
    BY <1>1, <1>3, <1>4 DEF OverlayInv, OverlayTypeOK
  <1>6. BelowIsMeant'
    <2>1. DOMAIN settings' = Slots
      BY <1>1, <1>3 DEF Configs
    <2>2. QED
      BY <1>1, <1>3, <1>4, <2>1 DEF BelowIsMeant, SettingsStayGlobal
  <1>7. QED
    BY <1>4, <1>5, <1>6 DEF OverlayInv

LEMMA SwitchFailsKeepsInv ==
  ASSUME OverlayInv, NEW s \in Slots, NEW m \in Models, NEW fill \in SUBSET Slots,
         SwitchFails(s, m, fill)
  PROVE  OverlayInv'
  <1> DEFINE global == Restored(Switched(s, m, fill))
  <1>1. /\ shell = "terminal" /\ UNCHANGED <<shell, project>> /\ unsaved' = TRUE
        /\ settings' \in {settings, Torn}
        /\ config' = global /\ overlay' = NoOverlay /\ originals' = NoOverlay
        /\ chosen' = [t \in Slots |-> IF t = s \/ t \in fill THEN chosen[t] \cup {m} ELSE chosen[t]]
    BY DEF SwitchFails, SettingsSaveFails
  <1>2. /\ global \in Configs /\ chosen' \in [Slots -> SUBSET (Models \cup {NoModel})]
        /\ \A t \in Slots : global[t] \in chosen'[t] /\ chosen[t] \subseteq chosen'[t]
        /\ \A t \in DOMAIN project : project[t] \in chosen'[t]
    BY <1>1, RestoredConfig, SwitchedConfig, SwitchIsMeant
  <1> HIDE DEF global
  <1>3. /\ config' \in Configs /\ overlay' \in Partial
        /\ originals' \in [DOMAIN overlay' -> Models \cup {NoModel}]
        /\ OriginalsFit' /\ Restored(config)' = global
    BY <1>1, <1>2, NothingLaid
  <1>4. OverlayTypeOK'
    BY <1>1, <1>2, <1>3 DEF OverlayInv, OverlayTypeOK
  <1>5. BelowIsMeant'
    <2>1. SettingsStayGlobal'
      BY <1>1, <1>2, SettingsDomain DEF OverlayInv, BelowIsMeant, SettingsStayGlobal
    <2>2. QED
      BY <1>1, <1>2, <1>3, <2>1 DEF BelowIsMeant
  <1>6. QED
    BY <1>3, <1>4, <1>5 DEF OverlayInv

LEMMA PutOverlayKeepsInv ==
  ASSUME OverlayInv, NEW ov \in Partial, PutOverlay(ov)
  PROVE  OverlayInv'
  <1>1. /\ shell = "web" /\ Laid(Restored(config), ov)
        /\ UNCHANGED <<shell, project, settings, unsaved, chosen>>
    BY DEF PutOverlay
  <1>2. Restored(config) \in Configs
    BY RestoredConfig DEF OverlayInv, OverlayTypeOK
  <1>3. /\ config' \in Configs /\ overlay' \in Partial
        /\ originals' \in [DOMAIN overlay' -> Models \cup {NoModel}] /\ OriginalsFit'
    BY <1>1, <1>2, LaidOver
  <1>4. OverlayTypeOK'
    BY <1>1, <1>3 DEF OverlayInv, OverlayTypeOK
  <1>5. BelowIsMeant'
    BY <1>1 DEF BelowIsMeant
  <1>6. QED
    BY <1>3, <1>4, <1>5 DEF OverlayInv

LEMMA UpdateConfigKeepsInv ==
  ASSUME OverlayInv, NEW new \in Partial, UpdateConfig(new)
  PROVE  OverlayInv'
  <1>1. /\ shell = "web" /\ config' = SetOver(new, config)
        /\ \/ settings' = config' /\ unsaved' = FALSE
           \/ settings' \in {settings, Torn} /\ unsaved' = TRUE
        /\ chosen' = [s \in Slots |-> IF s \in DOMAIN new THEN chosen[s] \cup {new[s]} ELSE chosen[s]]
        /\ UNCHANGED <<shell, project, overlay, originals>>
    BY DEF UpdateConfig, SettingsSaveFails
  <1>2. DOMAIN new \in SUBSET Slots /\ new \in [DOMAIN new -> Models]
    BY PartialType
  <1>3. config' \in Configs
    <2>1. new \in [DOMAIN new -> Models \cup {NoModel}]
          /\ ("model" \in DOMAIN new => new["model"] # NoModel)
      BY <1>2, SlotAssumption
    <2>2. config \in Configs
      BY DEF OverlayInv, OverlayTypeOK
    <2>3. QED
      BY <1>1, <1>2, <2>1, <2>2, SetOverConfig
  <1>4. chosen' \in [Slots -> SUBSET (Models \cup {NoModel})]
    BY <1>1, <1>2 DEF OverlayInv, OverlayTypeOK
  <1>5. OverlayTypeOK'
    BY <1>1, <1>3, <1>4 DEF OverlayInv, OverlayTypeOK
  <1>6. OriginalsFit' /\ BelowIsMeant'
    BY <1>1 DEF OverlayInv, OriginalsFit, BelowIsMeant
  <1>7. QED
    BY <1>5, <1>6 DEF OverlayInv

LEMMA RelaunchKeepsInv ==
  ASSUME OverlayInv, Relaunch
  PROVE  OverlayInv'
  <1>1. /\ settings # Torn /\ config' = SetOver(project, settings)
        /\ overlay' = NoOverlay /\ originals' = NoOverlay
        /\ unsaved' = FALSE /\ UNCHANGED <<shell, project, settings, chosen>>
    BY DEF Relaunch
  <1>2. /\ settings \in Configs /\ SetOver(project, settings) \in Configs
        /\ DOMAIN settings = Slots
        /\ \A s \in Slots : \/ SetOver(project, settings)[s] = settings[s]
                            \/ /\ s \in DOMAIN project
                               /\ SetOver(project, settings)[s] = project[s]
    BY <1>1, SettingsDomain, StartedConfig DEF OverlayInv, Configs
  <1>3. /\ config' \in Configs /\ overlay' \in Partial
        /\ originals' \in [DOMAIN overlay' -> Models \cup {NoModel}]
        /\ OriginalsFit' /\ Restored(config)' = SetOver(project, settings)
    BY <1>1, <1>2, NothingLaid
  <1>4. OverlayTypeOK'
    BY <1>1, <1>3 DEF OverlayInv, OverlayTypeOK
  <1>5. BelowIsMeant'
    <2>1. SetOver(project, settings)' = SetOver(project, settings)
      BY <1>1 DEF SetOver
    <2>2. ASSUME shell = "terminal"
          PROVE  \A s \in Slots : SetOver(project, settings)[s] \in chosen[s]
      BY <1>2, <2>2 DEF OverlayInv, BelowIsMeant, SettingsStayGlobal
    <2>3. QED
      BY <1>1, <1>3, <2>1, <2>2 DEF OverlayInv, BelowIsMeant, SettingsStayGlobal
  <1>6. QED
    BY <1>3, <1>4, <1>5 DEF OverlayInv

LEMMA OverlayInitInv == OverlayInit => OverlayInv
  <1> SUFFICES ASSUME OverlayInit PROVE OverlayInv
    OBVIOUS
  <1>1. /\ project \in Partial /\ settings \in Configs /\ config = SetOver(project, settings)
        /\ overlay = NoOverlay /\ originals = NoOverlay
        /\ unsaved = FALSE /\ shell \in {"terminal", "web"}
        /\ chosen = [s \in Slots |-> {config[s], settings[s]}]
    BY DEF OverlayInit
  <1>2. DOMAIN NoOverlay = {} /\ NoOverlay \in Partial /\ NoOverlay \in [{} -> Models \cup {NoModel}]
    BY PartialType DEF NoOverlay
  <1>3. /\ DOMAIN project \in SUBSET Slots /\ project \in [DOMAIN project -> Models]
        /\ project \in [DOMAIN project -> Models \cup {NoModel}]
        /\ "model" \in DOMAIN project => project["model"] # NoModel
    BY <1>1, PartialType, SlotAssumption
  <1>4. config \in Configs /\ \A s \in DOMAIN project : config[s] = project[s]
    BY <1>1, <1>3, SetOverConfig
  <1>5. config \in [Slots -> Models \cup {NoModel}] /\ settings \in [Slots -> Models \cup {NoModel}]
    BY <1>1, <1>4 DEF Configs
  <1>6. chosen \in [Slots -> SUBSET (Models \cup {NoModel})]
    BY <1>1, <1>5
  <1>7. OverlayTypeOK
    BY <1>1, <1>2, <1>4, <1>6 DEF OverlayTypeOK
  <1>8. Restored(config) = config
    <2>1. Restored(config) = [s \in Slots |-> config[s]]
      BY <1>1, <1>2, <1>5 DEF Restored, SetOver
    <2>2. QED
      BY <1>5, <2>1
  <1>9. OriginalsFit /\ BelowIsMeant
    BY <1>1, <1>2, <1>3, <1>4, <1>5, <1>8 DEF OriginalsFit, BelowIsMeant, SettingsStayGlobal
  <1>10. QED
    BY <1>7, <1>9 DEF OverlayInv

LEMMA OverlayStepInv == OverlayInv /\ [OverlayNext]_overlayVars => OverlayInv'
  <1> SUFFICES ASSUME OverlayInv, [OverlayNext]_overlayVars PROVE OverlayInv'
    OBVIOUS
  <1>1. CASE UNCHANGED overlayVars
    <2>1. Restored(config)' = Restored(config) /\ SetOver(project, settings)' = SetOver(project, settings)
      BY <1>1 DEF overlayVars, Restored, SetOver
    <2>2. QED
      BY <1>1, <2>1 DEF overlayVars, OverlayInv, OverlayTypeOK, OriginalsFit, BelowIsMeant,
                        SettingsStayGlobal
  <1>2. CASE Revert \/ DeleteOverlay
    BY <1>2, PeelKeepsInv DEF Revert, DeleteOverlay
  <1>3. CASE Relaunch
    BY <1>3, RelaunchKeepsInv
  <1>4. CASE \E s \in Slots, m \in Models :
                \/ Select(s, m)
                \/ \E fill \in SUBSET Slots : SwitchModel(s, m, fill) \/ SwitchFails(s, m, fill)
    BY <1>4, SelectKeepsInv, SwitchModelKeepsInv, SwitchFailsKeepsInv
  <1>5. CASE \E new \in Partial : PutOverlay(new) \/ UpdateConfig(new)
    BY <1>5, PutOverlayKeepsInv, UpdateConfigKeepsInv
  <1>6. QED
    BY <1>1, <1>2, <1>3, <1>4, <1>5 DEF OverlayNext

(* Every variable of SessionModel has its type.                            *)
THEOREM OverlayTypesHold == OverlaySpec => []OverlayTypeOK
  <1>1. OverlayInv => OverlayTypeOK
    BY DEF OverlayInv
  <1>2. QED
    BY <1>1, OverlayInitInv, OverlayStepInv, PTL DEF OverlaySpec

(* In the terminal, after any sequence of selections, switches that fail   *)
(* or not, clears and restarts: the settings hold only what was meant for  *)
(* them, and taking the overlay off gives the settings back.               *)
THEOREM TerminalNeverSavesOverlay == OverlaySpec => []TerminalPeelsOff
  <1>1. OverlayInv => TerminalPeelsOff
    BY DEF OverlayInv, BelowIsMeant, TerminalPeelsOff
  <1>2. QED
    BY <1>1, OverlayInitInv, OverlayStepInv, PTL DEF OverlaySpec

-----------------------------------------------------------------------------
(* The todo list.                                                          *)

Todos == [title : Titles, status : Statuses]
(* At most one item of a list is being worked on.                          *)
OneDoing(l) == \A i, j \in DOMAIN l : l[i].status = "doing" /\ l[j].status = "doing" => i = j

LEMMA NotSeveral ==
  ASSUME NEW l \in Seq(Items), ~Several(l)
  PROVE  OneDoing(l)
  <1> SUFFICES ASSUME NEW i \in DOMAIN l, NEW j \in DOMAIN l,
                      l[i].status = "doing", l[j].status = "doing", i # j
               PROVE  FALSE
    BY DEF OneDoing
  <1>1. Doing(l) \subseteq 1 .. Len(l) /\ {i, j} \subseteq Doing(l) /\ Len(l) \in Nat
    BY DEF Doing
  <1>2. IsFiniteSet(Doing(l))
    <2>1. \A n \in Nat : IsFiniteSet(1 .. n)
      BY FS_Interval
    <2>2. QED
      BY <1>1, <2>1, FS_Subset
  <1>3. Cardinality({i, j}) = 2
    <2>1. IsFiniteSet({j}) /\ Cardinality({j}) = 1
      BY FS_Singleton
    <2>2. Cardinality({j} \cup {i}) = Cardinality({j}) + 1
      <3>1. i \notin {j}
        OBVIOUS
      <3>2. QED
        BY <2>1, <3>1, FS_AddElement, Zenon
    <2>3. {i, j} = {j} \cup {i}
      OBVIOUS
    <2>4. Cardinality({i, j}) = Cardinality({j}) + 1
      BY <2>2, <2>3, Zenon
    <2>5. QED
      BY <2>1, <2>4
  <1>4. Cardinality({i, j}) <= Cardinality(Doing(l)) /\ Cardinality(Doing(l)) \in Nat
    BY <1>1, <1>2, FS_Subset, FS_CardinalityType
  <1>5. QED
    BY <1>3, <1>4 DEF Several

(* A status that is set is there, and the others stay, except that another *)
(* todo may go back from "doing".                                          *)
LEMMA SetStatusSets ==
  ASSUME NEW n \in Nat, NEW l \in [1 .. n -> Todos], NEW i \in 1 .. n, NEW s \in Statuses
  PROVE  /\ SetStatus(l, i, s) \in [1 .. n -> Todos]
         /\ SetStatus(l, i, s)[i].status = s
         /\ \A j \in 1 .. n : SetStatus(l, i, s)[j].title = l[j].title
         /\ \A j \in 1 .. n : j # i =>
               \/ SetStatus(l, i, s)[j].status = l[j].status
               \/ s = "doing" /\ l[j].status = "doing"
  <1>1. \A j \in 1 .. n : l[j] \in Todos
    OBVIOUS
  <1>2. \A t \in Todos, x \in Statuses :
           /\ [t EXCEPT !.status = x] \in Todos
           /\ [t EXCEPT !.status = x].status = x /\ [t EXCEPT !.status = x].title = t.title
    BY DEF Todos
  <1>3. "todo" \in Statuses
    BY DEF Statuses
  <1> DEFINE f(j) == IF j = i THEN [l[j] EXCEPT !.status = s]
                     ELSE IF s = "doing" /\ l[j].status = "doing" THEN [l[j] EXCEPT !.status = "todo"]
                     ELSE l[j]
  <1>4. SetStatus(l, i, s) = [j \in 1 .. n |-> f(j)]
    BY DEF SetStatus
  <1>5. \A j \in 1 .. n : f(j) \in Todos /\ f(j).title = l[j].title
    BY <1>1, <1>2, <1>3
  <1>6. f(i).status = s
    BY <1>1, <1>2
  <1>7. \A j \in 1 .. n : j # i => f(j).status = l[j].status \/ (s = "doing" /\ l[j].status = "doing")
    BY <1>1
  <1> HIDE DEF f
  <1>8. QED
    BY <1>4, <1>5, <1>6, <1>7

-----------------------------------------------------------------------------
(* _apply_status_updates: what the walk over a list of new statuses has    *)
(* made of the old todos after i items.                                    *)
WalkTo(l, new) ==
    CHOOSE f : f = [i \in 0 .. Len(new) |-> IF i = 0 THEN l ELSE ApplyOne(f[i - 1], new, i)]

LEMMA AppliedIsLast == \A l, new : Applied(l, new) = WalkTo(l, new)[Len(new)]
  BY DEF Applied, WalkTo

LEMMA ApplyOneType ==
  ASSUME NEW n \in Nat, NEW new \in Seq(Items), Len(new) = n,
         NEW l \in [1 .. n -> Todos], NEW i \in 1 .. n
  PROVE  ApplyOne(l, new, i) \in [1 .. n -> Todos]
  <1>1. new[i] \in Items
    OBVIOUS
  <1>2. new[i].status \in Statuses \cup {"none"}
    BY <1>1 DEF Items
  <1>3. QED
    BY <1>2, SetStatusSets DEF ApplyOne

LEMMA WalkToDef ==
  ASSUME NEW n \in Nat, NEW new \in Seq(Items), Len(new) = n, NEW l \in [1 .. n -> Todos]
  PROVE  /\ WalkTo(l, new) \in [0 .. n -> [1 .. n -> Todos]]
         /\ WalkTo(l, new)[0] = l
         /\ \A i \in 1 .. n : WalkTo(l, new)[i] = ApplyOne(WalkTo(l, new)[i - 1], new, i)
  <1> DEFINE S == [1 .. n -> Todos]
             D == [p \in S \X (1 .. n) |-> ApplyOne(p[1], new, p[2])]
             Eq(f) == f = [i \in 0 .. n |-> IF i = 0 THEN l ELSE ApplyOne(f[i - 1], new, i)]
  <1>1. D \in WalkSteps(S, n)
    <2>1. \A p \in S \X (1 .. n) : ApplyOne(p[1], new, p[2]) \in S
      BY ApplyOneType
    <2>2. QED
      BY <2>1 DEF WalkSteps
  <1>2. \A t \in S, i \in 1 .. n : D[<<t, i>>] = ApplyOne(t, new, i)
    <2> TAKE t \in S, i \in 1 .. n
    <2>1. <<t, i>> \in S \X (1 .. n)
      OBVIOUS
    <2>2. QED
      BY <2>1
  <1>3. l \in S
    OBVIOUS
  <1> HIDE DEF D, S
  <1>4. PICK f \in [0 .. n -> S] : f[0] = l /\ \A i \in 1 .. n : f[i] = D[<<f[i - 1], i>>]
    <2>1. Walks(S, n, l, D) # {}
      BY <1>1, <1>3, RecExists
    <2>2. QED
      BY <2>1 DEF Walks
  <1>5. \A i \in 1 .. n : f[i] = ApplyOne(f[i - 1], new, i)
    <2>1. \A i \in 1 .. n : f[i - 1] \in S
      BY <1>4
    <2>2. QED
      BY <1>2, <1>4, <2>1
  <1>6. Eq(f)
    <2> DEFINE G == [i \in 0 .. n |-> IF i = 0 THEN l ELSE ApplyOne(f[i - 1], new, i)]
    <2>1. \A i \in 0 .. n : f[i] = G[i]
      <3>1. \A i \in 0 .. n : i = 0 \/ i \in 1 .. n
        OBVIOUS
      <3>2. QED
        BY <1>4, <1>5, <3>1
    <2>2. QED
      BY <1>4, <2>1
  <1> DEFINE K == WalkTo(l, new)
  <1>7. Eq(K)
    <2>1. K = CHOOSE g : Eq(g)
      BY DEF WalkTo
    <2> HIDE DEF K, Eq
    <2>2. QED
      BY <1>6, <2>1
  <1> HIDE DEF K
  <1>8. /\ K[0] = l /\ DOMAIN K = 0 .. n /\ K = [i \in 0 .. n |-> K[i]]
        /\ \A i \in 1 .. n : K[i] = ApplyOne(K[i - 1], new, i)
    <2>1. 0 \in 0 .. n /\ \A i \in 1 .. n : i \in 0 .. n /\ i # 0
      OBVIOUS
    <2>2. QED
      BY <1>7, <2>1
  <1> HIDE DEF Eq
  <1>9. 0 .. n \subseteq {i \in 0 .. n : K[i] \in S}
    <2> DEFINE T == {i \in 0 .. n : K[i] \in S}
    <2>1. 0 \in T
      BY <1>3, <1>8
    <2>2. \A i \in 1 .. n : i - 1 \in T => i \in T
      <3>1. ASSUME NEW i \in 1 .. n, K[i - 1] \in S PROVE K[i] \in S
        <4>1. PICK t \in [1 .. n -> Todos] : t = K[i - 1]
          BY <3>1 DEF S
        <4>2. ApplyOne(t, new, i) \in [1 .. n -> Todos]
          BY ApplyOneType
        <4>3. QED
          BY <1>8, <4>1, <4>2 DEF S
      <3>2. QED
        BY <3>1
    <2> HIDE DEF T
    <2>3. 0 .. n \subseteq T
      BY <2>1, <2>2, BoundedInduction
    <2>4. QED
      BY <2>3 DEF T
  <1>10. K \in [0 .. n -> S]
    BY <1>8, <1>9
  <1>11. QED
    BY <1>8, <1>10 DEF K, S

(* With one item in progress at most the walk sets every status that is    *)
(* given, and no later step of it takes one back.                          *)
LEMMA AppliedIsExact ==
  ASSUME NEW n \in Nat, NEW new \in Seq(Items), Len(new) = n, NEW l \in [1 .. n -> Todos]
  PROVE  /\ Applied(l, new) \in [1 .. n -> Todos]
         /\ \A j \in 1 .. n : Applied(l, new)[j].title = l[j].title
         /\ OneDoing(new) => \A j \in 1 .. n :
               new[j].status # "none" => Applied(l, new)[j].status = new[j].status
  <1> DEFINE K == WalkTo(l, new)
             Set(i) == \A j \in 1 .. i : new[j].status # "none" => K[i][j].status = new[j].status
             T == {i \in 0 .. n : /\ \A j \in 1 .. n : K[i][j].title = l[j].title
                                  /\ OneDoing(new) => Set(i)}
  <1>1. /\ K \in [0 .. n -> [1 .. n -> Todos]] /\ K[0] = l
        /\ \A i \in 1 .. n : K[i] = ApplyOne(K[i - 1], new, i)
    BY WalkToDef
  <1>2. DOMAIN new = 1 .. n /\ \A i \in 1 .. n : new[i].status \in Statuses \cup {"none"}
    <2>1. DOMAIN new = 1 .. n /\ \A i \in 1 .. n : new[i] \in Items
      OBVIOUS
    <2>2. QED
      BY <2>1 DEF Items
  <1>3. Applied(l, new) = K[n]
    BY AppliedIsLast
  <1> HIDE DEF K
  <1>4. 0 \in T
    BY <1>1
  <1>5. ASSUME NEW i \in 1 .. n, i - 1 \in T PROVE i \in T
    <2> DEFINE s == new[i].status
    <2>1. K[i - 1] \in [1 .. n -> Todos] /\ K[i] = ApplyOne(K[i - 1], new, i) /\ i \in 0 .. n
      BY <1>1
    <2>2. /\ \A j \in 1 .. n : K[i - 1][j].title = l[j].title
          /\ OneDoing(new) => Set(i - 1)
      BY <1>5
    <2>3. CASE s \in {"none", K[i - 1][i].status}
      <3>1. K[i] = K[i - 1]
        BY <2>1, <2>3 DEF ApplyOne
      <3>2. OneDoing(new) => Set(i)
        <4>1. \A j \in 1 .. i : j = i \/ j \in 1 .. i - 1
          OBVIOUS
        <4>2. QED
          BY <2>2, <2>3, <3>1, <4>1
      <3>3. QED
        BY <2>1, <2>2, <3>1, <3>2
    <2>4. CASE s \notin {"none", K[i - 1][i].status}
      <3>1. K[i] = SetStatus(K[i - 1], i, s) /\ s \in Statuses
        BY <1>2, <2>1, <2>4 DEF ApplyOne
      <3>2. /\ K[i][i].status = s
            /\ \A j \in 1 .. n : K[i][j].title = K[i - 1][j].title
            /\ \A j \in 1 .. n : j # i =>
                  K[i][j].status = K[i - 1][j].status \/ (s = "doing" /\ K[i - 1][j].status = "doing")
        <4>1. PICK t \in [1 .. n -> Todos] : t = K[i - 1]
          BY <2>1
        <4>2. /\ SetStatus(t, i, s)[i].status = s
              /\ \A j \in 1 .. n : SetStatus(t, i, s)[j].title = t[j].title
              /\ \A j \in 1 .. n : j # i =>
                    SetStatus(t, i, s)[j].status = t[j].status \/ (s = "doing" /\ t[j].status = "doing")
          <5>1. PICK x \in Statuses : x = s
            BY <3>1
          <5>2. /\ SetStatus(t, i, x)[i].status = x
                /\ \A j \in 1 .. n : SetStatus(t, i, x)[j].title = t[j].title
                /\ \A j \in 1 .. n : j # i =>
                      SetStatus(t, i, x)[j].status = t[j].status \/ (x = "doing" /\ t[j].status = "doing")
            BY SetStatusSets
          <5> HIDE DEF s
          <5>3. QED
            BY <5>1, <5>2
        <4>3. QED
          BY <3>1, <4>1, <4>2
      <3>3. ASSUME OneDoing(new), NEW j \in 1 .. i, new[j].status # "none"
            PROVE  K[i][j].status = new[j].status
        <4>1. CASE j = i
          BY <3>2, <4>1
        <4>2. CASE j # i
          <5>1. j \in 1 .. i - 1 /\ j \in 1 .. n
            BY <4>2
          <5>2. K[i - 1][j].status = new[j].status
            BY <2>2, <3>3, <5>1
          <5>3. ~(s = "doing" /\ new[j].status = "doing")
            BY <1>2, <3>3, <4>2, <5>1 DEF OneDoing
          <5>4. QED
            BY <3>2, <4>2, <5>1, <5>2, <5>3
        <4>3. QED
          BY <4>1, <4>2
      <3>4. QED
        BY <2>1, <2>2, <3>2, <3>3
    <2>5. QED
      BY <2>3, <2>4
  <1> HIDE DEF T, Set
  <1>6. 0 .. n \subseteq T
    BY <1>4, <1>5, BoundedInduction
  <1>7. n \in T
    BY <1>6
  <1>8. QED
    BY <1>1, <1>3, <1>7 DEF T, Set

-----------------------------------------------------------------------------
TodoInv == TodoTypeOK /\ WriteIsExact

LEMMA NothingWritten ==
  ASSUME todos' \in Seq(Todos), written' = <<>>
  PROVE  TodoInv'
  <1>1. TodoTypeOK'
    BY DEF TodoTypeOK, Todos
  <1>2. Titled(<<>>) = <<>>
    BY KeepingEmpty DEF Titled
  <1>3. WriteIsExact'
    BY <1>2 DEF WriteIsExact
  <1>4. QED
    BY <1>1, <1>3 DEF TodoInv

(* A list whose titles are those of the stored todos.                      *)
LEMMA SameTitlesExact ==
  ASSUME TodoTypeOK, NEW new \in Seq(Items), NEW marked \in BOOLEAN, SameTitles(new, marked)
  PROVE  /\ Applied(todos, new) \in Seq(Todos)
         /\ ~Several(new) => \A i \in DOMAIN Titled(new) :
               Titled(new)[i].status # "none" => Applied(todos, new)[i] = Titled(new)[i]
  <1> DEFINE n == Len(new)
             A == Applied(todos, new)
  <1>1. todos \in Seq(Todos) /\ n \in Nat /\ DOMAIN new = 1 .. n
    BY DEF TodoTypeOK, Todos
  <1>2. Len(todos) = n /\ \A i \in DOMAIN new : new[i].title = todos[i].title
    BY DEF SameTitles
  <1>3. todos \in [1 .. n -> Todos]
    BY <1>1, <1>2
  <1>4. /\ A \in [1 .. n -> Todos]
        /\ \A j \in 1 .. n : A[j].title = todos[j].title
        /\ OneDoing(new) => \A j \in 1 .. n :
               new[j].status # "none" => A[j].status = new[j].status
    BY <1>1, <1>3, AppliedIsExact
  <1> HIDE DEF A
  <1>5. A \in Seq(Todos)
    BY <1>1, <1>4
  <1>6. \A i \in 1 .. n : new[i] \in Items /\ todos[i].title \in Titles
    <2>1. \A i \in 1 .. n : new[i] \in Items /\ todos[i] \in Todos
      BY <1>1, <1>3
    <2>2. QED
      BY <2>1 DEF Todos
  <1>7. Titled(new) = new
    <2> DEFINE R == {m \in Items : m.title # Blank}
    <2>1. \A i \in DOMAIN new : new[i] \in R
      BY <1>1, <1>2, <1>6, TodoAssumption
    <2> HIDE DEF R
    <2>2. Keeping(new, R) = new
      BY <2>1, KeepingWhole
    <2>3. QED
      BY <2>2 DEF R, Titled
  <1>8. ASSUME ~Several(new), NEW i \in 1 .. n, new[i].status # "none"
        PROVE  A[i] = new[i]
    <2>1. A[i].title = new[i].title /\ A[i].status = new[i].status
      BY <1>1, <1>2, <1>4, <1>8, NotSeveral
    <2>2. A[i] \in Todos /\ new[i] \in Items
      BY <1>4, <1>6
    <2>3. A[i] = [title |-> A[i].title, status |-> A[i].status]
          /\ new[i] = [title |-> new[i].title, status |-> new[i].status]
      BY <2>2 DEF Todos, Items
    <2>4. QED
      BY <2>1, <2>3, Zenon
  <1>9. QED
    BY <1>1, <1>5, <1>7, <1>8 DEF A

(* New todos are the written ones with a title.                            *)
LEMMA CreatedExact ==
  ASSUME NEW new \in Seq(Items)
  PROVE  /\ Created(new) \in Seq(Todos)
         /\ \A i \in DOMAIN Titled(new) :
               Titled(new)[i].status # "none" => Created(new)[i] = Titled(new)[i]
  <1> DEFINE R == {m \in Items : m.title # Blank}
             K == Titled(new)
             f(m) == IF m.status = "none" THEN [m EXCEPT !.status = "todo"] ELSE m
  <1>1. K \in Seq(Items) /\ \A i \in DOMAIN K : K[i] \in R
    <2> HIDE DEF R
    <2>1. Keeping(new, R) \in Seq(Items) /\ \A i \in DOMAIN Keeping(new, R) : Keeping(new, R)[i] \in R
      BY KeepingType, KeepingOnly
    <2>2. K = Keeping(new, R)
      BY DEF Titled, R
    <2>3. QED
      BY <2>1, <2>2
  <1>2. \A m \in R : f(m) \in Todos /\ (m.status # "none" => f(m) = m)
    BY DEF Items, Todos, Statuses
  <1>3. Created(new) = [i \in DOMAIN K |-> f(K[i])]
    BY DEF Created
  <1> HIDE DEF R, K, f
  <1>4. DOMAIN K = 1 .. Len(K) /\ Len(K) \in Nat
    BY <1>1
  <1>5. Created(new) \in Seq(Todos)
    <2>1. \A i \in 1 .. Len(K) : f(K[i]) \in Todos
      BY <1>1, <1>2, <1>4
    <2>2. Created(new) = [i \in 1 .. Len(K) |-> f(K[i])]
      BY <1>3, <1>4
    <2>3. QED
      BY <1>4, <2>1, <2>2
  <1>6. \A i \in DOMAIN K : K[i].status # "none" => Created(new)[i] = K[i]
    BY <1>1, <1>2, <1>3
  <1>7. QED
    BY <1>5, <1>6 DEF K

LEMMA TodoStepInv == TodoInv /\ [TodoNext]_todoVars => TodoInv'
  <1> SUFFICES ASSUME TodoInv, [TodoNext]_todoVars PROVE TodoInv'
    OBVIOUS
  <1>1. todos \in Seq(Todos)
    BY DEF TodoInv, TodoTypeOK, Todos
  <1>2. ASSUME NEW new \in Writes, NEW marked \in BOOLEAN, WriteTodos(new, marked)
        PROVE  TodoInv'
    <2>1. new \in Seq(Items)
      <3>1. PICK n \in 1 .. MaxTodos : new \in [1 .. n -> Items]
        BY DEF Writes
      <3>2. QED
        BY <3>1
    <2>2. /\ todos' \in Seq(Todos)
          /\ ~Several(new) => \A i \in DOMAIN Titled(new) :
                Titled(new)[i].status # "none" => todos'[i] = Titled(new)[i]
      <3>1. CASE SameTitles(new, marked)
        BY <1>2, <2>1, <3>1, SameTitlesExact DEF WriteTodos, TodoInv
      <3>2. CASE ~SameTitles(new, marked)
        BY <1>2, <2>1, <3>2, CreatedExact DEF WriteTodos
      <3>3. QED
        BY <3>1, <3>2
    <2>3. written' = new
      BY <1>2 DEF WriteTodos
    <2>4. QED
      BY <2>1, <2>2, <2>3 DEF TodoInv, TodoTypeOK, WriteIsExact, Todos
  <1>3. \A ref \in References : Found(ref) \subseteq DOMAIN todos
    BY DEF Found, Ids
  <1>4. DOMAIN todos = 1 .. Len(todos) /\ Len(todos) \in Nat /\ todos \in [1 .. Len(todos) -> Todos]
    BY <1>1
  <1>5. \A l : l \in [1 .. Len(todos) -> Todos] => l \in Seq(Todos)
    BY <1>4
  <1>6. ASSUME NEW ref \in References, CompleteTodo(ref)
        PROVE  TodoInv'
    <2>1. PICK i \in 1 .. Len(todos) : todos' = [todos EXCEPT ![i].status = "done"]
      BY <1>3, <1>4, <1>6 DEF CompleteTodo
    <2>2. \A t \in Todos : [t EXCEPT !.status = "done"] \in Todos
      BY DEF Todos, Statuses
    <2>3. todos' \in [1 .. Len(todos) -> Todos]
      BY <1>4, <2>1, <2>2
    <2>4. QED
      BY <1>5, <1>6, <2>3, NothingWritten DEF CompleteTodo
  <1>7. ASSUME NEW ref \in References, NEW t \in Titles \cup {Blank},
               NEW s \in Statuses \cup {"invalid"}, UpdateTodo(ref, t, s)
        PROVE  TodoInv'
    <2>1. PICK i \in 1 .. Len(todos) :
              todos' = LET l == Retitled(todos, i, t)
                       IN  IF s \in Statuses THEN SetStatus(l, i, s) ELSE l
      BY <1>3, <1>4, <1>7 DEF UpdateTodo
    <2>2. Retitled(todos, i, t) \in [1 .. Len(todos) -> Todos]
      <3>1. \A m \in Todos : t # Blank => [m EXCEPT !.title = t] \in Todos
        BY DEF Todos
      <3>2. QED
        BY <1>4, <3>1 DEF Retitled
    <2>3. todos' \in [1 .. Len(todos) -> Todos]
      <3>1. PICK l \in [1 .. Len(todos) -> Todos] : l = Retitled(todos, i, t)
        BY <2>2
      <3>2. PICK n \in Nat : n = Len(todos)
        BY <1>4
      <3>3. s \in Statuses => SetStatus(l, i, s) \in [1 .. Len(todos) -> Todos]
        BY <3>2, SetStatusSets
      <3>4. QED
        BY <2>1, <3>1, <3>3
    <2>4. QED
      BY <1>5, <1>7, <2>3, NothingWritten DEF UpdateTodo
  <1>8. CASE ClearTodos
    <2>1. <<>> \in Seq(Todos)
      OBVIOUS
    <2>2. QED
      BY <1>8, <2>1, NothingWritten DEF ClearTodos
  <1>9. CASE UNCHANGED todoVars
    BY <1>9 DEF TodoInv, TodoTypeOK, WriteIsExact, todoVars
  <1>10. QED
    BY <1>2, <1>6, <1>7, <1>8, <1>9 DEF TodoNext

LEMMA TodoInitInv == TodoInit => TodoInv
  <1>1. ASSUME TodoInit PROVE TodoTypeOK
    BY <1>1 DEF TodoInit, TodoTypeOK
  <1>2. ASSUME TodoInit PROVE WriteIsExact
    <2>1. Titled(<<>>) = <<>>
      BY KeepingEmpty DEF Titled
    <2>2. QED
      BY <1>2, <2>1 DEF TodoInit, WriteIsExact
  <1>3. QED
    BY <1>1, <1>2 DEF TodoInv

(* The stored todos and what was written have their types, for any titles. *)
THEOREM TodoTypesHold == TodoSpec => []TodoTypeOK
  <1>1. TodoInv => TodoTypeOK
    BY DEF TodoInv
  <1>2. QED
    BY <1>1, TodoInitInv, TodoStepInv, PTL DEF TodoSpec

(* A list of any length that is written with at most one item in progress  *)
(* is what write_todos stores, as new todos or as new statuses of the old  *)
(* ones: no step of _apply_status_updates undoes an earlier one.           *)
THEOREM WritesAreExact == TodoSpec => []WriteIsExact
  <1>1. TodoInv => WriteIsExact
    BY DEF TodoInv
  <1>2. QED
    BY <1>1, TodoInitInv, TodoStepInv, PTL DEF TodoSpec

=============================================================================
