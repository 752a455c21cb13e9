------------------------------ MODULE FileEdits ------------------------------
(* The file tools of agents that run side by side in one process, on one   *)
(* file that a user edits too: read_file with the FileTimeTracker they     *)
(* share, edit_file with its check, its dry run, its approval and its      *)
(* locked replacement, and write_file, which creates a file and takes no   *)
(* lock.  The text is a few passages, each the identity of the write it    *)
(* comes from; 0 is a passage that is not there.                           *)
EXTENDS Naturals, FiniteSets, Functions

CONSTANTS
    Agents,             \* the agent and its parallel subagents
    Nobody,             \* no agent
    Passages,           \* parts of the text an edit can quote
    BackupBeforeEdit,   \* config.operation.backup_before_edit (TRUE)
    MaxWrites           \* bound: identities of written passages

ASSUME EditAssumption ==
    /\ Nobody \notin Agents /\ Passages # {} /\ MaxWrites \in Nat
    /\ BackupBeforeEdit \in BOOLEAN

VARIABLES
    text,         \* the file: passage -> what is written there
    exists,       \* is there a file?
    backup,       \* the text in the .bak file
    readTime,     \* the tracker's record: "none", "newer" or "older" than the file
    fileLock,     \* EditTool's lock for the path
    stage,        \* agent -> where it is
    quote,        \* agent -> the passage its edit is to replace, as it quotes it
    original,     \* agent -> the text it has read
    unused,       \* the next identity
    raced,        \* history: written between another's last look and its write
    lost,         \* history: swept away by a write that did not mean them
    displayed,    \* history: in the file when a recorded read opened it
    slipped,      \* history: written or kept where the tracker's clock is blind
    replaced      \* history: replaced by an edit though neither quoted nor shown
editVars == <<text, exists, backup, readTime, fileLock, stage, quote, original,
              unused, raced, lost, displayed, slipped, replaced>>

Texts == [Passages -> 0 .. MaxWrites]
Empty == [p \in Passages |-> 0]
Written(t) == Range(t) \ {0}

NoQuote == [at |-> CHOOSE p \in Passages : TRUE, as |-> 0]

EditInit ==
    /\ text = Empty /\ exists = FALSE /\ backup = Empty
    /\ readTime = "none" /\ fileLock = Nobody
    /\ stage = [a \in Agents |-> "idle"]
    /\ quote = [a \in Agents |-> NoQuote] /\ original = [a \in Agents |-> Empty]
    /\ unused = 1 /\ raced = {} /\ lost = {}
    /\ displayed = {} /\ slipped = {} /\ replaced = {}

SameText == UNCHANGED <<text, exists, unused, raced, lost, replaced>>
SameFile == SameText /\ UNCHANGED backup
SameSight == UNCHANGED <<readTime, displayed, slipped>>

GoOn(a, at) ==
    /\ stage' = [stage EXCEPT ![a] = at]
    /\ quote' = IF at = "idle" THEN [quote EXCEPT ![a] = NoQuote] ELSE quote
    /\ original' = IF at = "idle" THEN [original EXCEPT ![a] = Empty] ELSE original

(* A later modification makes the record old, unless it comes within the   *)
(* 50 ms the tracker tolerates.                                            *)
Touch == readTime' \in IF readTime = "newer" THEN {"newer", "older"} ELSE {readTime}

(* The clock is blind to a write within the tolerance, to one that comes   *)
(* while another agent reads the file, and to one that comes after another *)
(* agent's check.                                                          *)
InFlight == {"checked", "approving", "locking", "copying", "replacing"}
Slip(a) ==
    slipped' = IF \/ readTime' = "newer"
                  \/ \E b \in Agents \ {a} : stage[b] \in InFlight \cup {"reading"}
               THEN slipped \cup {unused} ELSE slipped

(* The new passage is raced if another agent has looked at the file and    *)
(* not written yet; the lock keeps edits out of one another's way.         *)
Race(a, locked) ==
    raced' = IF \E b \in Agents \ {a} :
                   stage[b] = "creating" \/ (stage[b] \in {"copying", "replacing"} /\ ~locked)
             THEN raced \cup {unused} ELSE raced

PutText(a, locked, known, new) ==
    /\ unused <= MaxWrites /\ unused' = unused + 1
    /\ text' = new /\ exists' = TRUE
    /\ Touch /\ Slip(a) /\ Race(a, locked)
    /\ lost' = lost \cup (Written(text) \ Written(known))
    /\ UNCHANGED <<backup, displayed>>

(* What open(path, "w") leaves when the write after it does not happen (an *)
(* empty file stands for any beginning of the text), and the backup if     *)
(* backups are made.                                                       *)
Truncate ==
    /\ text' = Empty /\ exists' = TRUE
    /\ lost' = IF BackupBeforeEdit THEN lost \cup (Written(text) \ Written(backup)) ELSE lost
    /\ UNCHANGED <<backup, unused, raced, displayed, slipped, replaced>>
-----------------------------------------------------------------------------
(* read_file: the text is read first, and then the time is recorded.       *)
BeginRead(a) ==
    /\ stage[a] = "idle" /\ exists
    /\ stage' = [stage EXCEPT ![a] = "reading"]
    /\ original' = [original EXCEPT ![a] = text]
    /\ SameFile /\ SameSight /\ UNCHANGED <<fileLock, quote>>
RecordRead(a) ==
    /\ stage[a] = "reading" /\ readTime' = "newer" /\ GoOn(a, "idle")
    /\ displayed' = displayed \cup Written(original[a])
    /\ SameFile /\ UNCHANGED <<slipped, fileLock>>

(* Mutant: a record older than the file passes, too.                       *)
CheckFreshAnyway(a, p, v) ==
    /\ stage[a] = "idle" /\ v < unused
    /\ quote' = [quote EXCEPT ![a] = [at |-> p, as |-> v]]
    /\ stage' = [stage EXCEPT ![a] = "checked"]
    /\ slipped' = IF readTime = "none" THEN slipped \cup (Written(text) \ displayed) ELSE slipped
    /\ SameFile /\ UNCHANGED <<readTime, displayed, fileLock, original>>

(* edit_file: the check fails if the record is older than the file; a file *)
(* without a record passes, which slips what is in it.  What the agent     *)
(* quotes was written at some time.                                        *)
CheckFresh(a, p, v) ==
    /\ stage[a] = "idle" /\ readTime # "older" /\ v < unused
    /\ quote' = [quote EXCEPT ![a] = [at |-> p, as |-> v]]
    /\ stage' = [stage EXCEPT ![a] = "checked"]
    /\ slipped' = IF readTime = "none" THEN slipped \cup (Written(text) \ displayed) ELSE slipped
    /\ SameFile /\ UNCHANGED <<readTime, displayed, fileLock, original>>

(* _find_content: where the text it settles for may be.  The first pass    *)
(* takes what is quoted, which may also occur elsewhere; the eight others  *)
(* take passages that look like it, by trimmed lines, by the first and     *)
(* last line with anything between (the block anchor's threshold is 0) or  *)
(* by half of the characters.                                              *)
Exact(a, t) == t[quote[a].at] = quote[a].as
Matches(a, t) ==
    {P \in SUBSET {p \in Passages : t[p] # 0} :
        P # {} /\ (Exact(a, t) => quote[a].at \in P)}

(* Nothing is found, or it is found in several places without match_all.   *)
NotReplaced(a) == GoOn(a, "idle") /\ SameFile /\ SameSight

(* The dry run looks for the passage, and the approval waits without the   *)
(* lock.                                                                   *)
DryRun(a) ==
    /\ stage[a] = "checked" /\ fileLock = Nobody /\ UNCHANGED fileLock
    /\ \/ NotReplaced(a)
       \/ Matches(a, text) # {} /\ GoOn(a, "approving") /\ SameFile /\ SameSight
Decide(a, approved) ==
    /\ stage[a] = "approving" /\ GoOn(a, IF approved THEN "locking" ELSE "idle")
    /\ SameFile /\ SameSight /\ UNCHANGED fileLock

(* Mutant: the replacement runs without the lock.                          *)
ReadUnlocked(a) ==
    /\ stage[a] = "locking"
    /\ \/ NotReplaced(a)
       \/ /\ Matches(a, text) # {} /\ SameFile /\ SameSight
          /\ stage' = [stage EXCEPT ![a] = "copying"]
          /\ original' = [original EXCEPT ![a] = text]
          /\ UNCHANGED quote
    /\ UNCHANGED fileLock

(* Under the lock the file is read again, the passage is found again, the  *)
(* file is copied to the backup, and the new text is written.              *)
LockAndRead(a) ==
    /\ stage[a] = "locking" /\ fileLock = Nobody
    /\ \/ NotReplaced(a) /\ UNCHANGED fileLock
       \/ /\ Matches(a, text) # {} /\ SameFile /\ SameSight
          /\ fileLock' = a /\ stage' = [stage EXCEPT ![a] = "copying"]
          /\ original' = [original EXCEPT ![a] = text]
          /\ UNCHANGED quote
Copy(a) ==
    /\ stage[a] = "copying" /\ GoOn(a, "replacing")
    /\ backup' = IF BackupBeforeEdit THEN text ELSE backup
    /\ SameText /\ SameSight /\ UNCHANGED fileLock
CopyFails(a) ==
    /\ stage[a] = "copying" /\ BackupBeforeEdit /\ fileLock' = Nobody
    /\ backup' \in {backup, Empty}
    /\ GoOn(a, "idle") /\ SameText /\ SameSight
ReplaceText(a) ==
    /\ stage[a] = "replacing" /\ fileLock' = Nobody /\ GoOn(a, "edited")
    /\ \E P \in Matches(a, original[a]) :
          /\ PutText(a, TRUE, original[a],
                 [p \in Passages |-> IF p \in P THEN unused ELSE original[a][p]])
          /\ replaced' = IF Exact(a, original[a]) THEN replaced
                         ELSE replaced \cup ({original[a][p] : p \in P} \ displayed)

(* The file cannot be opened, or the write fails once it is truncated: the *)
(* tool fails, and the record stays.                                       *)
WriteFails(a) ==
    /\ stage[a] \in {"replacing", "creating"} /\ GoOn(a, "idle")
    /\ fileLock' = IF stage[a] = "replacing" THEN Nobody ELSE fileLock
    /\ \/ SameFile /\ SameSight
       \/ Truncate /\ Touch
Invalidate(a) ==
    /\ stage[a] = "edited" /\ readTime' = "none" /\ GoOn(a, "idle")
    /\ SameFile /\ UNCHANGED <<displayed, slipped, fileLock>>

(* write_file refuses a path that exists, then opens it for writing.       *)
CheckAbsent(a) ==
    /\ stage[a] = "idle" /\ ~exists /\ GoOn(a, "creating")
    /\ SameFile /\ SameSight /\ UNCHANGED fileLock
Create(a) ==
    /\ stage[a] = "creating" /\ GoOn(a, "idle")
    /\ PutText(a, FALSE, Empty, [p \in Passages |-> unused])
    /\ UNCHANGED <<fileLock, replaced>>
-----------------------------------------------------------------------------
(* The user saves a passage whenever he likes.                             *)
UserSaves(p) ==
    /\ PutText(Nobody, FALSE, text, [text EXCEPT ![p] = unused])
    /\ UNCHANGED <<fileLock, stage, quote, original, replaced>>

(* The process dies; a file opened for writing may be truncated by then.   *)
(* Nothing of the agents is left.                                          *)
Crash(truncates) ==
    /\ truncates => \E a \in Agents : stage[a] \in {"replacing", "creating"}
    /\ IF truncates THEN Truncate
       ELSE SameFile /\ UNCHANGED <<displayed, slipped>>
    /\ readTime' = "none" /\ fileLock' = Nobody
    /\ stage' = [a \in Agents |-> "idle"]
    /\ quote' = [a \in Agents |-> NoQuote] /\ original' = [a \in Agents |-> Empty]

EditNext ==
    \/ \E a \in Agents :
          \/ BeginRead(a) \/ RecordRead(a) \/ DryRun(a) \/ LockAndRead(a)
          \/ Copy(a) \/ CopyFails(a) \/ ReplaceText(a) \/ WriteFails(a)
          \/ Invalidate(a) \/ CheckAbsent(a) \/ Create(a)
          \/ \E p \in Passages, v \in 1 .. MaxWrites : CheckFresh(a, p, v)
          \/ \E ok \in BOOLEAN : Decide(a, ok)
    \/ \E p \in Passages : UserSaves(p)
    \/ \E truncates \in BOOLEAN : Crash(truncates)
EditSpec == EditInit /\ [][EditNext]_editVars
-----------------------------------------------------------------------------
EditTypeOK ==
    /\ text \in Texts /\ backup \in Texts /\ exists \in BOOLEAN
    /\ readTime \in {"none", "newer", "older"}
    /\ fileLock \in Agents \cup {Nobody}
    /\ stage \in [Agents -> {"idle", "reading", "checked", "approving", "locking", "copying",
                             "replacing", "edited", "creating"}]
    /\ quote \in [Agents -> [at : Passages, as : 0 .. MaxWrites]]
    /\ original \in [Agents -> Texts]
    /\ unused \in 1 .. MaxWrites + 1
    /\ raced \subseteq 1 .. MaxWrites /\ lost \subseteq 1 .. MaxWrites
    /\ displayed \subseteq 1 .. MaxWrites /\ slipped \subseteq 1 .. MaxWrites
    /\ replaced \subseteq 1 .. MaxWrites

(* However long an approval waited and however many agents edit the file,  *)
(* what a write sweeps away beside the passage it is for was written in    *)
(* the moment between the writer's last look at the file and its write,    *)
(* and never by an edit of another agent while an edit was under way.      *)
(* With backups, what a write that fails or a crash destroys by truncating *)
(* the file is in the backup, or raced, too (tool.py:176-293).             *)
OnlyRacedIsLost == lost \subseteq raced

(* file_time.py:9 "prevents the agent from silently overwriting user       *)
(* edits": the search settles for passages that only look like the quoted  *)
(* one, and the approval may take as long as it likes.  A passage that is  *)
(* replaced without being quoted was in the file when a recorded read      *)
(* opened it, or it slipped by the clock: it was written within the        *)
(* tolerance, under a read, or after the check, or there was no record     *)
(* when the edit was checked.                                              *)
OnlySlippedIsReplaced == replaced \subseteq slipped
=============================================================================
