-------------------------- MODULE ConversationProofs --------------------------
(* Theorems about what is said in a conversation and who gets it: the      *)
(* events the clients of the web server are sent, for any clients and any  *)
(* number of broadcasts; the list of messages a model is called with, for  *)
(* any sizes, budgets and numbers of turns; and one tab of a browser and   *)
(* what it shows, for any numbers of messages, of losses and of what is on *)
(* its way.                                                                *)
EXTENDS Broadcasts, MessageList, ChatView, SequenceInduction, FiniteSetTheorems, TLAPS

-----------------------------------------------------------------------------
(* Broadcasts.                                                             *)

(* A client stands in the list once, and whoever was sent something, or    *)
(* was there when a broadcast began, has connected once.                   *)
ClientsHaveMet ==
    /\ \A i, j \in DOMAIN connections : connections[i] = connections[j] => i = j
    /\ \A i \in DOMAIN connections : connections[i] \in met
    /\ \A c \in Clients : got[c] # <<>> => c \in met
    /\ \A e \in Casts : present[e] \subseteq met
    /\ \A e \in Casts : cast[e].stage = "walking" => cast[e].at >= 1 /\ cast[e].to \in met

(* The thread goes on when a broadcast is done, or when it gives up.       *)
ThreadWaits ==
    /\ waiting => sending \in Casts
    /\ \A e \in Casts :
          /\ e > sending => cast[e] = Idle
          /\ e <= sending => \/ cast[e].stage = "done" \/ e \in late
                             \/ e = sending /\ waiting
          /\ cast[e].stage \in {"idle", "scheduled"} => \A c \in Clients : e \notin ToSet(got[c])

(* A broadcast that kept its place has dealt with everyone before it.      *)
BehindIsDealtWith ==
    \A e \in Casts \ shifted : cast[e].stage = "walking" =>
        /\ cast[e].at <= Len(connections) /\ connections[cast[e].at] = cast[e].to
        /\ \A i \in 1 .. cast[e].at - 1 :
              connections[i] \in cast[e].failed \/ e \in ToSet(got[connections[i]])

(* Whoever a broadcast still comes to, in its place or not, has not been   *)
(* sent the event.                                                         *)
AheadIsUnsent ==
    \A e \in Casts : cast[e].stage = "walking" =>
        /\ e \notin ToSet(got[cast[e].to])
        /\ \A i \in DOMAIN connections : i > cast[e].at =>
              connections[i] # cast[e].to /\ e \notin ToSet(got[connections[i]])

CastInv ==
    /\ CastTypeOK /\ ClientsHaveMet /\ ThreadWaits
    /\ BehindIsDealtWith /\ AheadIsUnsent
    /\ StayersGetIt /\ InOrderUnlessLate

LEMMA ToSetAppend ==
  ASSUME NEW S, NEW s \in Seq(S), NEW x \in S
  PROVE  ToSet(Append(s, x)) = ToSet(s) \cup {x}
  <1> DEFINE t == Append(s, x)
  <1>1. DOMAIN t = 1 .. Len(s) + 1 /\ t[Len(s) + 1] = x /\ DOMAIN s = 1 .. Len(s)
        /\ Len(s) \in Nat /\ \A i \in 1 .. Len(s) : t[i] = s[i]
    OBVIOUS
  <1>2. \A i \in 1 .. Len(s) + 1 : i = Len(s) + 1 \/ i \in 1 .. Len(s)
    BY <1>1
  <1>3. \A i \in 1 .. Len(s) : i \in 1 .. Len(s) + 1
    BY <1>1
  <1>4. Len(s) + 1 \in 1 .. Len(s) + 1
    BY <1>1
  <1> HIDE DEF t
  <1>5. QED
    BY <1>1, <1>2, <1>3, <1>4 DEF ToSet, t

CastType ==
    [at : Nat, to : Clients \cup {NoSocket}, failed : SUBSET Clients,
     stage : {"idle", "scheduled", "walking", "done"}]

LEMMA IdleType == Idle \in CastType
  BY DEF Idle, CastType

LEMMA CastTypes ==
  ASSUME CastTypeOK
  PROVE  /\ cast \in [Casts -> CastType]
         /\ \A e \in Casts : /\ cast[e].at \in Nat /\ cast[e].failed \subseteq Clients
                             /\ got \in [Clients -> Seq(Casts)]
  BY DEF CastTypeOK, CastType

(* Leaving.                                                                *)
LEMMA DropFacts ==
  ASSUME CastTypeOK, ClientsHaveMet, NEW gone, NEW others \in SUBSET Casts, Drop(gone, others)
  PROVE  /\ connections' \in Seq(Clients)
         /\ \A i, j \in DOMAIN connections' : connections'[i] = connections'[j] => i = j
         /\ \A i \in DOMAIN connections' : /\ connections'[i] \notin gone
                                           /\ \E j \in DOMAIN connections : connections[j] = connections'[i]
         /\ shifted \subseteq shifted' /\ shifted' \subseteq Casts
         /\ \A e \in others \ shifted' : cast[e].at <= Len(connections) =>
               /\ cast[e].at <= Len(connections')
               /\ \A i \in 1 .. cast[e].at : connections'[i] = connections[i]
         /\ \A k \in Nat : \A i \in DOMAIN connections' : i > k =>
               \E j \in DOMAIN connections : j > k /\ connections[j] = connections'[i]
  <1> DEFINE R == Clients \ gone
  <1>1. connections' = Keeping(connections, R) /\ connections \in Seq(Clients)
        /\ shifted' = shifted \cup { e \in others : Passed(e, gone) }
    BY DEF Drop, Removed, CastTypeOK
  <1>2. connections' \in Seq(Clients)
    BY <1>1, KeepingType
  <1>3. PICK h : Behind(connections, R, connections', h)
    BY <1>1, KeepingBehind
  <1>4. /\ h \in [DOMAIN connections' -> DOMAIN connections]
        /\ \A i \in DOMAIN connections' : /\ i <= h[i] /\ connections[h[i]] = connections'[i]
                                          /\ connections'[i] \in R
        /\ \A i, j \in DOMAIN connections' : i < j => h[i] < h[j]
    BY <1>3 DEF Behind
  <1>5. DOMAIN connections' = 1 .. Len(connections') /\ DOMAIN connections = 1 .. Len(connections)
        /\ Len(connections) \in Nat /\ Len(connections') \in Nat
    <2>1. connections' \in Seq(Clients) /\ connections \in Seq(Clients)
      BY <1>1, <1>2
    <2>2. \A s \in Seq(Clients) : DOMAIN s = 1 .. Len(s) /\ Len(s) \in Nat
      OBVIOUS
    <2>3. QED
      BY <2>1, <2>2
  <1>6. \A i, j \in DOMAIN connections' : connections'[i] = connections'[j] => i = j
    <2>1. SUFFICES ASSUME NEW i \in DOMAIN connections', NEW j \in DOMAIN connections',
                          connections'[i] = connections'[j]
                   PROVE  i = j
      OBVIOUS
    <2>2. h[i] = h[j]
      BY <1>4, <2>1 DEF ClientsHaveMet
    <2>3. ~(i < j) /\ ~(j < i)
      BY <1>4, <1>5, <2>2
    <2>4. QED
      BY <1>5, <2>3
  <1>7. \A i \in DOMAIN connections' : /\ connections'[i] \notin gone
                                       /\ \E j \in DOMAIN connections : connections[j] = connections'[i]
    BY <1>4
  <1>8. shifted \subseteq shifted' /\ shifted' \subseteq Casts
    BY <1>1 DEF CastTypeOK
  <1>9. ASSUME NEW e \in others \ shifted', cast[e].at <= Len(connections)
        PROVE  /\ cast[e].at <= Len(connections')
               /\ \A i \in 1 .. cast[e].at : connections'[i] = connections[i]
    <2> DEFINE k == cast[e].at
    <2>1. k \in 0 .. Len(connections)
      BY <1>5, <1>9, CastTypes
    <2>2. ~Passed(e, gone)
      BY <1>1
    <2>3. \A i \in 1 .. k : connections[i] \in R
      <3>1. \A i \in 1 .. k : i \in DOMAIN connections /\ i <= k
        BY <1>5, <2>1
      <3>2. \A i \in DOMAIN connections : connections[i] \in Clients
        BY <1>1
      <3>3. QED
        BY <2>2, <3>1, <3>2 DEF Passed
    <2> HIDE DEF k, R
    <2>4. Len(Keeping(connections, R)) >= k /\ \A i \in 1 .. k : Keeping(connections, R)[i] = connections[i]
      BY <1>1, <2>1, <2>3, KeepingPrefix
    <2>5. QED
      BY <1>1, <1>5, <2>1, <2>4 DEF k
  <1>10. ASSUME NEW k \in Nat, NEW i \in DOMAIN connections', i > k
         PROVE  \E j \in DOMAIN connections : j > k /\ connections[j] = connections'[i]
    <2>1. h[i] \in DOMAIN connections /\ h[i] > k /\ connections[h[i]] = connections'[i]
      BY <1>4, <1>5, <1>10
    <2>2. QED
      BY <2>1
  <1>11. QED
    BY <1>2, <1>6, <1>7, <1>8, <1>9, <1>10

LEMMA CastInitInv == CastInit => CastInv
  <1> SUFFICES ASSUME CastInit PROVE CastInv
    OBVIOUS
  <1>1. /\ connections = <<>> /\ met = {} /\ sending = 0 /\ waiting = FALSE
        /\ cast = [e \in Casts |-> Idle] /\ got = [c \in Clients |-> <<>>]
        /\ present = [e \in Casts |-> {}] /\ shifted = {} /\ late = {}
    BY DEF CastInit
  <1>2. \A e \in Casts : cast[e] = Idle /\ cast[e].stage = "idle" /\ e > sending /\ e \in Nat
    BY <1>1, CastAssumption DEF Idle, Casts
  <1>3. CastTypeOK
    <2>1. cast \in [Casts -> CastType]
      BY <1>1, IdleType
    <2>2. <<>> \in Seq(Clients) /\ got \in [Clients -> Seq(Casts)]
      BY <1>1
    <2>3. sending \in 0 .. Events /\ connections \in Seq(Clients) /\ present \in [Casts -> SUBSET Clients]
      BY <1>1, <2>2, CastAssumption
    <2>4. QED
      BY <1>1, <2>1, <2>2, <2>3 DEF CastTypeOK, CastType
  <1>4. ClientsHaveMet /\ BehindIsDealtWith /\ AheadIsUnsent
    BY <1>1, <1>2 DEF ClientsHaveMet, BehindIsDealtWith, AheadIsUnsent
  <1>5. ThreadWaits
    <2>1. \A e \in Casts : ~(e <= sending)
      BY <1>1, <1>2
    <2>2. \A e \in Casts, c \in Clients : e \notin ToSet(got[c])
      BY <1>1 DEF ToSet
    <2>3. QED
      BY <1>1, <1>2, <2>1, <2>2 DEF ThreadWaits
  <1>6. StayersGetIt /\ InOrderUnlessLate
    BY <1>1, <1>2 DEF StayersGetIt, InOrderUnlessLate
  <1>7. QED
    BY <1>3, <1>4, <1>5, <1>6 DEF CastInv

(* The order depends on what was sent and on who is late.                  *)
LEMMA OrderKept ==
  ASSUME InOrderUnlessLate, got' = got, late \subseteq late'
  PROVE  InOrderUnlessLate'
  BY DEF InOrderUnlessLate

LEMMA ConnectKeepsInv ==
  ASSUME CastInv, NEW c \in Clients, Connect(c)
  PROVE  CastInv'
  <1> USE DEF CastInv
  <1>1. /\ c \notin met /\ met' = met \cup {c} /\ connections' = Append(connections, c)
        /\ sending' = sending /\ waiting' = waiting /\ cast' = cast /\ got' = got
        /\ present' = present /\ shifted' = shifted /\ late' = late
    BY DEF Connect
  <1>2. connections \in Seq(Clients) /\ connections' \in Seq(Clients)
        /\ DOMAIN connections' = 1 .. Len(connections) + 1 /\ DOMAIN connections = 1 .. Len(connections)
        /\ Len(connections') = Len(connections) + 1 /\ Len(connections) \in Nat
        /\ connections'[Len(connections) + 1] = c
        /\ \A i \in 1 .. Len(connections) : connections'[i] = connections[i]
    <2>1. connections \in Seq(Clients)
      BY DEF CastTypeOK
    <2>2. QED
      BY <1>1, <2>1
  <1>3. \A i \in DOMAIN connections' : i = Len(connections) + 1 \/ i \in DOMAIN connections
    BY <1>2
  <1>4. CastTypeOK'
    BY <1>1, <1>2 DEF CastTypeOK
  <1>5. ClientsHaveMet'
    <2>1. \A i \in DOMAIN connections : connections[i] # c
      BY <1>1 DEF ClientsHaveMet
    <2>2. \A i, j \in DOMAIN connections' : connections'[i] = connections'[j] => i = j
      BY <1>2, <1>3, <2>1 DEF ClientsHaveMet
    <2>3. \A i \in DOMAIN connections' : connections'[i] \in met'
      BY <1>1, <1>2, <1>3 DEF ClientsHaveMet
    <2>4. QED
      BY <1>1, <2>2, <2>3 DEF ClientsHaveMet
  <1>6. ThreadWaits'
    BY <1>1 DEF ThreadWaits
  <1>7. BehindIsDealtWith'
    <2>1. SUFFICES ASSUME NEW e \in Casts \ shifted, cast[e].stage = "walking"
                   PROVE  /\ cast[e].at <= Len(connections') /\ connections'[cast[e].at] = cast[e].to
                          /\ \A i \in 1 .. cast[e].at - 1 :
                                connections'[i] \in cast[e].failed \/ e \in ToSet(got[connections'[i]])
      BY <1>1 DEF BehindIsDealtWith
    <2>2. cast[e].at \in 1 .. Len(connections)
      BY <1>2, <2>1, CastTypes DEF BehindIsDealtWith, ClientsHaveMet
    <2>3. \A i \in 1 .. cast[e].at - 1 : i \in 1 .. Len(connections)
      BY <1>2, <2>2
    <2>4. QED
      BY <1>2, <2>1, <2>2, <2>3 DEF BehindIsDealtWith
  <1>8. AheadIsUnsent'
    <2>1. got[c] = <<>> /\ \A e \in Casts : e \notin ToSet(got[c])
      BY <1>1 DEF ClientsHaveMet, ToSet
    <2>2. \A e \in Casts : cast[e].stage = "walking" => cast[e].to # c
      BY <1>1 DEF ClientsHaveMet
    <2>3. QED
      BY <1>1, <1>2, <1>3, <2>1, <2>2 DEF AheadIsUnsent
  <1>9. StayersGetIt'
    <2>1. \A e \in Casts : c \notin present[e]
      BY <1>1 DEF ClientsHaveMet
    <2>2. \A d \in ToSet(connections') : d = c \/ d \in ToSet(connections)
      BY <1>2, <1>3 DEF ToSet
    <2>3. QED
      BY <1>1, <2>1, <2>2 DEF StayersGetIt
  <1>10. InOrderUnlessLate'
    BY <1>1, OrderKept
  <1>11. QED
    BY <1>4, <1>5, <1>6, <1>7, <1>8, <1>9, <1>10

LEMMA DisconnectKeepsInv ==
  ASSUME CastInv, NEW c \in Clients, Disconnect(c)
  PROVE  CastInv'
  <1> USE DEF CastInv
  <1>1. /\ Drop({c}, Walking)
        /\ met' = met /\ sending' = sending /\ waiting' = waiting /\ cast' = cast /\ got' = got
        /\ present' = present /\ late' = late
    BY DEF Disconnect
  <1>2. Walking \in SUBSET Casts
    BY DEF Walking
  <1>3. /\ connections' \in Seq(Clients)
        /\ \A i, j \in DOMAIN connections' : connections'[i] = connections'[j] => i = j
        /\ \A i \in DOMAIN connections' :
              \E j \in DOMAIN connections : connections[j] = connections'[i]
        /\ shifted \subseteq shifted' /\ shifted' \subseteq Casts
        /\ \A e \in Walking \ shifted' : cast[e].at <= Len(connections) =>
              /\ cast[e].at <= Len(connections')
              /\ \A i \in 1 .. cast[e].at : connections'[i] = connections[i]
        /\ \A k \in Nat : \A i \in DOMAIN connections' : i > k =>
              \E j \in DOMAIN connections : j > k /\ connections[j] = connections'[i]
    BY <1>1, <1>2, DropFacts
  <1>4. CastTypeOK'
    BY <1>1, <1>3 DEF CastTypeOK
  <1>5. ClientsHaveMet'
    <2>1. \A i \in DOMAIN connections' : connections'[i] \in met
      BY <1>3 DEF ClientsHaveMet
    <2>2. QED
      BY <1>1, <1>3, <2>1 DEF ClientsHaveMet
  <1>6. ThreadWaits'
    BY <1>1 DEF ThreadWaits
  <1>7. BehindIsDealtWith'
    <2>1. SUFFICES ASSUME NEW e \in Casts \ shifted', cast[e].stage = "walking"
                   PROVE  /\ cast[e].at <= Len(connections') /\ connections'[cast[e].at] = cast[e].to
                          /\ \A i \in 1 .. cast[e].at - 1 :
                                connections'[i] \in cast[e].failed \/ e \in ToSet(got[connections'[i]])
      BY <1>1 DEF BehindIsDealtWith
    <2>2. e \in Walking \ shifted' /\ e \in Casts \ shifted
      BY <1>3, <2>1 DEF Walking
    <2>3. /\ cast[e].at <= Len(connections) /\ connections[cast[e].at] = cast[e].to
          /\ \A i \in 1 .. cast[e].at - 1 :
                connections[i] \in cast[e].failed \/ e \in ToSet(got[connections[i]])
      BY <2>1, <2>2 DEF BehindIsDealtWith
    <2>4. cast[e].at <= Len(connections') /\ \A i \in 1 .. cast[e].at : connections'[i] = connections[i]
      BY <1>3, <2>2, <2>3
    <2>5. cast[e].at \in 1 .. cast[e].at /\ \A i \in 1 .. cast[e].at - 1 : i \in 1 .. cast[e].at
      BY <2>1, CastTypes DEF ClientsHaveMet
    <2>6. QED
      BY <2>3, <2>4, <2>5
  <1>8. AheadIsUnsent'
    <2>1. SUFFICES ASSUME NEW e \in Casts, cast[e].stage = "walking"
                   PROVE  /\ e \notin ToSet(got[cast[e].to])
                          /\ \A i \in DOMAIN connections' : i > cast[e].at =>
                                connections'[i] # cast[e].to /\ e \notin ToSet(got[connections'[i]])
      BY <1>1 DEF AheadIsUnsent
    <2>2. \A i \in DOMAIN connections' : i > cast[e].at =>
              \E j \in DOMAIN connections : j > cast[e].at /\ connections[j] = connections'[i]
      BY <1>3, CastTypes
    <2>3. QED
      BY <2>1, <2>2 DEF AheadIsUnsent
  <1>9. StayersGetIt'
    <2>1. ToSet(connections') \subseteq ToSet(connections)
      BY <1>3 DEF ToSet
    <2>2. QED
      BY <1>1, <1>3, <2>1 DEF StayersGetIt
  <1>10. InOrderUnlessLate'
    BY <1>1, OrderKept
  <1>11. QED
    BY <1>4, <1>5, <1>6, <1>7, <1>8, <1>9, <1>10

LEMMA ScheduleKeepsInv ==
  ASSUME CastInv, Schedule
  PROVE  CastInv'
  <1> USE DEF CastInv
  <1>1. /\ ~waiting /\ sending < Events /\ sending' = sending + 1 /\ waiting' = TRUE
        /\ cast' = [cast EXCEPT ![sending'].stage = "scheduled"]
        /\ connections' = connections /\ met' = met /\ got' = got /\ present' = present
        /\ shifted' = shifted /\ late' = late
    BY DEF Schedule
  <1>2. sending \in Nat /\ sending' \in Casts /\ sending' \in 0 .. Events
        /\ \A e \in Casts : e \in Nat
    BY <1>1, CastAssumption DEF CastTypeOK, Casts
  <1>3. cast[sending'] = Idle
    BY <1>1, <1>2 DEF ThreadWaits
  <1>4. /\ cast' \in [Casts -> CastType]
        /\ cast'[sending'].stage = "scheduled"
        /\ \A e \in Casts : e # sending' => cast'[e] = cast[e]
    <2>1. cast'[sending'] = [Idle EXCEPT !.stage = "scheduled"]
      BY <1>1, <1>2, <1>3, CastTypes
    <2>2. [Idle EXCEPT !.stage = "scheduled"] \in CastType
          /\ [Idle EXCEPT !.stage = "scheduled"].stage = "scheduled"
      BY DEF Idle, CastType
    <2>3. \A e \in Casts : e # sending' => cast'[e] = cast[e]
      BY <1>1, CastTypes
    <2>4. cast' = [e \in Casts |-> cast'[e]]
      BY <1>1, CastTypes
    <2>5. QED
      BY <2>1, <2>2, <2>3, <2>4, CastTypes
  <1>5. CastTypeOK'
    BY <1>1, <1>2, <1>4 DEF CastTypeOK, CastType
  <1>6. \A e \in Casts : cast'[e].stage \in {"walking", "done"} => cast'[e] = cast[e]
    BY <1>4
  <1>7. ClientsHaveMet'
    BY <1>1, <1>6 DEF ClientsHaveMet
  <1>8. ThreadWaits'
    <2>1. SUFFICES ASSUME NEW e \in Casts
                   PROVE  /\ e > sending' => cast'[e] = Idle
                          /\ e <= sending' => \/ cast'[e].stage = "done" \/ e \in late
                                              \/ e = sending'
                          /\ cast'[e].stage \in {"idle", "scheduled"} =>
                                \A c \in Clients : e \notin ToSet(got[c])
      BY <1>1, <1>2 DEF ThreadWaits
    <2>2. CASE e = sending'
      <3>1. cast[e].stage \in {"idle", "scheduled"}
        BY <1>3, <2>2 DEF Idle
      <3>2. \A c \in Clients : e \notin ToSet(got[c])
        BY <3>1 DEF ThreadWaits
      <3>3. ~(e > sending')
        BY <1>2, <2>2
      <3>4. QED
        BY <2>2, <3>2, <3>3
    <2>3. CASE e # sending'
      <3>1. (e > sending' => e > sending) /\ (e <= sending' => e <= sending)
        BY <1>1, <1>2, <2>3
      <3>2. QED
        BY <1>1, <1>4, <2>3, <3>1 DEF ThreadWaits
    <2>4. QED
      BY <2>2, <2>3
  <1>9. BehindIsDealtWith'
    BY <1>1, <1>6 DEF BehindIsDealtWith
  <1>10. AheadIsUnsent'
    BY <1>1, <1>6 DEF AheadIsUnsent
  <1>11. StayersGetIt'
    BY <1>1, <1>6 DEF StayersGetIt
  <1>12. InOrderUnlessLate'
    BY <1>1, OrderKept
  <1>13. QED
    BY <1>5, <1>7, <1>8, <1>9, <1>10, <1>11, <1>12

LEMMA AnsweredOrGivenUpKeepsInv ==
  ASSUME CastInv, Answered \/ GiveUp
  PROVE  CastInv'
  <1> USE DEF CastInv
  <1>1. /\ waiting /\ waiting' = FALSE
        /\ cast[sending].stage = "done" \/ sending \in late'
        /\ late \subseteq late' /\ late' \subseteq late \cup {sending}
        /\ connections' = connections /\ met' = met /\ got' = got /\ present' = present
        /\ shifted' = shifted /\ sending' = sending /\ cast' = cast
    BY DEF Answered, GiveUp
  <1>2. CastTypeOK'
    BY <1>1 DEF CastTypeOK, ThreadWaits
  <1>3. ClientsHaveMet' /\ BehindIsDealtWith' /\ AheadIsUnsent' /\ StayersGetIt'
    BY <1>1 DEF ClientsHaveMet, BehindIsDealtWith, AheadIsUnsent, StayersGetIt
  <1>4. ThreadWaits'
    BY <1>1 DEF ThreadWaits
  <1>5. InOrderUnlessLate'
    BY <1>1, OrderKept
  <1>6. QED
    BY <1>2, <1>3, <1>4, <1>5

LEMMA BeginKeepsInv ==
  ASSUME CastInv, NEW e \in Casts, Begin(e)
  PROVE  CastInv'
  <1> USE DEF CastInv
  <1>1. /\ cast[e].stage = "scheduled"
        /\ present' = [present EXCEPT ![e] = ToSet(connections)]
        /\ connections' = connections /\ met' = met /\ sending' = sending /\ waiting' = waiting
        /\ got' = got /\ shifted' = shifted /\ late' = late
    BY DEF Begin
  <1>2. connections \in Seq(Clients) /\ DOMAIN connections = 1 .. Len(connections) /\ Len(connections) \in Nat
        /\ \A i \in DOMAIN connections : connections[i] \in Clients
    <2>1. connections \in Seq(Clients)
      BY DEF CastTypeOK
    <2>2. QED
      BY <2>1
  <1>3. PICK new \in CastType :
            /\ cast' = [cast EXCEPT ![e] = new]
            /\ \/ new.stage = "done" /\ connections = <<>>
               \/ /\ new.stage = "walking" /\ new.at = 1 /\ new.to = connections[1]
                  /\ connections # <<>>
    <2>1. CASE connections = <<>>
      <3>1. cast' = [cast EXCEPT ![e] = [cast[e] EXCEPT !.stage = "done"]]
        BY <2>1 DEF Begin
      <3>2. [cast[e] EXCEPT !.stage = "done"] \in CastType
            /\ [cast[e] EXCEPT !.stage = "done"].stage = "done"
        BY CastTypes DEF CastType
      <3>3. QED
        BY <2>1, <3>1, <3>2
    <2>2. CASE connections # <<>>
      <3> DEFINE new == [cast[e] EXCEPT !.stage = "walking", !.at = 1, !.to = connections[1]]
      <3>1. cast' = [cast EXCEPT ![e] = new]
        BY <2>2 DEF Begin
      <3>2. connections[1] \in Clients
        BY <1>2, <2>2
      <3>3. new \in CastType /\ new.stage = "walking" /\ new.at = 1 /\ new.to = connections[1]
        BY <3>2, CastTypes DEF CastType
      <3>4. QED
        BY <2>2, <3>1, <3>3
    <2>3. QED
      BY <2>1, <2>2
  <1>4. /\ cast' \in [Casts -> CastType] /\ cast'[e] = new
        /\ \A d \in Casts \ {e} : cast'[d] = cast[d]
    BY <1>3, CastTypes
  <1>5. /\ present' \in [Casts -> SUBSET Clients] /\ present'[e] = ToSet(connections)
        /\ \A d \in Casts \ {e} : present'[d] = present[d]
    BY <1>1, <1>2 DEF CastTypeOK, ToSet
  <1>6. CastTypeOK'
    BY <1>1, <1>4, <1>5 DEF CastTypeOK, CastType
  <1>7. connections # <<>> => 1 \in DOMAIN connections
    BY <1>2
  <1>8. ClientsHaveMet'
    <2>1. \A d \in Casts : present'[d] \subseteq met
      BY <1>5 DEF ClientsHaveMet, ToSet
    <2>2. \A d \in Casts : cast'[d].stage = "walking" => cast'[d].at >= 1 /\ cast'[d].to \in met
      BY <1>3, <1>4, <1>7 DEF ClientsHaveMet
    <2>3. QED
      BY <1>1, <2>1, <2>2 DEF ClientsHaveMet
  <1>9. ThreadWaits'
    <2>1. ~(e > sending)
      BY <1>1 DEF ThreadWaits, Idle
    <2>2. \A d \in Casts : d > sending => cast'[d] = Idle
      BY <1>4, <2>1 DEF ThreadWaits
    <2>3. \A d \in Casts : cast[d].stage = "done" => cast'[d].stage = "done"
      BY <1>1, <1>4
    <2>4. \A d \in Casts : cast'[d].stage \in {"idle", "scheduled"} => cast'[d] = cast[d]
      BY <1>3, <1>4
    <2>5. QED
      BY <1>1, <2>2, <2>3, <2>4 DEF ThreadWaits
  <1>10. BehindIsDealtWith'
    <2>1. SUFFICES ASSUME NEW d \in Casts \ shifted, cast'[d].stage = "walking"
                   PROVE  /\ cast'[d].at <= Len(connections) /\ connections[cast'[d].at] = cast'[d].to
                          /\ \A i \in 1 .. cast'[d].at - 1 :
                                connections[i] \in cast'[d].failed \/ d \in ToSet(got[connections[i]])
      BY <1>1 DEF BehindIsDealtWith
    <2>2. CASE d = e
      <3>1. new.stage = "walking" /\ new.at = 1 /\ new.to = connections[1] /\ 1 <= Len(connections)
        BY <1>2, <1>3, <1>4, <1>7, <2>1, <2>2
      <3>2. QED
        BY <1>4, <2>2, <3>1
    <2>3. CASE d # e
      BY <1>4, <2>1, <2>3 DEF BehindIsDealtWith
    <2>4. QED
      BY <2>2, <2>3
  <1>11. AheadIsUnsent'
    <2>1. \A c \in Clients : e \notin ToSet(got[c])
      BY <1>1 DEF ThreadWaits
    <2>2. SUFFICES ASSUME NEW d \in Casts, cast'[d].stage = "walking"
                   PROVE  /\ d \notin ToSet(got[cast'[d].to])
                          /\ \A i \in DOMAIN connections : i > cast'[d].at =>
                                connections[i] # cast'[d].to /\ d \notin ToSet(got[connections[i]])
      BY <1>1 DEF AheadIsUnsent
    <2>3. CASE d = e
      <3>1. cast'[d].at = 1 /\ cast'[d].to = connections[1] /\ 1 \in DOMAIN connections
        BY <1>3, <1>4, <1>7, <2>2, <2>3
      <3>2. \A i \in DOMAIN connections : i > 1 => connections[i] # connections[1]
        BY <1>2, <3>1 DEF ClientsHaveMet
      <3>3. QED
        BY <1>2, <2>1, <2>3, <3>1, <3>2
    <2>4. CASE d # e
      BY <1>4, <2>2, <2>4 DEF AheadIsUnsent
    <2>5. QED
      BY <2>3, <2>4
  <1>12. StayersGetIt'
    <2>1. SUFFICES ASSUME NEW d \in Casts, cast'[d].stage = "done", d \notin shifted,
                          NEW c \in present'[d] \cap ToSet(connections)
                   PROVE  d \in ToSet(got[c])
      BY <1>1 DEF StayersGetIt
    <2>2. CASE d = e
      <3>1. connections = <<>>
        BY <1>3, <1>4, <2>1, <2>2
      <3>2. QED
        BY <2>1, <3>1 DEF ToSet
    <2>3. CASE d # e
      BY <1>4, <1>5, <2>1, <2>3 DEF StayersGetIt
    <2>4. QED
      BY <2>2, <2>3
  <1>13. InOrderUnlessLate'
    BY <1>1, OrderKept
  <1>14. QED
    BY <1>6, <1>8, <1>9, <1>10, <1>11, <1>12, <1>13

(* A send: what it does to what the clients have been sent.                *)
LEMMA SentFacts ==
  ASSUME CastInv, NEW e \in Casts, NEW ok \in BOOLEAN, Sent(e, ok)
  PROVE  /\ cast[e].stage = "walking" /\ cast[e].to \in Clients /\ cast[e].to \in met
         /\ e <= sending /\ e \in Nat /\ ~(e > sending)
         /\ got' \in [Clients -> Seq(Casts)]
         /\ \A c \in Clients : c # cast[e].to => got'[c] = got[c]
         /\ ok => /\ got'[cast[e].to] = Append(got[cast[e].to], e)
                  /\ ToSet(got'[cast[e].to]) = ToSet(got[cast[e].to]) \cup {e}
         /\ ~ok => got' = got
         /\ \A c \in Clients : ToSet(got[c]) \subseteq ToSet(got'[c])
         /\ \A c \in Clients, d \in Casts \ {e} : d \in ToSet(got'[c]) => d \in ToSet(got[c])
         /\ FailedWith(e, ok) \subseteq Clients
         /\ met' = met /\ sending' = sending /\ waiting' = waiting /\ present' = present
         /\ late' = late
  <1> USE DEF CastInv
  <1>1. /\ cast[e].stage = "walking"
        /\ got' = IF ok THEN [got EXCEPT ![cast[e].to] = Append(@, e)] ELSE got
        /\ met' = met /\ sending' = sending /\ waiting' = waiting /\ present' = present
        /\ late' = late
    BY DEF Sent
  <1>2. cast[e].to \in Clients /\ cast[e].to \in met
    BY <1>1 DEF ClientsHaveMet, CastTypeOK
  <1>3. got \in [Clients -> Seq(Casts)] /\ got[cast[e].to] \in Seq(Casts)
    BY <1>2 DEF CastTypeOK
  <1>4. Append(got[cast[e].to], e) \in Seq(Casts)
        /\ ToSet(Append(got[cast[e].to], e)) = ToSet(got[cast[e].to]) \cup {e}
    BY <1>3, ToSetAppend
  <1>5. /\ got' \in [Clients -> Seq(Casts)]
        /\ \A c \in Clients : c # cast[e].to => got'[c] = got[c]
        /\ ok => got'[cast[e].to] = Append(got[cast[e].to], e)
        /\ ~ok => got' = got
    BY <1>1, <1>2, <1>3, <1>4
  <1>6. \A c \in Clients : ToSet(got[c]) \subseteq ToSet(got'[c])
    BY <1>4, <1>5
  <1>7. \A c \in Clients, d \in Casts \ {e} : d \in ToSet(got'[c]) => d \in ToSet(got[c])
    BY <1>4, <1>5
  <1>8. FailedWith(e, ok) \subseteq Clients
    BY <1>2, CastTypes DEF FailedWith
  <1>9. e <= sending /\ e \in Nat /\ ~(e > sending)
    <2>1. ~(e > sending)
      BY <1>1 DEF ThreadWaits, Idle
    <2>2. e \in Nat /\ sending \in Nat
      BY CastAssumption DEF Casts, CastTypeOK
    <2>3. QED
      BY <2>1, <2>2
  <1>10. QED
    BY <1>1, <1>2, <1>4, <1>5, <1>6, <1>7, <1>8, <1>9

(* The event comes after those the client has, unless a later one has      *)
(* overtaken it, and then the thread has stopped waiting for this one.     *)
LEMMA SentKeepsOrder ==
  ASSUME CastInv, NEW e \in Casts, NEW ok \in BOOLEAN, Sent(e, ok)
  PROVE  InOrderUnlessLate'
  <1> USE DEF CastInv
  <1>0. late' = late /\ sending' = sending
    BY SentFacts
  <1>1. SUFFICES ASSUME NEW c \in Clients, NEW i \in DOMAIN got'[c], NEW j \in DOMAIN got'[c],
                        i < j
                 PROVE  got'[c][i] < got'[c][j] \/ \E l \in late : got'[c][j] <= l /\ l < got'[c][i]
    BY <1>0 DEF InOrderUnlessLate
  <1>2. CASE got'[c] = got[c]
    BY <1>1, <1>2 DEF InOrderUnlessLate
  <1>3. CASE got'[c] # got[c]
    <2>1. ok /\ c = cast[e].to /\ got'[c] = Append(got[c], e) /\ cast[e].stage = "walking"
      BY <1>3, SentFacts
    <2>2. got[c] \in Seq(Casts)
      BY DEF CastTypeOK
    <2>3. /\ DOMAIN got'[c] = 1 .. Len(got[c]) + 1 /\ DOMAIN got[c] = 1 .. Len(got[c])
          /\ Len(got[c]) \in Nat /\ got'[c][Len(got[c]) + 1] = e
          /\ \A k \in 1 .. Len(got[c]) : got'[c][k] = got[c][k] /\ got[c][k] \in Casts
      BY <2>1, <2>2
    <2>4. i \in 1 .. Len(got[c]) /\ (j \in 1 .. Len(got[c]) \/ j = Len(got[c]) + 1)
      BY <1>1, <2>3
    <2>5. CASE j \in 1 .. Len(got[c])
      BY <1>1, <2>3, <2>4, <2>5 DEF InOrderUnlessLate
    <2>6. CASE j = Len(got[c]) + 1
      <3> DEFINE d == got[c][i]
      <3>1. got'[c][i] = d /\ got'[c][j] = e /\ d \in Casts /\ d \in ToSet(got[c])
        BY <2>3, <2>4, <2>6 DEF ToSet
      <3>2. d # e
        BY <2>1, <3>1 DEF AheadIsUnsent
      <3>3. e \in Nat /\ d \in Nat /\ sending \in Nat
        BY <3>1, CastAssumption DEF Casts, CastTypeOK
      <3>4. d <= sending
        <4>1. cast[d].stage \notin {"idle", "scheduled"}
          BY <3>1 DEF ThreadWaits
        <4>2. ~(d > sending)
          BY <3>1, <4>1 DEF ThreadWaits, Idle
        <4>3. QED
          BY <3>3, <4>2
      <3> HIDE DEF d
      <3>5. CASE e < d
        <4>1. e <= sending /\ e # sending
          BY <3>3, <3>4, <3>5
        <4>2. e \in late
          BY <2>1, <4>1 DEF ThreadWaits
        <4>3. QED
          BY <3>1, <3>3, <3>5, <4>2
      <3>6. QED
        BY <3>1, <3>2, <3>3, <3>5
    <2>7. QED
      BY <2>4, <2>5, <2>6
  <1>4. QED
    BY <1>2, <1>3

LEMMA SentOnKeepsInv ==
  ASSUME CastInv, NEW e \in Casts, NEW ok \in BOOLEAN, Sent(e, ok),
         cast[e].at + 1 <= Len(connections)
  PROVE  CastInv'
  <1> USE DEF CastInv
  <1> DEFINE next == cast[e].at + 1
             new == [stage |-> "walking", at |-> next, to |-> connections[next],
                     failed |-> FailedWith(e, ok)]
  <1>1. cast' = [cast EXCEPT ![e] = new] /\ connections' = connections /\ shifted' = shifted
    BY DEF Sent
  <1>2. connections \in Seq(Clients) /\ DOMAIN connections = 1 .. Len(connections) /\ Len(connections) \in Nat
        /\ \A i \in DOMAIN connections : connections[i] \in Clients
    <2>1. connections \in Seq(Clients)
      BY DEF CastTypeOK
    <2>2. QED
      BY <2>1
  <1>3. cast[e].at \in Nat /\ cast[e].at >= 1
    BY CastTypes, SentFacts DEF ClientsHaveMet
  <1>4. next \in DOMAIN connections
    BY <1>2, <1>3
  <1>5. new \in CastType
    BY <1>2, <1>3, <1>4, SentFacts DEF CastType
  <1>6. /\ cast' \in [Casts -> CastType] /\ \A d \in Casts \ {e} : cast'[d] = cast[d]
        /\ cast'[e].stage = "walking" /\ cast'[e].at = next /\ cast'[e].to = connections[next]
        /\ cast'[e].failed = FailedWith(e, ok)
    <2> HIDE DEF new
    <2>1. /\ cast' \in [Casts -> CastType] /\ \A d \in Casts \ {e} : cast'[d] = cast[d]
          /\ cast'[e] = new
      BY <1>1, <1>5, CastTypes
    <2>2. QED
      BY <2>1 DEF new
  <1> HIDE DEF new
  <1>7. CastTypeOK'
    <2>1. connections' = connections /\ shifted' = shifted /\ cast' \in [Casts -> CastType]
      BY <1>1, <1>6
    <2>2. got' \in [Clients -> Seq(Casts)] /\ met' = met /\ sending' = sending
          /\ waiting' = waiting /\ present' = present /\ late' = late
      BY SentFacts
    <2>3. QED
      BY <2>1, <2>2 DEF CastTypeOK, CastType
  <1>8. ClientsHaveMet'
    <2>1. \A d \in Casts : cast'[d].stage = "walking" => cast'[d].at >= 1 /\ cast'[d].to \in met
      BY <1>3, <1>4, <1>6 DEF ClientsHaveMet
    <2>2. \A c \in Clients : got'[c] # <<>> => c \in met
      BY SentFacts DEF ClientsHaveMet
    <2>3. QED
      BY <1>1, <2>1, <2>2, SentFacts DEF ClientsHaveMet
  <1>9. ThreadWaits'
    <2>1. \A d \in Casts : d > sending => cast'[d] = Idle
      <3>1. ~(e > sending)
        BY SentFacts
      <3>2. QED
        BY <1>6, <3>1 DEF ThreadWaits
    <2>2. \A d \in Casts : d <= sending => cast'[d].stage = "done" \/ d \in late \/ (d = sending /\ waiting)
      BY <1>6, SentFacts DEF ThreadWaits
    <2>3. \A d \in Casts : cast'[d].stage \in {"idle", "scheduled"} =>
             \A c \in Clients : d \notin ToSet(got'[c])
      BY <1>6, SentFacts DEF ThreadWaits
    <2>4. QED
      BY <2>1, <2>2, <2>3, SentFacts DEF ThreadWaits
  <1>10. BehindIsDealtWith'
    <2>1. SUFFICES ASSUME NEW d \in Casts \ shifted, cast'[d].stage = "walking"
                   PROVE  /\ cast'[d].at <= Len(connections) /\ connections[cast'[d].at] = cast'[d].to
                          /\ \A i \in 1 .. cast'[d].at - 1 :
                                connections[i] \in cast'[d].failed \/ d \in ToSet(got'[connections[i]])
      BY <1>1 DEF BehindIsDealtWith
    <2>2. CASE d = e
      <3>1. /\ connections[cast[e].at] = cast[e].to
            /\ \A i \in 1 .. cast[e].at - 1 :
                  connections[i] \in cast[e].failed \/ e \in ToSet(got[connections[i]])
        BY <2>1, <2>2, SentFacts DEF BehindIsDealtWith
      <3>2. connections[cast[e].at] \in FailedWith(e, ok) \/ e \in ToSet(got'[connections[cast[e].at]])
        <4>1. ok => e \in ToSet(got'[cast[e].to])
          BY SentFacts
        <4>2. ~ok => cast[e].to \in FailedWith(e, ok)
          BY DEF FailedWith
        <4>3. QED
          BY <3>1, <4>1, <4>2
      <3>3. \A i \in 1 .. cast[e].at : i = cast[e].at \/ i \in 1 .. cast[e].at - 1
        BY <1>3
      <3>4. \A i \in 1 .. cast[e].at : connections[i] \in Clients
        BY <1>2, <1>3, <1>4
      <3>5. cast[e].failed \subseteq FailedWith(e, ok)
        BY DEF FailedWith
      <3>6. \A i \in 1 .. cast[e].at : connections[i] \in FailedWith(e, ok) \/ e \in ToSet(got'[connections[i]])
        BY <3>1, <3>2, <3>3, <3>4, <3>5, SentFacts
      <3>7. next - 1 = cast[e].at /\ next <= Len(connections)
        BY <1>2, <1>3
      <3>8. QED
        BY <1>6, <2>2, <3>6, <3>7
    <2>3. CASE d # e
      <3>1. cast'[d] = cast[d]
        BY <1>6, <2>3
      <3>2. /\ cast[d].at <= Len(connections) /\ connections[cast[d].at] = cast[d].to
            /\ \A i \in 1 .. cast[d].at - 1 :
                  connections[i] \in cast[d].failed \/ d \in ToSet(got[connections[i]])
        BY <2>1, <3>1 DEF BehindIsDealtWith
      <3>3. \A i \in 1 .. cast[d].at - 1 : connections[i] \in Clients
        <4>1. cast[d].at \in Nat
          BY CastTypes
        <4>2. \A i \in 1 .. cast[d].at - 1 : i \in 1 .. Len(connections)
          BY <1>2, <3>2, <4>1
        <4>3. QED
          BY <1>2, <4>2
      <3>4. QED
        BY <3>1, <3>2, <3>3, SentFacts
    <2>4. QED
      BY <2>2, <2>3
  <1>11. AheadIsUnsent'
    <2>1. SUFFICES ASSUME NEW d \in Casts, cast'[d].stage = "walking"
                   PROVE  /\ d \notin ToSet(got'[cast'[d].to])
                          /\ \A i \in DOMAIN connections : i > cast'[d].at =>
                                connections[i] # cast'[d].to /\ d \notin ToSet(got'[connections[i]])
      BY <1>1 DEF AheadIsUnsent
    <2>2. CASE d = e
      <3>1. \A i \in DOMAIN connections : i > cast[e].at =>
               connections[i] # cast[e].to /\ e \notin ToSet(got[connections[i]])
        BY SentFacts DEF AheadIsUnsent
      <3>2. \A i \in DOMAIN connections : i > cast[e].at => e \notin ToSet(got'[connections[i]])
        BY <1>2, <3>1, SentFacts
      <3>3. next > cast[e].at /\ \A i \in DOMAIN connections : i > next => i > cast[e].at
        BY <1>2, <1>3
      <3>4. \A i \in DOMAIN connections : i > next => connections[i] # connections[next]
        BY <1>2, <1>4 DEF ClientsHaveMet
      <3> HIDE DEF next
      <3>5. QED
        BY <1>4, <1>6, <2>2, <3>2, <3>3, <3>4
    <2>3. CASE d # e
      <3>1. cast'[d] = cast[d] /\ cast[d].to \in Clients
        BY <1>6, <2>1, <2>3 DEF ClientsHaveMet, CastTypeOK
      <3>2. /\ d \notin ToSet(got[cast[d].to])
            /\ \A i \in DOMAIN connections : i > cast[d].at =>
                  connections[i] # cast[d].to /\ d \notin ToSet(got[connections[i]])
        BY <2>1, <3>1 DEF AheadIsUnsent
      <3>3. \A c \in Clients : d \in ToSet(got'[c]) => d \in ToSet(got[c])
        BY <2>3, SentFacts
      <3>4. QED
        BY <1>2, <3>1, <3>2, <3>3
    <2>4. QED
      BY <2>2, <2>3
  <1>12. StayersGetIt'
    <2>1. SUFFICES ASSUME NEW d \in Casts, cast'[d].stage = "done", d \notin shifted,
                          NEW c \in present[d] \cap ToSet(connections)
                   PROVE  d \in ToSet(got'[c])
      BY <1>1, SentFacts DEF StayersGetIt
    <2>2. d # e /\ cast'[d] = cast[d]
      BY <1>6, <2>1
    <2>3. c \in Clients
      BY DEF CastTypeOK
    <2>4. QED
      BY <2>1, <2>2, <2>3, SentFacts DEF StayersGetIt
  <1>13. InOrderUnlessLate'
    BY SentKeepsOrder
  <1>14. QED
    BY <1>7, <1>8, <1>9, <1>10, <1>11, <1>12, <1>13

LEMMA SentLastKeepsInv ==
  ASSUME CastInv, NEW e \in Casts, NEW ok \in BOOLEAN, Sent(e, ok),
         ~(cast[e].at + 1 <= Len(connections))
  PROVE  CastInv'
  <1> USE DEF CastInv
  <1> DEFINE gone == FailedWith(e, ok)
             new == [Idle EXCEPT !.stage = "done"]
  <1>1. cast' = [cast EXCEPT ![e] = new] /\ Drop(gone, Walking \ {e})
    BY DEF Sent
  <1>2. connections \in Seq(Clients) /\ DOMAIN connections = 1 .. Len(connections) /\ Len(connections) \in Nat
        /\ \A i \in DOMAIN connections : connections[i] \in Clients
    <2>1. connections \in Seq(Clients)
      BY DEF CastTypeOK
    <2>2. QED
      BY <2>1
  <1>3. new \in CastType /\ new.stage = "done"
    BY DEF Idle, CastType
  <1> HIDE DEF new
  <1>4. /\ cast' \in [Casts -> CastType] /\ \A d \in Casts \ {e} : cast'[d] = cast[d]
        /\ cast'[e].stage = "done"
    BY <1>1, <1>3, CastTypes
  <1>5. Walking \ {e} \in SUBSET Casts
    BY DEF Walking
  <1>6. /\ connections' \in Seq(Clients)
        /\ \A i, j \in DOMAIN connections' : connections'[i] = connections'[j] => i = j
        /\ \A i \in DOMAIN connections' : /\ connections'[i] \notin gone
                                          /\ \E j \in DOMAIN connections : connections[j] = connections'[i]
        /\ shifted \subseteq shifted' /\ shifted' \subseteq Casts
        /\ \A d \in (Walking \ {e}) \ shifted' : cast[d].at <= Len(connections) =>
              /\ cast[d].at <= Len(connections')
              /\ \A i \in 1 .. cast[d].at : connections'[i] = connections[i]
        /\ \A k \in Nat : \A i \in DOMAIN connections' : i > k =>
              \E j \in DOMAIN connections : j > k /\ connections[j] = connections'[i]
    <2> HIDE DEF gone
    <2>1. QED
      BY <1>1, <1>5, DropFacts
  <1> HIDE DEF gone
  <1>7. CastTypeOK'
    <2>1. connections' \in Seq(Clients) /\ shifted' \subseteq Casts /\ cast' \in [Casts -> CastType]
      BY <1>4, <1>6
    <2>2. got' \in [Clients -> Seq(Casts)] /\ met' = met /\ sending' = sending
          /\ waiting' = waiting /\ present' = present /\ late' = late
      BY SentFacts
    <2>3. QED
      BY <2>1, <2>2 DEF CastTypeOK, CastType
  <1>8. ClientsHaveMet'
    <2>1. \A d \in Casts : cast'[d].stage = "walking" => cast'[d].at >= 1 /\ cast'[d].to \in met
      BY <1>4 DEF ClientsHaveMet
    <2>2. \A c \in Clients : got'[c] # <<>> => c \in met
      BY SentFacts DEF ClientsHaveMet
    <2>3. \A i \in DOMAIN connections' : connections'[i] \in met
      BY <1>6 DEF ClientsHaveMet
    <2>4. QED
      BY <1>6, <2>1, <2>2, <2>3, SentFacts DEF ClientsHaveMet
  <1>9. ThreadWaits'
    <2>1. \A d \in Casts : d > sending => cast'[d] = Idle
      <3>1. ~(e > sending)
        BY SentFacts
      <3>2. QED
        BY <1>4, <3>1 DEF ThreadWaits
    <2>2. \A d \in Casts : d <= sending => cast'[d].stage = "done" \/ d \in late \/ (d = sending /\ waiting)
      BY <1>4 DEF ThreadWaits
    <2>3. \A d \in Casts : cast'[d].stage \in {"idle", "scheduled"} =>
             \A c \in Clients : d \notin ToSet(got'[c])
      BY <1>4, SentFacts DEF ThreadWaits
    <2>4. QED
      BY <2>1, <2>2, <2>3, SentFacts DEF ThreadWaits
  <1>10. BehindIsDealtWith'
    <2>1. SUFFICES ASSUME NEW d \in Casts \ shifted', cast'[d].stage = "walking"
                   PROVE  /\ cast'[d].at <= Len(connections') /\ connections'[cast'[d].at] = cast'[d].to
                          /\ \A i \in 1 .. cast'[d].at - 1 :
                                connections'[i] \in cast'[d].failed \/ d \in ToSet(got'[connections'[i]])
      BY DEF BehindIsDealtWith
    <2>2. d # e /\ cast'[d] = cast[d]
      BY <1>4, <2>1
    <2>3. d \in (Walking \ {e}) \ shifted' /\ d \in Casts \ shifted
      BY <1>6, <2>1, <2>2 DEF Walking
    <2>4. /\ cast[d].at <= Len(connections) /\ connections[cast[d].at] = cast[d].to
          /\ \A i \in 1 .. cast[d].at - 1 :
                connections[i] \in cast[d].failed \/ d \in ToSet(got[connections[i]])
      BY <2>1, <2>2, <2>3 DEF BehindIsDealtWith
    <2>5. cast[d].at <= Len(connections') /\ \A i \in 1 .. cast[d].at : connections'[i] = connections[i]
      BY <1>6, <2>3, <2>4
    <2>6. cast[d].at \in 1 .. cast[d].at /\ \A i \in 1 .. cast[d].at - 1 : i \in 1 .. cast[d].at
      BY <2>1, <2>2, CastTypes DEF ClientsHaveMet
    <2>7. \A i \in 1 .. cast[d].at - 1 : connections[i] \in Clients
      <3>1. cast[d].at \in Nat
        BY CastTypes
      <3>2. \A i \in 1 .. cast[d].at - 1 : i \in 1 .. Len(connections)
        BY <1>2, <2>4, <3>1
      <3>3. QED
        BY <1>2, <3>2
    <2>8. \A i \in 1 .. cast[d].at - 1 : d \in ToSet(got[connections[i]]) => d \in ToSet(got'[connections[i]])
      BY <2>7, SentFacts
    <2>9. QED
      BY <2>2, <2>4, <2>5, <2>6, <2>8
  <1>11. AheadIsUnsent'
    <2>1. SUFFICES ASSUME NEW d \in Casts, cast'[d].stage = "walking"
                   PROVE  /\ d \notin ToSet(got'[cast'[d].to])
                          /\ \A i \in DOMAIN connections' : i > cast'[d].at =>
                                connections'[i] # cast'[d].to /\ d \notin ToSet(got'[connections'[i]])
      BY DEF AheadIsUnsent
    <2>2. d # e /\ cast'[d] = cast[d] /\ cast[d].at \in Nat
      BY <1>4, <2>1, CastTypes
    <2>3. cast[d].to \in Clients
      BY <2>1, <2>2 DEF ClientsHaveMet, CastTypeOK
    <2>4. d \notin ToSet(got'[cast[d].to])
      BY <2>1, <2>2, <2>3, SentFacts DEF AheadIsUnsent
    <2>5. ASSUME NEW i \in DOMAIN connections', i > cast[d].at
          PROVE  connections'[i] # cast[d].to /\ d \notin ToSet(got'[connections'[i]])
      <3>1. PICK j \in DOMAIN connections : j > cast[d].at /\ connections[j] = connections'[i]
        BY <1>6, <2>2, <2>5
      <3>2. connections[j] # cast[d].to /\ d \notin ToSet(got[connections[j]])
        BY <2>1, <2>2, <3>1 DEF AheadIsUnsent
      <3>3. d \notin ToSet(got'[connections[j]])
        BY <1>2, <2>2, <3>2, SentFacts
      <3>4. QED
        BY <3>1, <3>2, <3>3
    <2>6. QED
      BY <2>2, <2>4, <2>5
  <1>12. StayersGetIt'
    <2>1. SUFFICES ASSUME NEW d \in Casts, cast'[d].stage = "done", d \notin shifted',
                          NEW c \in present[d] \cap ToSet(connections')
                   PROVE  d \in ToSet(got'[c])
      BY SentFacts DEF StayersGetIt
    <2>2. PICK j \in DOMAIN connections : connections[j] = c
      BY <1>6 DEF ToSet
    <2>3. c \in Clients /\ c \notin gone /\ d \notin shifted
      BY <1>2, <1>6, <2>1, <2>2 DEF ToSet
    <2>4. CASE d = e
      <3>1. /\ cast[e].at <= Len(connections) /\ connections[cast[e].at] = cast[e].to
            /\ \A i \in 1 .. cast[e].at - 1 :
                  connections[i] \in cast[e].failed \/ e \in ToSet(got[connections[i]])
        <4>1. e \in Casts \ shifted /\ cast[e].stage = "walking"
          BY <2>3, <2>4, SentFacts
        <4>2. QED
          BY <4>1 DEF BehindIsDealtWith
      <3>2. cast[e].at \in Nat /\ cast[e].at >= 1
        BY CastTypes, SentFacts DEF ClientsHaveMet
      <3>3. j = cast[e].at \/ j \in 1 .. cast[e].at - 1
        BY <1>2, <3>1, <3>2
      <3>4. CASE j = cast[e].at
        <4>1. c = cast[e].to /\ ok
          BY <2>2, <2>3, <3>1, <3>4 DEF gone, FailedWith
        <4>2. QED
          BY <2>4, <4>1, SentFacts
      <3>5. CASE j \in 1 .. cast[e].at - 1
        <4>1. c \notin cast[e].failed
          BY <2>3 DEF gone, FailedWith
        <4>2. e \in ToSet(got[c])
          BY <2>2, <3>1, <3>5, <4>1
        <4>3. QED
          BY <2>3, <2>4, <4>2, SentFacts
      <3>6. QED
        BY <3>3, <3>4, <3>5
    <2>5. CASE d # e
      <3>1. cast'[d] = cast[d] /\ c \in ToSet(connections)
        BY <1>4, <2>2, <2>5 DEF ToSet
      <3>2. QED
        BY <2>1, <2>3, <3>1, SentFacts DEF StayersGetIt
    <2>6. QED
      BY <2>4, <2>5
  <1>13. InOrderUnlessLate'
    BY SentKeepsOrder
  <1>14. QED
    BY <1>7, <1>8, <1>9, <1>10, <1>11, <1>12, <1>13

LEMMA CastStepInv == CastInv /\ [CastNext]_castVars => CastInv'
  <1> SUFFICES ASSUME CastInv, [CastNext]_castVars PROVE CastInv'
    OBVIOUS
  <1>1. CASE UNCHANGED castVars
    BY <1>1 DEF castVars, CastInv, CastTypeOK, ClientsHaveMet, ThreadWaits, BehindIsDealtWith,
                AheadIsUnsent, StayersGetIt, InOrderUnlessLate
  <1>2. CASE \E c \in Clients : Connect(c) \/ Disconnect(c)
    BY <1>2, ConnectKeepsInv, DisconnectKeepsInv
  <1>3. CASE Schedule \/ Answered \/ GiveUp
    BY <1>3, ScheduleKeepsInv, AnsweredOrGivenUpKeepsInv
  <1>4. CASE \E e \in Casts : Begin(e)
    BY <1>4, BeginKeepsInv
  <1>5. CASE \E e \in Casts, ok \in BOOLEAN : Sent(e, ok)
    BY <1>5, SentOnKeepsInv, SentLastKeepsInv
  <1>6. QED
    BY <1>1, <1>2, <1>3, <1>4, <1>5 DEF CastNext

(* Every variable of Broadcasts has its type.                              *)
THEOREM CastTypesHold == CastSpec => []CastTypeOK
  <1>1. CastInv => CastTypeOK
    BY DEF CastInv
  <1>2. QED
    BY <1>1, CastInitInv, CastStepInv, PTL DEF CastSpec

(* Whoever leaves and whichever sends fail meanwhile: a broadcast that did *)
(* not lose its place reaches every client that stays.                     *)
THEOREM StayersAreReached == CastSpec => []StayersGetIt
  <1>1. CastInv => StayersGetIt
    BY DEF CastInv
  <1>2. QED
    BY <1>1, CastInitInv, CastStepInv, PTL DEF CastSpec

(* A client gets no event twice, and a later one first only if the thread  *)
(* stopped waiting for the earlier one, whether places were lost or not.   *)
THEOREM OnlyLatenessReorders == CastSpec => []InOrderUnlessLate
  <1>1. CastInv => InOrderUnlessLate
    BY DEF CastInv
  <1>2. QED
    BY <1>1, CastInitInv, CastStepInv, PTL DEF CastSpec

-----------------------------------------------------------------------------
(* The concatenation of a sequence of sequences, block by block.           *)

(* The recursive function of FlattenSeq.                                   *)
FlatUpTo(ss) ==
    CHOOSE f : f = [i \in 1 .. Len(ss) |-> IF i = 1 THEN ss[i] ELSE f[i - 1] \o ss[i]]

LEMMA FlatIsLast ==
    \A ss : FlattenSeq(ss) = IF Len(ss) = 0 THEN ss ELSE FlatUpTo(ss)[Len(ss)]
  BY DEF FlattenSeq, FlatUpTo

LEMMA FlatUpToDef ==
  ASSUME NEW S, NEW ss \in Seq(Seq(S))
  PROVE  /\ \A i \in 1 .. Len(ss) : FlatUpTo(ss)[i] \in Seq(S)
         /\ \A i \in 1 .. Len(ss) :
               FlatUpTo(ss)[i] = IF i = 1 THEN ss[i] ELSE FlatUpTo(ss)[i - 1] \o ss[i]
  <1> DEFINE n == Len(ss)
             D == [p \in Seq(S) \X (1 .. n) |-> p[1] \o ss[p[2]]]
             Eq(f) == f = [i \in 1 .. n |-> IF i = 1 THEN ss[i] ELSE f[i - 1] \o ss[i]]
  <1>0. n \in Nat /\ \A i \in 1 .. n : ss[i] \in Seq(S)
    OBVIOUS
  <1>a. \A t, u \in Seq(S) : t \o u \in Seq(S)
    OBVIOUS
  <1>1. D \in [Seq(S) \X (1 .. n) -> Seq(S)]
    <2>1. ASSUME NEW p \in Seq(S) \X (1 .. n)
          PROVE  p[1] \o ss[p[2]] \in Seq(S)
      <3>1. p[1] \in Seq(S) /\ ss[p[2]] \in Seq(S)
        BY <1>0
      <3>2. QED
        BY <3>1, <1>a
    <2>2. QED
      BY <2>1
  <1>2. \A t \in Seq(S), i \in 1 .. n : D[<<t, i>>] = t \o ss[i]
    <2> TAKE t \in Seq(S), i \in 1 .. n
    <2>1. <<t, i>> \in Seq(S) \X (1 .. n)
      OBVIOUS
    <2>2. QED
      BY <2>1
  <1> HIDE DEF D, n
  <1>3. <<>> \in Seq(S)
    OBVIOUS
  <1>4. PICK f \in [0 .. n -> Seq(S)] : f[0] = <<>> /\ \A i \in 1 .. n : f[i] = D[<<f[i - 1], i>>]
    <2>1. D \in WalkSteps(Seq(S), n)
      BY <1>1 DEF WalkSteps
    <2>2. Walks(Seq(S), n, <<>>, D) # {}
      BY <1>0, <1>3, <2>1, RecExists
    <2>3. QED
      BY <2>2 DEF Walks
  <1>5. f[0] = <<>> /\ \A i \in 1 .. n : f[i] = f[i - 1] \o ss[i] /\ f[i - 1] \in Seq(S) /\ f[i] \in Seq(S)
    <2>1. \A i \in 1 .. n : i - 1 \in 0 .. n /\ i \in 0 .. n
      BY <1>0
    <2>2. QED
      BY <1>2, <1>4, <2>1
  <1>6. \A i \in 1 .. n : f[i] = IF i = 1 THEN ss[i] ELSE f[i - 1] \o ss[i]
    <2>1. \A t \in Seq(S) : <<>> \o t = t
      OBVIOUS
    <2>2. \A i \in 1 .. n : i = 1 => f[i - 1] = <<>>
      BY <1>5
    <2>3. QED
      BY <1>0, <1>5, <2>1, <2>2
  <1> DEFINE g == [i \in 1 .. n |-> f[i]]
  <1>7. Eq(g)
    <2>1. \A i \in 1 .. n : g[i] = f[i] /\ (i # 1 => g[i - 1] = f[i - 1])
      BY <1>0
    <2>2. \A i \in 1 .. n : g[i] = IF i = 1 THEN ss[i] ELSE g[i - 1] \o ss[i]
      BY <1>6, <2>1
    <2>3. g = [i \in 1 .. n |-> g[i]]
      OBVIOUS
    <2> HIDE DEF g
    <2>4. QED
      BY <2>2, <2>3
  <1> DEFINE K == FlatUpTo(ss)
  <1> HIDE DEF g
  <1>8. Eq(K)
    <2>1. K = CHOOSE h : Eq(h)
      BY DEF FlatUpTo, n
    <2> HIDE DEF K, Eq
    <2>2. QED
      BY <1>7, <2>1
  <1>9. \A i \in 1 .. n : K[i] = IF i = 1 THEN ss[i] ELSE K[i - 1] \o ss[i]
    <2> HIDE DEF K
    <2>1. QED
      BY <1>8
  <1> HIDE DEF K, Eq
  <1>10. \A i \in 1 .. n : K[i] = f[i]
    <2>1. \A i \in 1 .. n : i = 1 \/ K[i - 1] = f[i - 1] => K[i] = f[i]
      BY <1>6, <1>9
    <2> DEFINE T == {i \in 0 .. n : i = 0 \/ K[i] = f[i]}
    <2>2. 0 \in T
      BY <1>0
    <2>3. \A i \in 1 .. n : i - 1 \in T => i \in T
      BY <1>0, <2>1
    <2> HIDE DEF T
    <2>4. 0 .. n \subseteq T
      BY <1>0, <2>2, <2>3, BoundedInduction
    <2>5. QED
      BY <1>0, <2>4 DEF T
  <1>11. QED
    BY <1>5, <1>9, <1>10 DEF K, n

LEMMA FlatEmpty == FlattenSeq(<<>>) = <<>>
  <1>1. Len(<<>>) = 0
    OBVIOUS
  <1>2. QED
    BY <1>1, FlatIsLast, Zenon

LEMMA FlatAppend ==
  ASSUME NEW S, NEW ss \in Seq(Seq(S)), NEW b \in Seq(S)
  PROVE  FlattenSeq(Append(ss, b)) = FlattenSeq(ss) \o b /\ FlattenSeq(ss) \in Seq(S)
  <1> DEFINE tt == Append(ss, b)
             n == Len(ss)
             K == FlatUpTo(ss)
             L == FlatUpTo(tt)
  <1>1. tt \in Seq(Seq(S)) /\ Len(tt) = n + 1 /\ tt[n + 1] = b /\ n \in Nat
        /\ \A i \in 1 .. n : tt[i] = ss[i]
    OBVIOUS
  <1>2. \A i \in 1 .. n : K[i] \in Seq(S) /\ K[i] = IF i = 1 THEN ss[i] ELSE K[i - 1] \o ss[i]
    BY FlatUpToDef
  <1> HIDE DEF tt
  <1>3. \A i \in 1 .. n + 1 : L[i] = IF i = 1 THEN tt[i] ELSE L[i - 1] \o tt[i]
    BY <1>1, FlatUpToDef
  <1>4. FlattenSeq(ss) = (IF n = 0 THEN ss ELSE K[n]) /\ FlattenSeq(tt) = L[n + 1]
    <2>1. n + 1 # 0
      BY <1>1
    <2>2. QED
      BY <1>1, <2>1, FlatIsLast
  <1> HIDE DEF K, L
  <1>5. \A i \in 1 .. n : K[i] = L[i]
    <2>1. \A i \in 1 .. n : i = 1 \/ K[i - 1] = L[i - 1] => K[i] = L[i]
      BY <1>1, <1>2, <1>3
    <2> DEFINE T == {i \in 0 .. n : i = 0 \/ K[i] = L[i]}
    <2>2. 0 \in T /\ \A i \in 1 .. n : i - 1 \in T => i \in T
      <3> HIDE DEF n
      <3>1. QED
        BY <1>1, <2>1
    <2> HIDE DEF T, n
    <2>3. 0 .. n \subseteq T
      BY <1>1, <2>2, BoundedInduction
    <2>4. QED
      BY <1>1, <2>3 DEF T
  <1>6. CASE n = 0
    <2>1. ss = <<>> /\ \A t \in Seq(S) : <<>> \o t = t /\ <<>> \in Seq(S)
      BY <1>6
    <2> HIDE DEF n
    <2>2. L[1] = b
      BY <1>1, <1>3, <1>6
    <2>3. QED
      BY <1>4, <1>6, <2>1, <2>2 DEF tt
  <1>7. CASE n # 0
    <2> HIDE DEF n
    <2>1. K[n] = L[n] /\ K[n] \in Seq(S)
      BY <1>1, <1>2, <1>5, <1>7
    <2>3. n + 1 \in 1 .. n + 1 /\ n + 1 # 1 /\ (n + 1) - 1 = n
      BY <1>1, <1>7
    <2>4. L[n + 1] = L[n] \o b
      BY <1>1, <1>3, <2>3
    <2>5. QED
      BY <1>4, <1>7, <2>1, <2>4 DEF tt
  <1>8. QED
    BY <1>6, <1>7

LEMMA FunctionIsSeq ==
  ASSUME NEW S, NEW n \in Nat, NEW f \in [1 .. n -> S]
  PROVE  f \in Seq(S) /\ Len(f) = n /\ DOMAIN f = 1 .. n
  OBVIOUS

(* A sequence of singletons is flattened to what they contain.             *)
LEMMA FlatSingles ==
  ASSUME NEW S, NEW s \in Seq(S)
  PROVE  FlattenSeq([i \in DOMAIN s |-> <<s[i]>>]) = s
  <1> DEFINE Ones(t) == [i \in DOMAIN t |-> <<t[i]>>]
             T == {t \in Seq(S) : FlattenSeq(Ones(t)) = t}
  <1>1. <<>> \in T
    <2>1. Ones(<<>>) = <<>> /\ <<>> \in Seq(S)
      OBVIOUS
    <2>2. QED
      BY <2>1, FlatEmpty
  <1>2. ASSUME NEW t \in Seq(S), NEW x \in S, t \in T
        PROVE  Append(t, x) \in T
    <2>1. Ones(t) \in Seq(Seq(S)) /\ <<x>> \in Seq(S)
      <3>1. Len(t) \in Nat /\ DOMAIN t = 1 .. Len(t) /\ \A i \in DOMAIN t : <<t[i]>> \in Seq(S)
        OBVIOUS
      <3>2. Ones(t) \in [1 .. Len(t) -> Seq(S)]
        BY <3>1
      <3>3. Ones(t) \in Seq(Seq(S))
        BY <3>1, <3>2, FunctionIsSeq
      <3>4. QED
        BY <3>3
    <2>2. Ones(Append(t, x)) = Append(Ones(t), <<x>>)
      OBVIOUS
    <2>3. FlattenSeq(Append(Ones(t), <<x>>)) = FlattenSeq(Ones(t)) \o <<x>>
      <3> HIDE DEF Ones
      <3>1. QED
        BY <2>1, FlatAppend
    <2>4. FlattenSeq(Ones(t)) = t
      BY <1>2
    <2>5. t \o <<x>> = Append(t, x) /\ Append(t, x) \in Seq(S)
      OBVIOUS
    <2> HIDE DEF Ones
    <2>6. QED
      BY <2>2, <2>3, <2>4, <2>5
  <1> HIDE DEF T, Ones
  <1>3. Seq(S) \subseteq T
    BY <1>1, <1>2, SeqInduction
  <1>4. QED
    BY <1>3 DEF T, Ones

-----------------------------------------------------------------------------
(* Calls and results.                                                      *)

Answering(m, c) == m.role = "tool" /\ m.n = c
Distinct(calls) == \A i, j \in DOMAIN calls : calls[i] = calls[j] => i = j
Paired(l) == PendingOf(l) = {} /\ Orphans(l) = {}

LEMMA PendingIff ==
  \A l, c : c \in PendingOf(l) <=>
               \E i \in DOMAIN l : /\ c \in Asked(l, i)
                                   /\ \A j \in DOMAIN l : j > i => ~Answering(l[j], c)
  BY DEF PendingOf, Answering

LEMMA PendingNone ==
  \A l : PendingOf(l) = {} <=>
            \A i \in DOMAIN l : \A c \in Asked(l, i) : \E j \in DOMAIN l : j > i /\ Answering(l[j], c)
  BY PendingIff

LEMMA Prefix ==
  ASSUME NEW S, NEW l \in Seq(S), NEW i \in 1 .. Len(l) + 1
  PROVE  /\ DOMAIN SubSeq(l, 1, i - 1) = 1 .. i - 1
         /\ \A j \in 1 .. i - 1 : SubSeq(l, 1, i - 1)[j] = l[j]
  OBVIOUS

(* A result is in its place if the call stands before it and no other      *)
(* result of the call between them.                                        *)
InPlace(l, i) ==
    \E a \in 1 .. i - 1 : /\ l[i].n \in Asked(l, a)
                          /\ \A b \in a + 1 .. i - 1 : ~Answering(l[b], l[i].n)
LEMMA OrphanIff ==
  ASSUME NEW l \in Seq(Messages)
  PROVE  Orphans(l) = { i \in DOMAIN l : l[i].role = "tool" /\ ~InPlace(l, i) }
  <1>1. ASSUME NEW i \in DOMAIN l
        PROVE  l[i].n \in PendingOf(SubSeq(l, 1, i - 1)) <=> InPlace(l, i)
    <2> DEFINE p == SubSeq(l, 1, i - 1)
    <2>1. i \in 1 .. Len(l) + 1 /\ i \in Nat
      OBVIOUS
    <2>2. DOMAIN p = 1 .. i - 1 /\ \A j \in 1 .. i - 1 : p[j] = l[j]
      BY <2>1, Prefix
    <2> HIDE DEF p
    <2>3. \A a \in 1 .. i - 1 : Asked(p, a) = Asked(l, a)
      BY <2>2 DEF Asked
    <2>4. l[i].n \in PendingOf(p) <=>
             \E a \in 1 .. i - 1 : /\ l[i].n \in Asked(l, a)
                                   /\ \A b \in 1 .. i - 1 : b > a => ~Answering(l[b], l[i].n)
      BY <2>2, <2>3, PendingIff
    <2>5. \A a, b \in 1 .. i - 1 : b > a <=> b \in a + 1 .. i - 1
      BY <2>1
    <2>6. \A a \in 1 .. i - 1 : \A b \in a + 1 .. i - 1 : b \in 1 .. i - 1
      BY <2>1
    <2>7. QED
      BY <2>4, <2>5, <2>6 DEF InPlace, p
  <1>2. QED
    BY <1>1 DEF Orphans, Tools

LEMMA OrphansNone ==
  ASSUME NEW l \in Seq(Messages)
  PROVE  Orphans(l) = {} <=> \A i \in DOMAIN l : l[i].role = "tool" => InPlace(l, i)
  BY OrphanIff

(* A message at the end.                                                   *)
LEMMA AppendShape ==
  ASSUME NEW S, NEW l \in Seq(S), NEW m \in S
  PROVE  /\ Append(l, m) \in Seq(S) /\ Len(Append(l, m)) = Len(l) + 1 /\ Len(l) \in Nat
         /\ DOMAIN l = 1 .. Len(l) /\ DOMAIN Append(l, m) = 1 .. Len(l) + 1
         /\ Append(l, m)[Len(l) + 1] = m /\ \A i \in 1 .. Len(l) : Append(l, m)[i] = l[i]
  OBVIOUS

LEMMA AppendPending ==
  ASSUME NEW l \in Seq(Messages), NEW m \in Messages, PendingOf(l) = {}
  PROVE  PendingOf(Append(l, m)) \subseteq ToSet(m.calls)
  <1> DEFINE k == Append(l, m)
  <1>1. /\ DOMAIN l = 1 .. Len(l) /\ DOMAIN k = 1 .. Len(l) + 1 /\ Len(l) \in Nat
        /\ k[Len(l) + 1] = m /\ \A i \in 1 .. Len(l) : k[i] = l[i]
    BY AppendShape
  <1> HIDE DEF k
  <1>2. SUFFICES ASSUME NEW c \in PendingOf(k) PROVE c \in ToSet(m.calls)
    BY DEF k
  <1>3. PICK i \in 1 .. Len(l) + 1 : /\ c \in Asked(k, i)
                                     /\ \A j \in 1 .. Len(l) + 1 : j > i => ~Answering(k[j], c)
    BY <1>1, <1>2, PendingIff
  <1>4. CASE i = Len(l) + 1
    BY <1>1, <1>3, <1>4 DEF Asked
  <1>5. CASE i \in 1 .. Len(l)
    <2>1. c \in Asked(l, i)
      BY <1>1, <1>3, <1>5 DEF Asked
    <2>2. PICK j \in 1 .. Len(l) : j > i /\ Answering(l[j], c)
      BY <1>1, <1>5, <2>1, PendingNone
    <2>3. j \in 1 .. Len(l) + 1 /\ Answering(k[j], c)
      BY <1>1, <2>2
    <2>4. QED
      BY <1>3, <2>2, <2>3
  <1>6. QED
    BY <1>1, <1>4, <1>5

LEMMA AppendOrphans ==
  ASSUME NEW l \in Seq(Messages), NEW m \in Messages, m.role # "tool", Orphans(l) = {}
  PROVE  Orphans(Append(l, m)) = {}
  <1> DEFINE k == Append(l, m)
  <1>1. /\ DOMAIN l = 1 .. Len(l) /\ DOMAIN k = 1 .. Len(l) + 1 /\ Len(l) \in Nat
        /\ k[Len(l) + 1] = m /\ \A i \in 1 .. Len(l) : k[i] = l[i]
        /\ k \in Seq(Messages)
    BY AppendShape
  <1> HIDE DEF k
  <1>2. ASSUME NEW i \in 1 .. Len(l) + 1, k[i].role = "tool"
        PROVE  InPlace(k, i)
    <2>1. i \in 1 .. Len(l)
      BY <1>1, <1>2
    <2>2. InPlace(l, i)
      BY <1>1, <1>2, <2>1, OrphansNone
    <2>3. k[i] = l[i] /\ \A a \in 1 .. i - 1 : k[a] = l[a] /\ Asked(k, a) = Asked(l, a)
      BY <1>1, <2>1 DEF Asked
    <2>4. \A a \in 1 .. i - 1 : \A b \in a + 1 .. i - 1 : b \in 1 .. i - 1
      BY <1>1
    <2>5. QED
      BY <2>2, <2>3, <2>4 DEF InPlace
  <1>3. QED
    BY <1>1, <1>2, OrphansNone DEF k

(* A batch of results.                                                     *)
LEMMA MessageFields ==
  ASSUME NEW m \in Messages
  PROVE  /\ m.n \in Numbers /\ m.calls \in Seq(Numbers) /\ m.covers \in SUBSET Numbers
         /\ m.safe \in SUBSET Numbers /\ m.role \in Roles /\ m.body \in Bodies
  BY DEF Messages

LEMMA EntryType ==
  ASSUME NEW role \in Roles, NEW n \in Numbers
  PROVE  /\ Entry(role, n) \in Messages /\ Entry(role, n).role = role /\ Entry(role, n).n = n
         /\ Entry(role, n).calls = <<>> /\ Entry(role, n).covers = {}
  BY DEF Entry, Messages, Bodies

LEMMA AnswersShape ==
  ASSUME NEW calls \in Seq(Numbers)
  PROVE  /\ Answers(calls) \in Seq(Messages) /\ Len(Answers(calls)) = Len(calls)
         /\ DOMAIN Answers(calls) = 1 .. Len(calls) /\ DOMAIN calls = 1 .. Len(calls)
         /\ Len(calls) \in Nat
         /\ \A k \in 1 .. Len(calls) :
               /\ calls[k] \in Numbers
               /\ Answers(calls)[k] = Entry("tool", calls[k])
               /\ Answers(calls)[k].role = "tool" /\ Answers(calls)[k].n = calls[k]
               /\ Answers(calls)[k].calls = <<>> /\ Answers(calls)[k].covers = {}
  <1>1. DOMAIN calls = 1 .. Len(calls) /\ Len(calls) \in Nat /\ \A k \in 1 .. Len(calls) : calls[k] \in Numbers
    OBVIOUS
  <1>2. \A k \in 1 .. Len(calls) :
               /\ Entry("tool", calls[k]) \in Messages
               /\ Entry("tool", calls[k]).role = "tool" /\ Entry("tool", calls[k]).n = calls[k]
               /\ Entry("tool", calls[k]).calls = <<>> /\ Entry("tool", calls[k]).covers = {}
    <2>1. "tool" \in Roles
      BY DEF Roles
    <2>2. QED
      BY <1>1, <2>1, EntryType
  <1>3. /\ Answers(calls) \in [1 .. Len(calls) -> Messages]
        /\ \A k \in 1 .. Len(calls) : Answers(calls)[k] = Entry("tool", calls[k])
    BY <1>1, <1>2 DEF Answers
  <1>4. /\ Answers(calls) \in Seq(Messages) /\ Len(Answers(calls)) = Len(calls)
        /\ DOMAIN Answers(calls) = 1 .. Len(calls)
    BY <1>1, <1>3, FunctionIsSeq
  <1>5. QED
    BY <1>1, <1>2, <1>3, <1>4

(* How the indices of a concatenation correspond to those of its parts.    *)
Joins(l, m, k) ==
    /\ Len(l) \in Nat /\ Len(m) \in Nat
    /\ DOMAIN l = 1 .. Len(l) /\ DOMAIN m = 1 .. Len(m)
    /\ DOMAIN k = 1 .. Len(l) + Len(m) /\ Len(k) = Len(l) + Len(m)
    /\ \A i \in 1 .. Len(l) : k[i] = l[i]
    /\ \A i \in 1 .. Len(m) : k[Len(l) + i] = m[i]
    /\ \A i \in 1 .. Len(l) + Len(m) : i \in 1 .. Len(l) \/ i - Len(l) \in 1 .. Len(m)
LEMMA ConcatShape ==
  ASSUME NEW S, NEW l \in Seq(S), NEW m \in Seq(S)
  PROVE  l \o m \in Seq(S) /\ Joins(l, m, l \o m)
  BY DEF Joins

(* The results of a batch answer the message that stands before them, and  *)
(* with it the whole list.                                                 *)
BatchOf(l, calls, k) ==
    /\ k \in Seq(Messages) /\ Len(l) \in Nat \ {0} /\ Len(calls) \in Nat
    /\ DOMAIN l = 1 .. Len(l) /\ DOMAIN calls = 1 .. Len(calls)
    /\ DOMAIN k = 1 .. Len(l) + Len(calls)
    /\ \A i \in 1 .. Len(l) : k[i] = l[i] /\ Asked(k, i) = Asked(l, i) /\ i \in DOMAIN k
    /\ \A i \in 1 .. Len(calls) :
          /\ k[Len(l) + i].role = "tool" /\ k[Len(l) + i].n = calls[i]
          /\ Len(l) + i \in DOMAIN k
          /\ Asked(k, Len(l) + i) = {} /\ k[Len(l) + i].covers = {}
    /\ \A i \in DOMAIN k : \/ i \in 1 .. Len(l)
                           \/ i - Len(l) \in 1 .. Len(calls) /\ i = Len(l) + (i - Len(l))
    /\ Asked(l, Len(l)) = ToSet(calls)
LEMMA BatchShape ==
  ASSUME NEW l \in Seq(Messages), l # <<>>, NEW calls \in Seq(Numbers), calls = l[Len(l)].calls
  PROVE  BatchOf(l, calls, l \o Answers(calls))
  <1>0. PICK k : k = l \o Answers(calls)
    OBVIOUS
  <1>1. /\ Answers(calls) \in Seq(Messages) /\ Len(Answers(calls)) = Len(calls)
        /\ DOMAIN calls = 1 .. Len(calls) /\ Len(calls) \in Nat
        /\ \A i \in 1 .. Len(calls) :
               /\ Answers(calls)[i].role = "tool" /\ Answers(calls)[i].n = calls[i]
               /\ Answers(calls)[i].calls = <<>> /\ Answers(calls)[i].covers = {}
    BY AnswersShape
  <1>2. /\ k \in Seq(Messages) /\ Len(l) \in Nat
        /\ DOMAIN l = 1 .. Len(l) /\ DOMAIN k = 1 .. Len(l) + Len(calls)
        /\ \A i \in 1 .. Len(l) : k[i] = l[i]
        /\ \A i \in 1 .. Len(calls) : k[Len(l) + i] = Answers(calls)[i]
        /\ \A i \in 1 .. Len(l) + Len(calls) : i \in 1 .. Len(l) \/ i - Len(l) \in 1 .. Len(calls)
    <2>1. PICK m \in Seq(Messages) : m = Answers(calls)
      BY <1>1
    <2>2. k \in Seq(Messages) /\ Joins(l, m, k)
      BY <1>0, <2>1, ConcatShape
    <2>3. Len(m) = Len(calls) /\ \A i \in 1 .. Len(calls) : m[i] = Answers(calls)[i]
      BY <1>1, <2>1
    <2>4. QED
      BY <2>2, <2>3 DEF Joins
  <1>3. Len(l) # 0
    OBVIOUS
  <1>4. \A i \in 1 .. Len(l) : Asked(k, i) = Asked(l, i) /\ i \in DOMAIN k
    BY <1>1, <1>2 DEF Asked
  <1>5. \A i \in 1 .. Len(calls) : Len(l) + i \in DOMAIN k
    BY <1>1, <1>2
  <1>6. ToSet(<<>>) = {}
    BY DEF ToSet
  <1>7. \A i \in 1 .. Len(calls) : Asked(k, Len(l) + i) = {}
    BY <1>1, <1>2, <1>6 DEF Asked
  <1>8. \A i \in DOMAIN k : i = Len(l) + (i - Len(l))
    BY <1>1, <1>2
  <1>9. Asked(l, Len(l)) = ToSet(calls)
    BY DEF Asked
  <1>10. QED
    BY <1>0, <1>1, <1>2, <1>3, <1>4, <1>5, <1>7, <1>8, <1>9 DEF BatchOf

LEMMA BatchAnswers ==
  ASSUME NEW l \in Seq(Messages), l # <<>>, NEW calls \in Seq(Numbers), calls = l[Len(l)].calls,
         PendingOf(l) \subseteq ToSet(calls)
  PROVE  PendingOf(l \o Answers(calls)) = {}
  <1>0. PICK k : k = l \o Answers(calls)
    OBVIOUS
  <1>a. BatchOf(l, calls, k)
    BY <1>0, BatchShape
  <1>1. /\ DOMAIN l = 1 .. Len(l) /\ DOMAIN calls = 1 .. Len(calls) /\ Len(l) \in Nat /\ Len(calls) \in Nat
        /\ \A i \in 1 .. Len(l) : k[i] = l[i] /\ Asked(k, i) = Asked(l, i) /\ i \in DOMAIN k
        /\ \A i \in 1 .. Len(calls) :
               /\ k[Len(l) + i].role = "tool" /\ k[Len(l) + i].n = calls[i]
               /\ Len(l) + i \in DOMAIN k /\ Asked(k, Len(l) + i) = {}
        /\ \A i \in DOMAIN k : \/ i \in 1 .. Len(l)
                               \/ i - Len(l) \in 1 .. Len(calls) /\ i = Len(l) + (i - Len(l))
    BY <1>a DEF BatchOf
  <1>2. ASSUME NEW i \in DOMAIN k, NEW c \in Asked(k, i)
        PROVE  \E j \in DOMAIN k : j > i /\ Answering(k[j], c)
    <2>1. i \in 1 .. Len(l) /\ c \in Asked(l, i)
      BY <1>1, <1>2
    <2>2. CASE \E j \in 1 .. Len(l) : j > i /\ Answering(l[j], c)
      BY <1>1, <2>2
    <2>3. CASE ~ \E j \in 1 .. Len(l) : j > i /\ Answering(l[j], c)
      <3>1. c \in PendingOf(l)
        BY <1>1, <2>1, <2>3, PendingIff
      <3>2. PICK j \in 1 .. Len(calls) : calls[j] = c
        BY <1>1, <3>1 DEF ToSet
      <3>3. Len(l) + j > i
        BY <1>1, <2>1
      <3>4. QED
        BY <1>1, <3>2, <3>3 DEF Answering
    <2>4. QED
      BY <2>2, <2>3
  <1>3. QED
    BY <1>0, <1>2, PendingNone

LEMMA BatchOrphans ==
  ASSUME NEW l \in Seq(Messages), l # <<>>, NEW calls \in Seq(Numbers), calls = l[Len(l)].calls,
         Distinct(calls), Orphans(l) = {}
  PROVE  Orphans(l \o Answers(calls)) = {}
  <1>0. PICK k : k = l \o Answers(calls)
    OBVIOUS
  <1>a. BatchOf(l, calls, k)
    BY <1>0, BatchShape
  <1>1. /\ k \in Seq(Messages) /\ Len(l) \in Nat \ {0} /\ Len(calls) \in Nat
        /\ DOMAIN l = 1 .. Len(l) /\ DOMAIN calls = 1 .. Len(calls)
        /\ \A i \in 1 .. Len(l) : k[i] = l[i] /\ Asked(k, i) = Asked(l, i)
        /\ \A i \in 1 .. Len(calls) : k[Len(l) + i].role = "tool" /\ k[Len(l) + i].n = calls[i]
        /\ \A i \in DOMAIN k : \/ i \in 1 .. Len(l)
                               \/ i - Len(l) \in 1 .. Len(calls) /\ i = Len(l) + (i - Len(l))
        /\ Asked(l, Len(l)) = ToSet(calls)
    BY <1>a DEF BatchOf
  <1>2. ASSUME NEW i \in DOMAIN k, k[i].role = "tool"
        PROVE  InPlace(k, i)
    <2>1. CASE i \in 1 .. Len(l)
      <3>1. InPlace(l, i)
        BY <1>1, <1>2, <2>1, OrphansNone
      <3>2. k[i] = l[i] /\ \A a \in 1 .. i - 1 : k[a] = l[a] /\ Asked(k, a) = Asked(l, a)
        BY <1>1, <2>1
      <3>3. \A a \in 1 .. i - 1 : \A b \in a + 1 .. i - 1 : b \in 1 .. i - 1
        BY <1>1, <2>1
      <3>4. QED
        BY <3>1, <3>2, <3>3 DEF InPlace
    <2>2. CASE i \notin 1 .. Len(l)
      <3>1. PICK p \in 1 .. Len(calls) : i = Len(l) + p
        BY <1>1, <2>2
      <3>2. k[i].n = calls[p] /\ calls[p] \in Asked(k, Len(l))
        <4>1. calls[p] \in ToSet(calls)
          BY <1>1, <3>1 DEF ToSet
        <4>2. Len(l) \in 1 .. Len(l)
          BY <1>1
        <4>3. QED
          BY <1>1, <3>1, <4>1, <4>2
      <3>3. Len(l) \in 1 .. i - 1
        BY <1>1, <3>1
      <3>4. ASSUME NEW b \in Len(l) + 1 .. i - 1
            PROVE  ~Answering(k[b], calls[p])
        <4>1. PICK q \in 1 .. Len(calls) : b = Len(l) + q /\ q # p
          <5>1. b - Len(l) \in 1 .. Len(calls) /\ b = Len(l) + (b - Len(l)) /\ b - Len(l) # p
            BY <1>1, <3>1
          <5>2. QED
            BY <5>1
        <4>2. k[b].n = calls[q] /\ calls[q] # calls[p]
          BY <1>1, <4>1 DEF Distinct
        <4>3. QED
          BY <4>2 DEF Answering
      <3>5. QED
        BY <3>2, <3>3, <3>4 DEF InPlace
    <2>3. QED
      BY <2>1, <2>2
  <1>3. QED
    BY <1>0, <1>1, <1>2, OrphansNone

(* What a list accounts for grows with it.                                 *)
LEMMA IdsGrow ==
  ASSUME NEW l, NEW k, DOMAIN l \subseteq DOMAIN k,
         \A i \in DOMAIN l : k[i].n = l[i].n /\ k[i].covers = l[i].covers
  PROVE  IdsOf(l) \subseteq IdsOf(k)
  <1>1. \A i \in DOMAIN l : i \in DOMAIN k
    OBVIOUS
  <1>2. QED
    BY <1>1 DEF IdsOf

LEMMA IdsIn ==
  ASSUME NEW l
  PROVE  /\ \A i \in DOMAIN l : l[i].n \in IdsOf(l) /\ l[i].covers \subseteq IdsOf(l)
         /\ \A x \in IdsOf(l) : \E i \in DOMAIN l : x = l[i].n \/ x \in l[i].covers
  BY DEF IdsOf

LEMMA IdsType ==
  ASSUME NEW l \in Seq(Messages)
  PROVE  IdsOf(l) \subseteq Numbers
  <1>1. \A i \in DOMAIN l : l[i] \in Messages
    OBVIOUS
  <1>2. QED
    BY <1>1, MessageFields, IdsIn

-----------------------------------------------------------------------------
(* Rebuilding a list from what is stored.                                  *)

(* What is stored: no results, and no call twice in a message.             *)
Steps == {m \in Messages : m.role # "tool" /\ Distinct(m.calls)}
Block(m) == <<m>> \o Answers(m.calls)
Blocks(s) == [i \in DOMAIN s |-> Block(s[i])]

LEMMA BlockType ==
  ASSUME NEW m \in Messages
  PROVE  Block(m) \in Seq(Messages) /\ Answers(m.calls) \in Seq(Messages)
  <1>1. Answers(m.calls) \in Seq(Messages)
    BY MessageFields, AnswersShape
  <1>2. <<m>> \in Seq(Messages)
    OBVIOUS
  <1>3. \A k \in Seq(Messages) : <<m>> \o k \in Seq(Messages)
    BY <1>2
  <1>4. QED
    BY <1>1, <1>3 DEF Block

LEMMA AppendInside ==
  ASSUME NEW S, NEW l \in Seq(S), NEW m \in S, NEW k \in Seq(S)
  PROVE  l \o (<<m>> \o k) = Append(l, m) \o k
  OBVIOUS

LEMMA StepPaired ==
  ASSUME NEW l \in Seq(Messages), Paired(l), NEW m \in Steps
  PROVE  Paired(l \o Block(m)) /\ l \o Block(m) \in Seq(Messages)
  <1>0. m \in Messages /\ m.role # "tool" /\ Distinct(m.calls) /\ m.calls \in Seq(Numbers)
    BY MessageFields DEF Steps
  <1>1. PICK k \in Seq(Messages) : k = Append(l, m)
    BY <1>0, AppendShape
  <1>2. k # <<>> /\ k[Len(k)] = m
    <2>1. Len(k) = Len(l) + 1 /\ k[Len(l) + 1] = m /\ Len(l) \in Nat
      BY <1>0, <1>1, AppendShape
    <2>2. QED
      BY <2>1
  <1>3. PendingOf(k) \subseteq ToSet(m.calls)
    BY <1>0, <1>1, AppendPending DEF Paired
  <1>4. Orphans(k) = {}
    BY <1>0, <1>1, AppendOrphans DEF Paired
  <1>5. Paired(k \o Answers(m.calls))
    BY <1>0, <1>2, <1>3, <1>4, BatchAnswers, BatchOrphans DEF Paired
  <1>6. l \o Block(m) = k \o Answers(m.calls) /\ k \o Answers(m.calls) \in Seq(Messages)
    <2>1. PICK a \in Seq(Messages) : a = Answers(m.calls)
      BY <1>0, BlockType
    <2>2. l \o (<<m>> \o a) = Append(l, m) \o a /\ Append(l, m) \o a \in Seq(Messages)
      <3>1. Append(l, m) \in Seq(Messages)
        BY <1>0, AppendShape
      <3>2. Append(l, m) \o a \in Seq(Messages)
        BY <3>1, ConcatShape
      <3>3. l \o (<<m>> \o a) = Append(l, m) \o a
        BY <1>0, AppendInside
      <3>4. QED
        BY <3>2, <3>3
    <2>3. QED
      BY <1>1, <2>1, <2>2 DEF Block
  <1>7. QED
    BY <1>5, <1>6

LEMMA BlocksType ==
  ASSUME NEW s \in Seq(Messages)
  PROVE  Blocks(s) \in Seq(Seq(Messages))
  <1>1. Len(s) \in Nat /\ DOMAIN s = 1 .. Len(s) /\ \A i \in DOMAIN s : s[i] \in Messages
    OBVIOUS
  <1>2. \A i \in DOMAIN s : Block(s[i]) \in Seq(Messages)
    BY <1>1, BlockType
  <1>3. Blocks(s) \in [1 .. Len(s) -> Seq(Messages)]
    BY <1>1, <1>2 DEF Blocks
  <1>4. QED
    BY <1>1, <1>3, FunctionIsSeq

LEMMA FlatPaired ==
  ASSUME NEW s \in Seq(Steps), NEW l \in Seq(Messages), Paired(l)
  PROVE  /\ FlattenSeq(Blocks(s)) \in Seq(Messages)
         /\ Paired(l \o FlattenSeq(Blocks(s)))
  <1> DEFINE F(t) == FlattenSeq(Blocks(t))
             T == {t \in Seq(Steps) : F(t) \in Seq(Messages) /\ Paired(l \o F(t))}
  <1>1. <<>> \in T
    <2>1. Blocks(<<>>) = <<>> /\ <<>> \in Seq(Steps) /\ <<>> \in Seq(Messages) /\ l \o <<>> = l
      BY DEF Blocks
    <2>2. F(<<>>) = <<>>
      BY <2>1, FlatEmpty
    <2>3. QED
      BY <2>1, <2>2
  <1>2. ASSUME NEW t \in Seq(Steps), NEW x \in Steps, t \in T
        PROVE  Append(t, x) \in T
    <2>1. t \in Seq(Messages) /\ x \in Messages /\ Append(t, x) \in Seq(Steps)
      BY DEF Steps
    <2>2. Blocks(Append(t, x)) = Append(Blocks(t), Block(x))
      <3>1. PICK u \in Seq(Messages) : u = Append(t, x)
        BY <2>1, AppendShape
      <3>2. /\ DOMAIN u = 1 .. Len(t) + 1 /\ DOMAIN t = 1 .. Len(t) /\ Len(t) \in Nat
            /\ u[Len(t) + 1] = x /\ \A i \in 1 .. Len(t) : u[i] = t[i]
        BY <2>1, <3>1, AppendShape
      <3>3. PICK bs \in Seq(Seq(Messages)) : bs = Blocks(t)
        BY <2>1, BlocksType
      <3>4. PICK cs \in Seq(Seq(Messages)) : cs = Blocks(u)
        BY BlocksType
      <3>5. PICK b \in Seq(Messages) : b = Block(x)
        BY <2>1, BlockType
      <3>6. DOMAIN bs = 1 .. Len(t) /\ \A i \in 1 .. Len(t) : bs[i] = Block(t[i])
        BY <3>2, <3>3 DEF Blocks
      <3>7. DOMAIN cs = 1 .. Len(t) + 1 /\ \A i \in 1 .. Len(t) + 1 : cs[i] = Block(u[i])
        BY <3>2, <3>4 DEF Blocks
      <3>8. cs[Len(t) + 1] = b /\ \A i \in 1 .. Len(t) : cs[i] = bs[i]
        BY <3>2, <3>5, <3>6, <3>7
      <3>9. Len(bs) = Len(t) /\ Len(cs) = Len(t) + 1
        BY <3>2, <3>6, <3>7
      <3>10. cs = Append(bs, b)
        BY <3>2, <3>8, <3>9
      <3>11. QED
        BY <3>1, <3>3, <3>4, <3>5, <3>10
    <2>3. F(Append(t, x)) = F(t) \o Block(x)
      <3>1. Blocks(t) \in Seq(Seq(Messages)) /\ Block(x) \in Seq(Messages)
        BY <2>1, BlocksType, BlockType
      <3>2. QED
        BY <2>2, <3>1, FlatAppend
    <2>4. F(t) \in Seq(Messages) /\ Paired(l \o F(t))
      BY <1>2
    <2> HIDE DEF F
    <2>5. PICK f \in Seq(Messages) : f = F(t)
      BY <2>4
    <2>6. PICK b \in Seq(Messages) : b = Block(x)
      BY <2>1, BlockType
    <2>7. l \o f \in Seq(Messages) /\ f \o b \in Seq(Messages) /\ l \o (f \o b) = (l \o f) \o b
      OBVIOUS
    <2>8. Paired((l \o f) \o b)
      BY <2>4, <2>5, <2>6, <2>7, StepPaired
    <2>9. F(Append(t, x)) = f \o b
      BY <2>3, <2>5, <2>6
    <2>10. QED
      BY <2>1, <2>7, <2>8, <2>9
  <1> HIDE DEF T, F
  <1>3. Seq(Steps) \subseteq T
    BY <1>1, <1>2, SeqInduction
  <1>4. QED
    BY <1>3 DEF T, F

(* A list in which everything is paired needs no repair.                   *)
LEMMA RepairPaired ==
  ASSUME NEW l \in Seq(Messages), Paired(l)
  PROVE  Repair(l) = l
  <1>1. \A i \in DOMAIN l : Owed(l, i) = <<>>
    <2>1. \A i \in DOMAIN l : l[i].calls \in Seq(Numbers)
      <3>1. \A i \in DOMAIN l : l[i] \in Messages
        OBVIOUS
      <3>2. QED
        BY <3>1, MessageFields
    <2>2. PendingOf(l) = {}
      BY DEF Paired
    <2>3. ASSUME NEW c \in Seq(Numbers) PROVE Keeping(c, {}) = <<>>
      BY KeepingNone
    <2>4. QED
      BY <2>1, <2>2, <2>3 DEF Owed
  <1>2. \A j \in DOMAIN l : OwedAt(l, j) = <<>>
    BY <1>1 DEF OwedAt
  <1>3. Answers(<<>>) = <<>>
    BY DEF Answers
  <1>4. \A m \in Messages : <<m>> \o <<>> = <<m>>
    OBVIOUS
  <1>5. \A j \in DOMAIN l :
           (IF j \in Orphans(l) THEN <<>> ELSE <<l[j]>>) \o Answers(OwedAt(l, j)) = <<l[j]>>
    <2>1. \A j \in DOMAIN l : l[j] \in Messages /\ j \notin Orphans(l)
      BY DEF Paired
    <2>2. QED
      BY <1>2, <1>3, <1>4, <2>1
  <1>6. Repair(l) = FlattenSeq([j \in DOMAIN l |-> <<l[j]>>])
    BY <1>5, Zenon DEF Repair
  <1>7. QED
    BY <1>6, FlatSingles

LEMMA ToApiIsFlat ==
  ASSUME NEW s \in Seq(Steps)
  PROVE  /\ ToApi(s) = FlattenSeq(Blocks(s)) /\ ToApi(s) \in Seq(Messages)
         /\ Paired(ToApi(s))
  <1>1. <<>> \in Seq(Messages) /\ Paired(<<>>)
    BY DEF Paired, PendingOf, Orphans, Tools
  <1>2. PICK f \in Seq(Messages) : f = FlattenSeq(Blocks(s))
    BY <1>1, FlatPaired
  <1>3. Paired(f)
    <2>1. <<>> \o f = f
      OBVIOUS
    <2>2. Paired(<<>> \o f)
      BY <1>1, <1>2, FlatPaired
    <2>3. QED
      BY <2>1, <2>2
  <1>4. ToApi(s) = Repair(f)
    BY <1>2 DEF ToApi, Blocks, Block
  <1>5. Repair(f) = f
    BY <1>3, RepairPaired
  <1>6. QED
    BY <1>2, <1>3, <1>4, <1>5

(* The list a turn starts with.                                            *)
LEMMA RebuiltPaired ==
  ASSUME NEW s \in Seq(Steps), point \in [at : Nat, covers : SUBSET Numbers], NEW terminal
  PROVE  /\ Rebuilt(s, terminal) \in Seq(Messages) /\ Paired(Rebuilt(s, terminal))
         /\ Rebuilt(s, terminal) # <<>> /\ Rebuilt(s, terminal)[1].calls = <<>>
  <1> DEFINE Good(l) == /\ l \in Seq(Messages) /\ Paired(l)
                        /\ l # <<>> /\ l[1].calls = <<>>
  <1>1. System \in Messages /\ System.role = "system" /\ System.calls = <<>>
    <2>1. "system" \in Roles /\ 0 \in Numbers
      BY ListAssumption DEF Roles, Numbers
    <2>2. QED
      BY <2>1, EntryType DEF System
  <1>2. ASSUME NEW m \in Messages, m.role # "tool", m.calls = <<>>, NEW l \in Seq(Messages), Paired(l)
        PROVE  Append(l, m) \in Seq(Messages) /\ Paired(Append(l, m))
    <2>1. ToSet(<<>>) = {}
      BY DEF ToSet
    <2>2. PendingOf(Append(l, m)) = {} /\ Orphans(Append(l, m)) = {}
      BY <1>2, <2>1, AppendPending, AppendOrphans DEF Paired
    <2>3. QED
      BY <1>2, <2>2, AppendShape DEF Paired
  <1>3. Good(<<System>>)
    <2>1. <<>> \in Seq(Messages) /\ Paired(<<>>)
      BY DEF Paired, PendingOf, Orphans, Tools
    <2>2. <<System>> = Append(<<>>, System) /\ <<System>>[1] = System /\ <<System>> # <<>>
      BY <1>1
    <2>3. QED
      BY <1>1, <1>2, <2>1, <2>2
  <1>4. ASSUME NEW l, Good(l), NEW t \in Seq(Steps)
        PROVE  Good(l \o ToApi(t))
    <2>1. PICK f \in Seq(Messages) : f = ToApi(t)
      BY ToApiIsFlat
    <2>2. Paired(l \o f)
      BY <1>4, <2>1, ToApiIsFlat, FlatPaired
    <2>3. l \o f \in Seq(Messages) /\ l \o f # <<>> /\ (l \o f)[1] = l[1]
      BY <1>4
    <2>4. QED
      BY <1>4, <2>1, <2>2, <2>3
  <1>5. CASE ~(terminal /\ point # NoPoint)
    <2>1. Rebuilt(s, terminal) = <<System>> \o ToApi(s)
      BY <1>5 DEF Rebuilt
    <2>2. QED
      BY <1>3, <1>4, <2>1
  <1>6. CASE terminal /\ point # NoPoint
    <2> DEFINE m == [Entry("summary", 0) EXCEPT !.covers = point.covers]
               t == SubSeq(s, point.at + 1, Len(s))
    <2>1. m \in Messages /\ m.role # "tool" /\ m.calls = <<>>
      <3>1. "summary" \in Roles /\ "summary" # "tool" /\ 0 \in Numbers
        BY ListAssumption DEF Roles, Numbers
      <3>2. PICK c \in SUBSET Numbers : c = point.covers
        OBVIOUS
      <3>3. /\ [Entry("summary", 0) EXCEPT !.covers = c] \in Messages
            /\ [Entry("summary", 0) EXCEPT !.covers = c].role = "summary"
            /\ [Entry("summary", 0) EXCEPT !.covers = c].calls = <<>>
        <4>1. <<>> \in Seq(Numbers)
          OBVIOUS
        <4>2. QED
          BY <3>1, <4>1 DEF Entry, Messages, Bodies
      <3>4. QED
        BY <3>1, <3>2, <3>3
    <2>2. t \in Seq(Steps)
      <3>1. PICK a \in Nat : a = point.at
        OBVIOUS
      <3>2. SubSeq(s, a + 1, Len(s)) \in Seq(Steps)
        OBVIOUS
      <3>3. QED
        BY <3>1, <3>2
    <2>3. Rebuilt(s, terminal) = <<System>> \o (<<m>> \o ToApi(t))
      BY <1>6 DEF Rebuilt
    <2> HIDE DEF m, t
    <2>4. Append(<<System>>, m) \in Seq(Messages) /\ Paired(Append(<<System>>, m))
      BY <1>2, <1>3, <2>1
    <2>5. Good(Append(<<System>>, m))
      <3>1. Append(<<System>>, m) # <<>> /\ Append(<<System>>, m)[1] = System
        BY <1>1, <2>1
      <3>2. QED
        BY <1>1, <2>4, <3>1
    <2>6. <<System>> \o (<<m>> \o ToApi(t)) = Append(<<System>>, m) \o ToApi(t)
      BY <1>3, <2>1, <2>2, AppendInside, ToApiIsFlat
    <2>7. QED
      BY <1>4, <2>2, <2>3, <2>5, <2>6
  <1>7. QED
    BY <1>5, <1>6

-----------------------------------------------------------------------------
(* Shortening a list.                                                      *)

(* Masking and pruning leave everything but bodies alone.                  *)
SameBones(l, k) ==
    /\ k \in Seq(Messages) /\ DOMAIN k = DOMAIN l
    /\ \A i \in DOMAIN l : /\ k[i].role = l[i].role /\ k[i].n = l[i].n
                           /\ k[i].calls = l[i].calls /\ k[i].covers = l[i].covers
LEMMA BonesTell ==
  ASSUME NEW l \in Seq(Messages), NEW k, SameBones(l, k)
  PROVE  PendingOf(k) = PendingOf(l) /\ Orphans(k) = Orphans(l) /\ IdsOf(k) = IdsOf(l)
  <1>1. DOMAIN k = DOMAIN l /\ \A i \in DOMAIN l : k[i].role = l[i].role /\ k[i].n = l[i].n
                                                  /\ k[i].covers = l[i].covers /\ Asked(k, i) = Asked(l, i)
    BY DEF SameBones, Asked
  <1>2. PendingOf(k) = PendingOf(l)
    BY <1>1 DEF PendingOf
  <1>3. IdsOf(k) = IdsOf(l)
    BY <1>1 DEF IdsOf
  <1>4. DOMAIN l = 1 .. Len(l) /\ Len(l) \in Nat /\ k \in Seq(Messages)
    BY DEF SameBones
  <1>5. \A i \in DOMAIN l : \A a \in 1 .. i - 1 : \A b \in a + 1 .. i - 1 : a \in DOMAIN l /\ b \in DOMAIN l
    BY <1>4
  <1>6. ASSUME NEW i \in DOMAIN l PROVE InPlace(k, i) <=> InPlace(l, i)
    <2>1. \A a \in 1 .. i - 1 : a \in DOMAIN l /\ Asked(k, a) = Asked(l, a)
      BY <1>1, <1>4
    <2>2. k[i].n = l[i].n
      BY <1>1
    <2>3. \A a \in 1 .. i - 1 : \A b \in a + 1 .. i - 1 :
             Answering(k[b], k[i].n) <=> Answering(l[b], l[i].n)
      BY <1>1, <1>5, <2>2 DEF Answering
    <2>4. QED
      BY <2>1, <2>2, <2>3 DEF InPlace
  <1>7. Orphans(k) = Orphans(l)
    BY <1>1, <1>4, <1>6, OrphanIff
  <1>8. QED
    BY <1>2, <1>3, <1>7

LEMMA ShorterBones ==
  ASSUME list \in Seq(Messages), NEW k \in Shorter
  PROVE  SameBones(list, k)
  <1>1. Len(list) \in Nat /\ DOMAIN list = 1 .. Len(list) /\ \A i \in DOMAIN list : list[i] \in Messages
    OBVIOUS
  <1>2. ASSUME NEW at, NEW body \in Bodies, k = [i \in DOMAIN list |->
                    IF i \in at THEN [list[i] EXCEPT !.body = body] ELSE list[i]]
        PROVE  SameBones(list, k)
    <2>1. \A m \in Messages : /\ [m EXCEPT !.body = body] \in Messages
                              /\ [m EXCEPT !.body = body].role = m.role
                              /\ [m EXCEPT !.body = body].n = m.n
                              /\ [m EXCEPT !.body = body].calls = m.calls
                              /\ [m EXCEPT !.body = body].covers = m.covers
      BY <1>2 DEF Messages
    <2>2. k \in [1 .. Len(list) -> Messages]
      BY <1>1, <1>2, <2>1
    <2>3. k \in Seq(Messages)
      BY <1>1, <2>2, FunctionIsSeq
    <2>4. QED
      BY <1>1, <1>2, <2>1, <2>3 DEF SameBones
  <1>3. CASE k = list
    BY <1>3 DEF SameBones
  <1>4. ASSUME NEW keep, k = Masked(list, keep)
        PROVE  SameBones(list, k)
    <2> DEFINE at == { i \in OldTools(list, keep) : ~Protected(list, i) }
    <2>1. k = [i \in DOMAIN list |-> IF i \in at THEN [list[i] EXCEPT !.body = "ref"] ELSE list[i]]
      BY <1>4 DEF Masked
    <2>2. "ref" \in Bodies
      BY DEF Bodies
    <2> HIDE DEF at
    <2>3. QED
      BY <1>2, <2>1, <2>2
  <1>5. ASSUME NEW gone, k = Pruned(list, gone)
        PROVE  SameBones(list, k)
    <2>1. "pruned" \in Bodies
      BY DEF Bodies
    <2>2. QED
      BY <1>2, <1>5, <2>1 DEF Pruned
  <1>6. QED
    BY <1>3, <1>4, <1>5 DEF Shorter

(* Cutting out what comes before u and giving it to a summary.             *)
Cut(l, label, u) == <<Head(l), Summary(label, SubSeq(l, 2, u - 1))>> \o SubSeq(l, u, Len(l))

(* Nothing the list accounts for is lost, and no call is left open.        *)
Survives(l, k) ==
    /\ k \in Seq(Messages) /\ IdsOf(l) \subseteq IdsOf(k)
    /\ l # <<>> /\ l[1].calls = <<>> =>
          k # <<>> /\ k[1].calls = <<>> /\ (PendingOf(l) = {} => PendingOf(k) = {})

LEMMA SubSeqShape ==
  ASSUME NEW S, NEW l \in Seq(S), NEW a \in 1 .. Len(l) + 1, NEW b \in a - 1 .. Len(l)
  PROVE  /\ SubSeq(l, a, b) \in Seq(S) /\ DOMAIN SubSeq(l, a, b) = 1 .. b - a + 1
         /\ Len(SubSeq(l, a, b)) = b - a + 1
         /\ \A j \in 1 .. b - a + 1 : SubSeq(l, a, b)[j] = l[a + j - 1]
  OBVIOUS

LEMMA SummaryType ==
  ASSUME NEW label \in {"summary", "replay"}, NEW m \in Seq(Messages)
  PROVE  /\ Summary(label, m) \in Messages /\ Summary(label, m).calls = <<>>
         /\ Summary(label, m).covers = IdsOf(m) /\ Summary(label, m).role = label
  <1>1. PICK c \in SUBSET Numbers : c = IdsOf(m)
    BY IdsType
  <1>2. label \in Roles /\ 0 \in Numbers
    BY ListAssumption DEF Roles, Numbers
  <1>3. LET s == [Entry(label, 0) EXCEPT !.covers = c]
        IN  s \in Messages /\ s.calls = <<>> /\ s.covers = c /\ s.role = label
    <2>1. <<>> \in Seq(Numbers)
      OBVIOUS
    <2>2. QED
      BY <1>2, <2>1 DEF Entry, Messages, Bodies
  <1>4. QED
    BY <1>1, <1>3 DEF Summary

LEMMA CutSurvives ==
  ASSUME NEW l \in Seq(Messages), l # <<>>, NEW label \in {"summary", "replay"},
         NEW u \in 2 .. Len(l) + 1
  PROVE  Survives(l, Cut(l, label, u))
  <1>1. Len(l) \in Nat \ {0} /\ DOMAIN l = 1 .. Len(l) /\ Head(l) = l[1] /\ l[1] \in Messages
    OBVIOUS
  <1>2. PICK m \in Seq(Messages) : /\ m = SubSeq(l, 2, u - 1) /\ DOMAIN m = 1 .. u - 2
                                   /\ \A j \in 1 .. u - 2 : m[j] = l[j + 1]
    <2>1. 2 \in 1 .. Len(l) + 1 /\ u - 1 \in 2 - 1 .. Len(l) /\ (u - 1) - 2 + 1 = u - 2
      BY <1>1
    <2>2. /\ SubSeq(l, 2, u - 1) \in Seq(Messages)
          /\ DOMAIN SubSeq(l, 2, u - 1) = 1 .. (u - 1) - 2 + 1
          /\ \A j \in 1 .. (u - 1) - 2 + 1 : SubSeq(l, 2, u - 1)[j] = l[2 + j - 1]
      BY <2>1, SubSeqShape
    <2>3. \A j \in 1 .. u - 2 : 2 + j - 1 = j + 1
      OBVIOUS
    <2>4. QED
      BY <2>1, <2>2, <2>3
  <1>3. PICK r \in Seq(Messages) : /\ r = SubSeq(l, u, Len(l)) /\ Len(r) = Len(l) - u + 1
                                   /\ \A j \in 1 .. Len(l) - u + 1 : r[j] = l[u + j - 1]
    <2>1. u \in 1 .. Len(l) + 1 /\ Len(l) \in u - 1 .. Len(l)
      BY <1>1
    <2>2. /\ SubSeq(l, u, Len(l)) \in Seq(Messages) /\ Len(SubSeq(l, u, Len(l))) = Len(l) - u + 1
          /\ \A j \in 1 .. Len(l) - u + 1 : SubSeq(l, u, Len(l))[j] = l[u + j - 1]
      BY <2>1, SubSeqShape
    <2>3. QED
      BY <2>2
  <1>4. PICK y \in Messages : /\ y = Summary(label, m) /\ y.calls = <<>> /\ y.covers = IdsOf(m)
    BY SummaryType
  <1>5. PICK p \in Seq(Messages) : p = <<l[1], y>> /\ Len(p) = 2 /\ p[1] = l[1] /\ p[2] = y
    <2>1. \A a, b \in Messages : /\ <<a, b>> \in Seq(Messages) /\ Len(<<a, b>>) = 2
                                 /\ <<a, b>>[1] = a /\ <<a, b>>[2] = b
      OBVIOUS
    <2>2. PICK a \in Messages : a = l[1]
      BY <1>1
    <2>3. QED
      BY <2>1, <2>2
  <1>6. PICK k \in Seq(Messages) : k = Cut(l, label, u) /\ Joins(p, r, k)
    BY <1>1, <1>2, <1>3, <1>4, <1>5, ConcatShape DEF Cut
  <1>7. /\ DOMAIN k = 1 .. Len(l) - u + 3 /\ k[1] = l[1] /\ k[2] = y
        /\ \A i \in u .. Len(l) : k[i - u + 3] = l[i] /\ i - u + 3 \in DOMAIN k
    <2>1. DOMAIN k = 1 .. 2 + (Len(l) - u + 1)
      BY <1>3, <1>5, <1>6 DEF Joins
    <2>2. k[1] = l[1] /\ k[2] = y
      BY <1>5, <1>6 DEF Joins
    <2>3. ASSUME NEW i \in u .. Len(l) PROVE k[i - u + 3] = l[i]
      <3>1. i - u + 1 \in 1 .. Len(l) - u + 1 /\ u + (i - u + 1) - 1 = i /\ 2 + (i - u + 1) = i - u + 3
        BY <1>1
      <3>2. k[2 + (i - u + 1)] = r[i - u + 1]
        BY <1>3, <1>5, <1>6, <3>1 DEF Joins
      <3>3. QED
        BY <1>3, <3>1, <3>2
    <2>4. QED
      BY <1>1, <2>1, <2>2, <2>3
  <1>8. \A i \in DOMAIN k :
           \/ i \in {1, 2}
           \/ i + u - 3 \in u .. Len(l) /\ k[i] = l[i + u - 3]
    <2>1. ASSUME NEW i \in DOMAIN k, i \notin {1, 2}
          PROVE  i + u - 3 \in u .. Len(l) /\ k[i] = l[i + u - 3]
      <3>0. i \in 3 .. Len(l) - u + 3 /\ Len(l) \in Nat /\ u \in Nat
        BY <1>1, <1>7, <2>1
      <3>1. i + u - 3 \in u .. Len(l) /\ (i + u - 3) - u + 3 = i
        BY <3>0
      <3>2. QED
        BY <1>7, <3>1
    <2>2. QED
      BY <2>1
  <1>9. IdsOf(l) \subseteq IdsOf(k)
    <2>1. ASSUME NEW i \in 1 .. Len(l)
          PROVE  l[i].n \in IdsOf(k) /\ l[i].covers \subseteq IdsOf(k)
      <3>1. CASE i = 1
        BY <1>1, <1>7, <3>1, IdsIn
      <3>2. CASE i \in 2 .. u - 1
        <4>1. i - 1 \in 1 .. u - 2 /\ m[i - 1] = l[i]
          BY <1>2, <3>2
        <4>2. l[i].n \in IdsOf(m) /\ l[i].covers \subseteq IdsOf(m)
          BY <1>2, <4>1, IdsIn
        <4>3. IdsOf(m) \subseteq IdsOf(k)
          <5>1. 2 \in DOMAIN k
            BY <1>1, <1>7
          <5>2. y.covers = IdsOf(m) /\ k[2] = y
            BY <1>4, <1>7
          <5>3. k[2].covers \subseteq IdsOf(k)
            BY <5>1, IdsIn
          <5>4. QED
            BY <5>2, <5>3
        <4>4. QED
          BY <4>2, <4>3
      <3>3. CASE i \in u .. Len(l)
        BY <1>7, <3>3, IdsIn
      <3>4. QED
        BY <3>1, <3>2, <3>3
    <2>2. QED
      BY <1>1, <2>1, IdsIn
  <1>10. ASSUME l[1].calls = <<>>, PendingOf(l) = {}
         PROVE  PendingOf(k) = {}
    <2>1. SUFFICES ASSUME NEW i \in DOMAIN k, NEW c \in Asked(k, i)
                   PROVE  \E j \in DOMAIN k : j > i /\ Answering(k[j], c)
      BY PendingNone
    <2>2. i \notin {1, 2}
      BY <1>4, <1>7, <1>10 DEF Asked, ToSet
    <2>3. i + u - 3 \in u .. Len(l) /\ c \in Asked(l, i + u - 3)
      BY <1>8, <2>2 DEF Asked
    <2>4. PICK j \in 1 .. Len(l) : j > i + u - 3 /\ Answering(l[j], c)
      <3>1. i + u - 3 \in 1 .. Len(l)
        BY <1>1, <2>3
      <3>2. QED
        BY <1>1, <1>10, <2>3, <3>1, PendingNone
    <2>5. j \in u .. Len(l) /\ j - u + 3 > i
      BY <1>1, <1>7, <2>3, <2>4
    <2>6. QED
      BY <1>7, <2>4, <2>5
  <1>11. k # <<>>
    BY <1>1, <1>7
  <1>12. QED
    BY <1>6, <1>7, <1>9, <1>10, <1>11 DEF Survives

LEMMA SurvivesItself ==
  ASSUME NEW l \in Seq(Messages)
  PROVE  Survives(l, l)
  BY DEF Survives
LEMMA SurvivesTwice ==
  ASSUME NEW l, NEW k, NEW m, Survives(l, k), Survives(k, m)
  PROVE  Survives(l, m)
  BY DEF Survives

LEMMA Recent ==
  ASSUME NEW n \in Nat, n > 4
  PROVE  KeepRecent(n) \in 2 .. n - 1
  <1>1. n \div 3 \in Nat /\ 3 * (n \div 3) <= n
    BY SMT
  <1>2. PICK t \in Nat : t = n \div 3 /\ 3 * t <= n
    BY <1>1
  <1>3. QED
    BY <1>2 DEF KeepRecent

LEMMA CompactSurvives ==
  ASSUME NEW l \in Seq(Messages)
  PROVE  Survives(l, Compact(l))
  <1>1. CASE Len(l) <= 4
    BY <1>1, SurvivesItself DEF Compact
  <1>2. CASE Len(l) > 4
    <2>1. PICK u \in 2 .. Len(l) + 1 : u = Len(l) - KeepRecent(Len(l)) + 1
      <3>1. Len(l) \in Nat
        OBVIOUS
      <3>2. PICK k \in 2 .. Len(l) - 1 : k = KeepRecent(Len(l))
        BY <1>2, <3>1, Recent
      <3>3. Len(l) - k + 1 \in 2 .. Len(l) + 1
        BY <3>1
      <3>4. QED
        BY <3>2, <3>3
    <2>2. l # <<>> /\ ~(Len(l) <= 4)
      BY <1>2
    <2>3. PICK c : c = Len(l) - KeepRecent(Len(l)) /\ c = u - 1 /\ c + 1 = u
      <3>1. KeepRecent(Len(l)) \in Int /\ Len(l) \in Nat
        BY <1>2, Recent
      <3>2. QED
        BY <2>1, <3>1
    <2>4. Compact(l) = Cut(l, "summary", u)
      BY <2>2, <2>3 DEF Compact, Cut
    <2>5. QED
      BY <2>2, <2>4, CutSurvives
  <1>3. QED
    BY <1>1, <1>2

LEMMA Greatest ==
  ASSUME NEW n \in Nat, NEW T, T \subseteq 1 .. n, T # {}
  PROVE  \E x \in T : \A y \in T : y <= x
  <1> DEFINE U == { n - x : x \in T }
  <1>0. \A x \in T : n - x \in Nat /\ n - x \in U
    OBVIOUS
  <1>1. U \subseteq Nat /\ U # {}
    BY <1>0
  <1>2. PICK v \in U : \A w \in U : v <= w
    BY <1>1, Least
  <1>3. PICK x \in T : v = n - x
    OBVIOUS
  <1>4. \A y \in T : v <= n - y /\ y \in 1 .. n
    BY <1>2
  <1>5. QED
    BY <1>3, <1>4

LEMMA ReplaySurvives ==
  ASSUME NEW l \in Seq(Messages)
  PROVE  Survives(l, Replay(l))
  <1>1. CASE \A i \in Users(l) : i <= 2
    BY <1>1, SurvivesItself DEF Replay
  <1>2. CASE ~ \A i \in Users(l) : i <= 2
    <2> DEFINE u == CHOOSE i \in Users(l) : \A j \in Users(l) : j <= i
    <2>1. Len(l) \in Nat /\ Users(l) \subseteq 1 .. Len(l)
      BY DEF Users
    <2>2. PICK p \in Users(l) : p > 2
      BY <1>2, <2>1
    <2>3. \E i \in Users(l) : \A j \in Users(l) : j <= i
      BY <2>1, <2>2, Greatest
    <2>4. u \in Users(l) /\ \A j \in Users(l) : j <= u
      BY <2>3
    <2> HIDE DEF u
    <2>5. u \in 2 .. Len(l) + 1 /\ l # <<>>
      BY <2>1, <2>2, <2>4
    <2>6. Replay(l) = Cut(l, "replay", u)
      BY <1>2 DEF Replay, Cut, u
    <2>7. QED
      BY <2>5, <2>6, CutSurvives
  <1>3. QED
    BY <1>1, <1>2

LEMMA CompactionsSurvive ==
  ASSUME NEW l \in Seq(Messages), NEW k \in Compactions(l)
  PROVE  Survives(l, k)
  <1>1. Survives(l, Compact(l)) /\ Compact(l) \in Seq(Messages)
    BY CompactSurvives DEF Survives
  <1>2. PICK c \in Seq(Messages) : c = Compact(l)
    BY <1>1
  <1>3. Survives(c, Replay(c)) /\ Replay(c) \in Seq(Messages)
    BY ReplaySurvives DEF Survives
  <1>4. PICK r \in Seq(Messages) : r = Replay(c)
    BY <1>3
  <1>5. Survives(r, Replay(r))
    BY ReplaySurvives
  <1>6. k \in {c, r, Replay(r)}
    BY <1>2, <1>4 DEF Compactions
  <1>7. Survives(l, r)
    BY <1>1, <1>2, <1>3, <1>4, SurvivesTwice
  <1>8. QED
    BY <1>1, <1>2, <1>5, <1>6, <1>7, SurvivesTwice

LEMMA PointType ==
  ASSUME NEW k \in Seq(Messages), stored \in Seq(Messages), point \in [at : Nat, covers : SUBSET Numbers]
  PROVE  PointAfter(k) \in [at : Nat, covers : SUBSET Numbers]
  <1>1. CASE Summaries(k) = {}
    BY <1>1 DEF PointAfter
  <1>2. CASE Summaries(k) # {}
    <2> DEFINE f == CHOOSE i \in Summaries(k) : \A j \in Summaries(k) : i <= j
    <2>1. Summaries(k) \subseteq Nat /\ Summaries(k) \subseteq DOMAIN k
      BY DEF Summaries
    <2>2. f \in Summaries(k)
      <3>1. \E i \in Summaries(k) : \A j \in Summaries(k) : i <= j
        BY <1>2, <2>1, Least
      <3>2. QED
        BY <3>1
    <2> HIDE DEF f
    <2>3. k[f].covers \in SUBSET Numbers
      <3>1. k[f] \in Messages
        BY <2>1, <2>2
      <3>2. QED
        BY <3>1, MessageFields
    <2>4. Len(stored) \in Nat
      OBVIOUS
    <2>5. PointAfter(k) = [at |-> Len(stored), covers |-> k[f].covers]
      BY <1>2 DEF PointAfter, f
    <2>6. QED
      BY <2>3, <2>4, <2>5
  <1>3. QED
    BY <1>1, <1>2

-----------------------------------------------------------------------------
(* The list and the store from step to step.                               *)

(* Before a request nothing is owed; while tools run, what is owed is what *)
(* the last message asks for.                                              *)
AtRest == moment \in {"before", "ready"} => pending = {} /\ PendingOf(list) = {}
BatchIsOwed ==
    moment = "tools" =>
        /\ list # <<>> /\ LastAsked \in Steps
        /\ pending = ToSet(LastAsked.calls) /\ PendingOf(list) \subseteq ToSet(LastAsked.calls)
HeadAsksNothing == moment # "idle" => list # <<>> /\ list[1].calls = <<>>

ListInv ==
    /\ ListTypeOK /\ stored \in Seq(Steps)
    /\ AtRest /\ BatchIsOwed /\ HeadAsksNothing
    /\ OrphansOnlyFromCompaction /\ TurnKeepsContext

LEMMA NothingToAnswer == SetToSeq({}) = <<>>
  <1>1. Cardinality({}) = 0
    BY FS_EmptySet
  <1>2. <<>> \in [1 .. 0 -> {}] /\ IsInjective(<<>>)
    BY DEF IsInjective
  <1>3. \A f \in [1 .. 0 -> {}] : f = <<>>
    OBVIOUS
  <1>4. SetToSeq({}) = CHOOSE f \in [1 .. 0 -> {}] : IsInjective(f)
    BY <1>1 DEF SetToSeq
  <1>5. (CHOOSE f \in [1 .. 0 -> {}] : IsInjective(f)) \in [1 .. 0 -> {}]
    BY <1>2
  <1>6. QED
    BY <1>3, <1>4, <1>5

LEMMA ToSetType ==
  ASSUME NEW calls \in Seq(Numbers)
  PROVE  ToSet(calls) \subseteq Numbers
  BY DEF ToSet

(* What a message at the end makes of the list.                            *)
LEMMA PutKeeps ==
  ASSUME ListInv, moment \in {"before", "ready"}, NEW m \in Steps, Put(m)
  PROVE  /\ list' \in Seq(Messages) /\ list' # <<>> /\ list'[1].calls = <<>>
         /\ list'[Len(list')] = m
         /\ pending' = ToSet(m.calls) /\ pending' \subseteq Numbers
         /\ PendingOf(list') \subseteq ToSet(m.calls)
         /\ shown' \subseteq Numbers /\ shown' \subseteq IdsOf(list')
         /\ Orphans(list) = {} => Orphans(list') = {}
  <1>0. m \in Messages /\ m.role # "tool" /\ m.calls \in Seq(Numbers) /\ m.n \in Numbers
    BY MessageFields DEF Steps
  <1>1. /\ pending = {} /\ PendingOf(list) = {} /\ list # <<>> /\ list[1].calls = <<>>
        /\ list \in Seq(Messages) /\ shown \subseteq Numbers /\ shown \subseteq IdsOf(list)
    BY DEF ListInv, AtRest, HeadAsksNothing, ListTypeOK, TurnKeepsContext
  <1>2. /\ list' = list \o <<>> \o <<m>> /\ pending' = ToSet(m.calls) /\ shown' = shown \cup {m.n}
    <2>1. Answers(<<>>) = <<>>
      BY DEF Answers
    <2>2. list' = list \o Answers(SetToSeq(pending)) \o <<m>>
          /\ pending' = ToSet(m.calls) /\ shown' = shown \cup pending \cup {m.n}
      BY DEF Put
    <2>3. QED
      BY <1>1, <2>1, <2>2, NothingToAnswer
  <1>3. PICK l \in Seq(Messages) : l = list
    BY <1>1
  <1>4. l \o <<>> \o <<m>> = Append(l, m)
    BY <1>0
  <1>5. PICK k \in Seq(Messages) : k = Append(l, m)
    BY <1>0, AppendShape
  <1>6. list' = k
    BY <1>2, <1>3, <1>4, <1>5
  <1>7. /\ Len(k) = Len(l) + 1 /\ Len(l) \in Nat /\ DOMAIN l = 1 .. Len(l)
        /\ DOMAIN k = 1 .. Len(l) + 1 /\ k[Len(l) + 1] = m /\ \A i \in 1 .. Len(l) : k[i] = l[i]
    BY <1>0, <1>5, AppendShape
  <1>8. k # <<>> /\ k[1].calls = <<>> /\ k[Len(k)] = m
    <2>1. Len(l) # 0
      BY <1>1, <1>3
    <2>2. k[1] = l[1]
      BY <1>7, <2>1
    <2>3. QED
      BY <1>1, <1>3, <1>7, <2>2
  <1>9. PendingOf(k) \subseteq ToSet(m.calls)
    BY <1>0, <1>1, <1>3, <1>5, AppendPending
  <1>10. Orphans(l) = {} => Orphans(k) = {}
    BY <1>0, <1>5, AppendOrphans
  <1>11. shown \cup {m.n} \subseteq IdsOf(k)
    <2>1. IdsOf(l) \subseteq IdsOf(k)
      BY <1>7, IdsGrow
    <2>2. m.n \in IdsOf(k)
      <3>1. Len(l) + 1 \in DOMAIN k
        BY <1>7
      <3>2. QED
        BY <1>7, <3>1, IdsIn
    <2>3. QED
      BY <1>1, <1>3, <2>1, <2>2
  <1>12. pending' \subseteq Numbers
    BY <1>0, <1>2, ToSetType
  <1>13. QED
    BY <1>0, <1>1, <1>2, <1>3, <1>6, <1>8, <1>9, <1>10, <1>11, <1>12

(* What the results of a batch make of it.                                 *)
LEMMA ResultsKeep ==
  ASSUME ListInv, moment = "tools", PutResults(LastAsked.calls)
  PROVE  /\ list' \in Seq(Messages) /\ list' # <<>> /\ list'[1].calls = <<>>
         /\ pending' = {} /\ PendingOf(list') = {}
         /\ shown' \subseteq Numbers /\ shown' \subseteq IdsOf(list')
         /\ Orphans(list) = {} => Orphans(list') = {}
  <1>1. /\ list # <<>> /\ LastAsked \in Steps /\ list[1].calls = <<>>
        /\ pending = ToSet(LastAsked.calls) /\ PendingOf(list) \subseteq ToSet(LastAsked.calls)
        /\ list \in Seq(Messages) /\ shown \subseteq Numbers /\ shown \subseteq IdsOf(list)
    BY DEF ListInv, BatchIsOwed, HeadAsksNothing, ListTypeOK, TurnKeepsContext
  <1>2. PICK l \in Seq(Messages) : l = list
    BY <1>1
  <1>3. PICK calls \in Seq(Numbers) : calls = LastAsked.calls /\ Distinct(calls)
    BY <1>1, MessageFields DEF Steps
  <1>4. l # <<>> /\ calls = l[Len(l)].calls /\ PendingOf(l) \subseteq ToSet(calls)
    BY <1>1, <1>2, <1>3 DEF LastAsked
  <1>5. PICK k : k = l \o Answers(calls)
    OBVIOUS
  <1>6. BatchOf(l, calls, k)
    BY <1>4, <1>5, BatchShape
  <1>7. PendingOf(k) = {}
    BY <1>4, <1>5, BatchAnswers
  <1>8. Orphans(l) = {} => Orphans(k) = {}
    BY <1>3, <1>4, <1>5, BatchOrphans
  <1>9. list' = k /\ pending' = {} /\ shown' = shown \cup ToSet(calls)
    BY <1>1, <1>2, <1>3, <1>5 DEF PutResults
  <1>10. k \in Seq(Messages) /\ k # <<>> /\ k[1] = l[1]
    <2>1. k \in Seq(Messages) /\ 1 \in 1 .. Len(l) /\ \A i \in 1 .. Len(l) : k[i] = l[i] /\ i \in DOMAIN k
      BY <1>6 DEF BatchOf
    <2>2. QED
      BY <2>1
  <1>11. shown \cup ToSet(calls) \subseteq IdsOf(k)
    <2>1. IdsOf(l) \subseteq IdsOf(k)
      BY <1>6, IdsGrow DEF BatchOf
    <2>2. \A i \in DOMAIN calls : calls[i] \in IdsOf(k)
      <3>1. \A i \in DOMAIN calls : Len(l) + i \in DOMAIN k /\ k[Len(l) + i].n = calls[i]
        BY <1>6 DEF BatchOf
      <3>2. QED
        BY <3>1, IdsIn
    <2>3. QED
      BY <1>1, <1>2, <2>1, <2>2 DEF ToSet
  <1>12. ToSet(calls) \subseteq Numbers
    BY ToSetType
  <1>13. QED
    BY <1>1, <1>2, <1>7, <1>8, <1>9, <1>10, <1>11, <1>12

LEMMA EntryStep ==
  ASSUME NEW role \in {"user", "assistant"}, NEW n \in Numbers
  PROVE  Entry(role, n) \in Steps /\ ToSet(Entry(role, n).calls) = {}
  <1>1. role \in Roles /\ role # "tool"
    BY DEF Roles
  <1>2. Entry(role, n) \in Messages /\ Entry(role, n).role = role /\ Entry(role, n).calls = <<>>
    BY <1>1, EntryType
  <1>3. QED
    BY <1>1, <1>2 DEF Steps, Distinct, ToSet

LEMMA StoreKeeps ==
  ASSUME stored \in Seq(Steps), NEW m \in Steps, Store(m)
  PROVE  stored' \in Seq(Steps) /\ stored' \in Seq(Messages)
  <1>1. Append(stored, m) \in Seq(Steps)
    BY AppendShape
  <1>2. Seq(Steps) \subseteq Seq(Messages)
    BY DEF Steps
  <1>3. QED
    BY <1>1, <1>2 DEF Store

LEMMA FreshType ==
  ASSUME ListTypeOK, NEW k \in Nat \ {0}, Take(k)
  PROVE  /\ fresh' \in 1 .. MaxId + 1 /\ fresh \in Numbers
         /\ \A i \in 1 .. k - 1 : fresh + i \in Numbers
  BY ListAssumption DEF Take, ListTypeOK, Numbers

LEMMA ListInitInv == ListInit => ListInv
  <1> SUFFICES ASSUME ListInit PROVE ListInv
    OBVIOUS
  <1>1. NoPoint \in [at : Nat, covers : SUBSET Numbers]
    BY DEF NoPoint
  <1>2. Orphans(<<>>) = {} /\ <<>> \in Seq(Messages) /\ <<>> \in Seq(Steps)
    BY DEF Orphans, Tools
  <1>3. 1 \in 1 .. MaxId + 1
    BY ListAssumption
  <1>4. QED
    BY <1>1, <1>2, <1>3
       DEF ListInit, ListInv, ListTypeOK, AtRest, BatchIsOwed, HeadAsksNothing,
           OrphansOnlyFromCompaction, TurnKeepsContext

(* The parts of the invariant after a step that leaves the list as the     *)
(* facts about Put and PutResults say.                                     *)
LEMMA ListInvFrom ==
  ASSUME list' \in Seq(Messages), pending' \subseteq Numbers, stored' \in Seq(Steps),
         point' \in [at : Nat, covers : SUBSET Numbers],
         moment' \in {"idle", "before", "ready", "tools"},
         fresh' \in 1 .. MaxId + 1, shown' \subseteq Numbers, compacted' \in BOOLEAN,
         AtRest', BatchIsOwed', HeadAsksNothing',
         ~compacted' => Orphans(list') = {}, shown' \subseteq IdsOf(list')
  PROVE  ListInv'
  <1>1. Seq(Steps) \subseteq Seq(Messages)
    BY DEF Steps
  <1>2. stored' \in Seq(Messages)
    BY <1>1
  <1>3. ListTypeOK'
    BY <1>2 DEF ListTypeOK
  <1>4. OrphansOnlyFromCompaction' /\ TurnKeepsContext'
    BY DEF OrphansOnlyFromCompaction, TurnKeepsContext
  <1>5. QED
    BY <1>3, <1>4 DEF ListInv

LEMMA StartTurnInv ==
  ASSUME ListInv, StartTurn
  PROVE  ListInv'
  <1>1. fresh' \in 1 .. MaxId + 1 /\ fresh \in Numbers
    BY FreshType DEF StartTurn, ListInv
  <1>2. Entry("user", fresh) \in Steps
    BY <1>1, EntryStep
  <1>3. stored' \in Seq(Steps)
    BY <1>2, StoreKeeps DEF StartTurn, ListInv
  <1>4. PICK terminal \in BOOLEAN : Install(Rebuilt(stored', terminal))
    BY DEF StartTurn
  <1>5. PICK s \in Seq(Steps) : s = stored'
    BY <1>3
  <1>6. point \in [at : Nat, covers : SUBSET Numbers] /\ point' = point
    BY DEF ListInv, ListTypeOK, StartTurn
  <1>7. PICK l \in Seq(Messages) : /\ l = Rebuilt(s, terminal) /\ Paired(l)
                                   /\ l # <<>> /\ l[1].calls = <<>>
    BY <1>6, RebuiltPaired
  <1>8. list' = l /\ pending' = {} /\ moment' = "before" /\ shown' = IdsOf(l) /\ compacted' = FALSE
    <2>1. Install(l)
      BY <1>4, <1>5, <1>7
    <2>2. list' = l /\ pending' = {}
      BY <1>7, <2>1 DEF Install, Paired
    <2>3. QED
      BY <2>2 DEF StartTurn
  <1>9. AtRest' /\ BatchIsOwed' /\ HeadAsksNothing'
    BY <1>7, <1>8 DEF AtRest, BatchIsOwed, HeadAsksNothing, Paired
  <1>10. shown' \subseteq Numbers /\ shown' \subseteq IdsOf(list')
    BY <1>8, IdsType
  <1>11. Orphans(list') = {}
    BY <1>7, <1>8 DEF Paired
  <1>12. QED
    BY <1>1, <1>3, <1>6, <1>7, <1>8, <1>9, <1>10, <1>11, ListInvFrom

LEMMA InvFields ==
  ASSUME ListInv
  PROVE  /\ list \in Seq(Messages) /\ pending \subseteq Numbers /\ stored \in Seq(Steps)
         /\ stored \in Seq(Messages)
         /\ point \in [at : Nat, covers : SUBSET Numbers]
         /\ moment \in {"idle", "before", "ready", "tools"}
         /\ fresh \in 1 .. MaxId + 1 /\ shown \subseteq Numbers /\ compacted \in BOOLEAN
         /\ ~compacted => Orphans(list) = {}
         /\ shown \subseteq IdsOf(list)
  BY DEF ListInv, ListTypeOK, OrphansOnlyFromCompaction, TurnKeepsContext

(* A message that asks for nothing is put into the list.                   *)
LEMMA PutTextInv ==
  ASSUME ListInv, moment \in {"before", "ready"}, moment' \in {"before", "ready"}, Take(1),
         NEW role \in {"user", "assistant"}, Put(Entry(role, fresh)),
         stored' \in Seq(Steps), UNCHANGED <<point, compacted>>
  PROVE  ListInv'
  <1>1. fresh' \in 1 .. MaxId + 1 /\ fresh \in Numbers
    BY FreshType DEF ListInv
  <1>2. PICK m \in Steps : m = Entry(role, fresh) /\ ToSet(m.calls) = {}
    BY <1>1, EntryStep
  <1>3. Put(m)
    BY <1>2
  <1>4. /\ list' \in Seq(Messages) /\ list' # <<>> /\ list'[1].calls = <<>>
        /\ pending' = {} /\ PendingOf(list') = {}
        /\ shown' \subseteq Numbers /\ shown' \subseteq IdsOf(list')
        /\ Orphans(list) = {} => Orphans(list') = {}
    BY <1>2, <1>3, PutKeeps
  <1>5. AtRest' /\ BatchIsOwed' /\ HeadAsksNothing'
    BY <1>4 DEF AtRest, BatchIsOwed, HeadAsksNothing
  <1>6. QED
    BY <1>1, <1>4, <1>5, InvFields, ListInvFrom

LEMMA InjectInv ==
  ASSUME ListInv, Inject
  PROVE  ListInv'
  <1>1. fresh \in Numbers
    BY FreshType DEF ListInv, Inject
  <1>2. stored' \in Seq(Steps)
    BY <1>1, EntryStep, InvFields, StoreKeeps DEF Inject
  <1>3. QED
    BY <1>2, PutTextInv DEF Inject

LEMMA NoteInv ==
  ASSUME ListInv, Note
  PROVE  ListInv'
  BY InvFields, PutTextInv DEF Note

LEMMA ContinueInv ==
  ASSUME ListInv, Continue
  PROVE  ListInv'
  BY InvFields, PutTextInv DEF Continue

LEMMA AskToolsInv ==
  ASSUME ListInv, NEW k \in 1 .. MaxCalls, AskTools(k)
  PROVE  ListInv'
  <1>0. k \in Nat /\ k >= 1
    OBVIOUS
  <1>1. /\ fresh' \in 1 .. MaxId + 1 /\ fresh \in Numbers
        /\ \A i \in 1 .. k : fresh + i \in Numbers
    <2>1. k + 1 \in Nat \ {0} /\ (k + 1) - 1 = k /\ Take(k + 1)
      BY <1>0 DEF AskTools
    <2>2. QED
      BY <2>1, FreshType DEF ListInv
  <1>2. PICK safe \in SUBSET (fresh + 1 .. fresh + k) :
           Put(Asking(fresh, [i \in 1 .. k |-> fresh + i], safe))
    BY DEF AskTools
  <1>3. PICK c \in Seq(Numbers) : c = [i \in 1 .. k |-> fresh + i] /\ Distinct(c)
    <2>1. [i \in 1 .. k |-> fresh + i] \in [1 .. k -> Numbers]
      BY <1>1
    <2>2. [i \in 1 .. k |-> fresh + i] \in Seq(Numbers)
      BY <1>0, <2>1, FunctionIsSeq
    <2>3. Distinct([i \in 1 .. k |-> fresh + i])
      BY <1>1 DEF Distinct, Numbers
    <2>4. QED
      BY <2>2, <2>3
  <1>4. safe \subseteq Numbers
    <2>1. \A x \in fresh + 1 .. fresh + k : x - fresh \in 1 .. k /\ x = fresh + (x - fresh)
      BY <1>0, <1>1 DEF Numbers
    <2>2. QED
      BY <1>1, <2>1
  <1>5. PICK m \in Steps : m = Asking(fresh, c, safe)
    <2>1. "assistant" \in Roles /\ "assistant" # "tool" /\ <<>> \in Seq(Numbers)
      BY DEF Roles
    <2>2. Asking(fresh, c, safe) \in Messages
      BY <1>1, <1>4, <2>1 DEF Asking, Entry, Messages, Bodies
    <2>3. Asking(fresh, c, safe).role = "assistant" /\ Asking(fresh, c, safe).calls = c
      BY DEF Asking, Entry
    <2>4. QED
      BY <1>3, <2>1, <2>2, <2>3 DEF Steps
  <1>6. Put(m) /\ moment \in {"before", "ready"}
    BY <1>2, <1>3, <1>5 DEF AskTools
  <1>7. /\ list' \in Seq(Messages) /\ list' # <<>> /\ list'[1].calls = <<>>
        /\ list'[Len(list')] = m
        /\ pending' = ToSet(m.calls) /\ pending' \subseteq Numbers
        /\ PendingOf(list') \subseteq ToSet(m.calls)
        /\ shown' \subseteq Numbers /\ shown' \subseteq IdsOf(list')
        /\ Orphans(list) = {} => Orphans(list') = {}
    BY <1>6, PutKeeps
  <1>8. /\ moment' = "tools" /\ point' = point /\ stored' = stored /\ compacted' = compacted
    BY DEF AskTools
  <1>9. AtRest' /\ BatchIsOwed' /\ HeadAsksNothing'
    BY <1>7, <1>8 DEF AtRest, BatchIsOwed, HeadAsksNothing, LastAsked
  <1>10. QED
    BY <1>1, <1>7, <1>8, <1>9, InvFields, ListInvFrom

LEMMA OptimiseInv ==
  ASSUME ListInv, Optimise
  PROVE  ListInv'
  <1>1. /\ moment = "before" /\ moment' = "ready" /\ stored' = stored /\ fresh' = fresh /\ shown' = shown
    BY DEF Optimise
  <1>2. PICK l \in Shorter :
          \/ list' = l /\ UNCHANGED <<pending, point, compacted>>
          \/ \E c \in Compactions(l) : Install(c) /\ point' = PointAfter(c) /\ compacted' = TRUE
    BY DEF Optimise
  <1>3. SameBones(list, l) /\ l \in Seq(Messages)
    BY InvFields, ShorterBones DEF SameBones
  <1>4. PendingOf(l) = PendingOf(list) /\ Orphans(l) = Orphans(list) /\ IdsOf(l) = IdsOf(list)
    BY <1>3, InvFields, BonesTell
  <1>5. pending = {} /\ PendingOf(list) = {} /\ list # <<>> /\ list[1].calls = <<>>
    BY <1>1 DEF ListInv, AtRest, HeadAsksNothing
  <1>6. l # <<>> /\ l[1].calls = <<>>
    <2>1. 1 \in DOMAIN list
      BY <1>5, InvFields
    <2>2. DOMAIN l = DOMAIN list /\ l[1].calls = list[1].calls
      BY <1>3, <2>1 DEF SameBones
    <2>3. QED
      BY <1>5, <2>1, <2>2
  <1>7. CASE list' = l /\ UNCHANGED <<pending, point, compacted>>
    <2>1. AtRest' /\ BatchIsOwed' /\ HeadAsksNothing'
      BY <1>1, <1>4, <1>5, <1>6, <1>7 DEF AtRest, BatchIsOwed, HeadAsksNothing
    <2>2. QED
      BY <1>1, <1>3, <1>4, <1>7, <2>1, InvFields, ListInvFrom
  <1>8. ASSUME NEW c \in Compactions(l), Install(c), point' = PointAfter(c), compacted' = TRUE
        PROVE  ListInv'
    <2>1. Survives(l, c)
      BY <1>3, <1>8, CompactionsSurvive
    <2>2. /\ c \in Seq(Messages) /\ IdsOf(l) \subseteq IdsOf(c)
          /\ c # <<>> /\ c[1].calls = <<>> /\ PendingOf(c) = {}
      BY <1>4, <1>5, <1>6, <2>1 DEF Survives
    <2>3. list' = c /\ pending' = {}
      BY <1>8, <2>2 DEF Install
    <2>4. point' \in [at : Nat, covers : SUBSET Numbers]
      BY <1>8, <2>2, InvFields, PointType
    <2>5. AtRest' /\ BatchIsOwed' /\ HeadAsksNothing'
      BY <1>1, <2>2, <2>3 DEF AtRest, BatchIsOwed, HeadAsksNothing
    <2>6. shown' \subseteq IdsOf(list')
      BY <1>1, <1>4, <2>2, <2>3, InvFields
    <2>7. QED
      BY <1>1, <1>8, <2>2, <2>3, <2>4, <2>5, <2>6, InvFields, ListInvFrom
  <1>9. QED
    BY <1>2, <1>7, <1>8

(* A batch is over.                                                        *)
LEMMA BatchOverInv ==
  ASSUME ListInv, moment = "tools", moment' \in {"before", "idle"},
         PutResults(LastAsked.calls), stored' \in Seq(Steps),
         fresh' \in 1 .. MaxId + 1, UNCHANGED <<point, compacted>>
  PROVE  ListInv'
  <1>1. /\ list' \in Seq(Messages) /\ list' # <<>> /\ list'[1].calls = <<>>
        /\ pending' = {} /\ PendingOf(list') = {}
        /\ shown' \subseteq Numbers /\ shown' \subseteq IdsOf(list')
        /\ Orphans(list) = {} => Orphans(list') = {}
    BY ResultsKeep
  <1>2. AtRest' /\ BatchIsOwed' /\ HeadAsksNothing'
    BY <1>1 DEF AtRest, BatchIsOwed, HeadAsksNothing
  <1>3. QED
    BY <1>1, <1>2, InvFields, ListInvFrom

LEMMA StepDoneInv ==
  ASSUME ListInv, StepDone
  PROVE  ListInv'
  <1>1. PICK kept : Store([LastAsked EXCEPT !.calls = Keeping(@, kept)])
    BY DEF StepDone
  <1>2. PICK m \in Steps : m = LastAsked
    BY DEF StepDone, ListInv, BatchIsOwed
  <1>3. m \in Messages /\ m.role # "tool" /\ Distinct(m.calls) /\ m.calls \in Seq(Numbers)
    BY MessageFields DEF Steps
  <1>4. PICK c \in Seq(Numbers) : c = Keeping(m.calls, kept)
    BY <1>3, KeepingType
  <1>5. Distinct(c)
    <2>1. PICK h : Behind(m.calls, kept, c, h)
      BY <1>3, <1>4, KeepingBehind
    <2>2. /\ \A i \in DOMAIN c : h[i] \in DOMAIN m.calls /\ m.calls[h[i]] = c[i]
          /\ \A i, j \in DOMAIN c : i < j => h[i] < h[j]
      BY <2>1 DEF Behind
    <2>3. SUFFICES ASSUME NEW i \in DOMAIN c, NEW j \in DOMAIN c, c[i] = c[j] PROVE i = j
      BY DEF Distinct
    <2>4. h[i] = h[j] /\ h[i] \in Nat
      <3>1. h[i] = h[j]
        BY <1>3, <2>2, <2>3 DEF Distinct
      <3>2. \A d \in Seq(Numbers) : DOMAIN d \subseteq Nat
        OBVIOUS
      <3>3. QED
        BY <1>3, <2>2, <3>1, <3>2
    <2>5. ~(i < j) /\ ~(j < i) /\ i \in Nat /\ j \in Nat
      BY <2>2, <2>4
    <2>6. QED
      BY <2>5
  <1>6. PICK n \in Steps : n = [m EXCEPT !.calls = c]
    <2>1. [m EXCEPT !.calls = c] \in Messages /\ [m EXCEPT !.calls = c].role = m.role
          /\ [m EXCEPT !.calls = c].calls = c
      BY <1>3 DEF Messages
    <2>2. QED
      BY <1>3, <1>5, <2>1 DEF Steps
  <1>7. Store(n)
    BY <1>1, <1>2, <1>4, <1>6
  <1>8. stored' \in Seq(Steps)
    BY <1>7, InvFields, StoreKeeps
  <1>9. QED
    BY <1>8, InvFields, BatchOverInv DEF StepDone

LEMMA StepRefusedInv ==
  ASSUME ListInv, StepRefused \/ StepCancelled
  PROVE  ListInv'
  BY InvFields, BatchOverInv DEF StepRefused, StepCancelled

LEMMA StepInBackgroundInv ==
  ASSUME ListInv, StepInBackground
  PROVE  ListInv'
  <1>1. fresh' \in 1 .. MaxId + 1 /\ fresh \in Numbers
    BY FreshType DEF StepInBackground, ListInv
  <1>2. stored' \in Seq(Steps)
    BY <1>1, EntryStep, InvFields, StoreKeeps DEF StepInBackground
  <1>3. QED
    BY <1>1, <1>2, BatchOverInv DEF StepInBackground

(* The list rests.                                                         *)
LEMMA ListRestsInv ==
  ASSUME ListInv, UNCHANGED <<list, pending, shown, compacted>>,
         \/ moment' = moment \/ moment' = "idle"
         \/ moment = "ready" /\ moment' = "before",
         stored' \in Seq(Steps), point' \in [at : Nat, covers : SUBSET Numbers],
         fresh' \in 1 .. MaxId + 1
  PROVE  ListInv'
  <1>1. AtRest' /\ BatchIsOwed' /\ HeadAsksNothing'
    BY DEF ListInv, AtRest, BatchIsOwed, HeadAsksNothing, LastAsked
  <1>2. QED
    BY <1>1, InvFields, ListInvFrom

LEMMA StepRaisesInv ==
  ASSUME ListInv, StepRaises \/ UNCHANGED listVars
  PROVE  ListInv'
  BY InvFields, ListRestsInv DEF StepRaises, listVars

LEMMA AcceptInv ==
  ASSUME ListInv, Accept
  PROVE  ListInv'
  <1>1. fresh' \in 1 .. MaxId + 1 /\ fresh \in Numbers
    BY FreshType DEF Accept, ListInv
  <1>2. stored' \in Seq(Steps)
    BY <1>1, EntryStep, InvFields, StoreKeeps DEF Accept
  <1>3. QED
    BY <1>1, <1>2, InvFields, ListRestsInv DEF Accept

LEMMA CompactCommandInv ==
  ASSUME ListInv, CompactCommand
  PROVE  ListInv'
  <1>1. PICK c \in Compactions(ToApi(stored)) : point' = PointAfter(c)
    BY DEF CompactCommand
  <1>2. ToApi(stored) \in Seq(Messages)
    BY InvFields, ToApiIsFlat
  <1>3. c \in Seq(Messages)
    BY <1>2, CompactionsSurvive DEF Survives
  <1>4. point' \in [at : Nat, covers : SUBSET Numbers]
    BY <1>1, <1>3, InvFields, PointType
  <1>5. QED
    BY <1>4, InvFields, ListRestsInv DEF CompactCommand

LEMMA ListStepInv == ListInv /\ [ListNext]_listVars => ListInv'
  BY StartTurnInv, InjectInv, NoteInv, OptimiseInv, AskToolsInv, StepDoneInv, StepRefusedInv,
     StepInBackgroundInv, StepRaisesInv, AcceptInv, ContinueInv, CompactCommandInv
  DEF ListNext

LEMMA ListIsInv == ListSpec => []ListInv
  BY ListInitInv, ListStepInv, PTL DEF ListSpec

(* For any number of messages and calls, and whatever is masked, pruned,   *)
(* summarised or cut short: the variables of the message list keep their   *)
(* types.                                                                  *)
THEOREM ListTypesHold == ListSpec => []ListTypeOK
  <1>1. ListInv => ListTypeOK
    BY DEF ListInv
  <1>2. QED
    BY <1>1, ListIsInv, PTL

(* A request to the model never holds a call without a result.             *)
THEOREM RequestsAreAnswered == ListSpec => []SentIsAnswered
  <1>1. ListInv => SentIsAnswered
    BY DEF ListInv, AtRest, SentIsAnswered
  <1>2. QED
    BY <1>1, ListIsInv, PTL

(* Only summarising separates a result from its call.                      *)
THEOREM OrphansComeFromCompaction == ListSpec => []OrphansOnlyFromCompaction
  <1>1. ListInv => OrphansOnlyFromCompaction
    BY DEF ListInv
  <1>2. QED
    BY <1>1, ListIsInv, PTL

(* What a turn has put into the list is there, or in a summary that is.    *)
THEOREM TurnsKeepContext == ListSpec => []TurnKeepsContext
  <1>1. ListInv => TurnKeepsContext
    BY DEF ListInv
  <1>2. QED
    BY <1>1, ListIsInv, PTL

-----------------------------------------------------------------------------
(* A tab and its session: where a message can be, on its way or shown.     *)
On(type, n) == \E i \in DOMAIN wire : wire[i].type = type /\ wire[i].n = n
Made == DOMAIN says

(* What is around was made; who asks is a user, what is called a call.     *)
AllWereMade ==
    /\ Members(log) \cup Members(called) \cup Members(uplink) \cup ShownIds \cup results \cup apart
         \subseteq Made
    /\ \A i \in DOMAIN wire : wire[i].n \in Made \cup {0}
KindsAgree ==
    /\ \A n \in Members(called) \cup results : IsCall(n)
    /\ \A n \in Members(uplink) : ~IsCall(n)
    /\ \A i \in DOMAIN wire : wire[i].type = "user" => ~IsCall(wire[i].n)
    /\ \A i \in DOMAIN wire : wire[i].type \in {"call", "result"} => IsCall(wire[i].n)
(* A query is on its way to the server, or its echo to the tab, or is in   *)
(* the log, once.                                                          *)
QueriesAreApart ==
    /\ \A i, j \in DOMAIN uplink : uplink[i] = uplink[j] => i = j
    /\ \A n \in Members(uplink) : n \notin Members(log) /\ ~On("user", n)
    /\ \A i, j \in DOMAIN wire :
          wire[i].type = "user" /\ wire[j].type = "user" /\ wire[i].n = wire[j].n => i = j
    /\ \A i, j \in DOMAIN log : log[i] = log[j] => i = j
(* Calls are announced and logged in the order in which they are made.     *)
CallsRise ==
    /\ \A i, j \in DOMAIN log : i < j /\ IsCall(log[i]) /\ IsCall(log[j]) => log[i] < log[j]
    /\ \A i, j \in DOMAIN called : i < j => called[i] < called[j]
    /\ \A i \in DOMAIN log, j \in DOMAIN called : IsCall(log[i]) => log[i] < called[j]
    /\ \A i, j \in DOMAIN wire :
          i < j /\ wire[i].type = "call" /\ wire[j].type = "call" => wire[i].n < wire[j].n

(* Outside of what crossed with a fetch, the fetch knows it all.           *)
FetchKnowsTheRest ==
    /\ \A f \in Fetches :
          /\ fetch[f].upto <= fetchable
          /\ fetch[f].at = "found" => \A i \in DOMAIN log : i > fetch[f].upto => log[i] \in apart
          /\ fetch[f].at \in {"asked", "failed"} => \A i \in DOMAIN log : i > fetchable => log[i] \in apart
    /\ Fetching => /\ Members(called) \cup Members(uplink) \subseteq apart
                   /\ \A i \in DOMAIN wire : wire[i].n \in apart \cup {0}
(* A fetch that an empty tab might send would find it all, but what the    *)
(* tab is about to hear.                                                   *)
FetchWouldKnow ==
    view = <<>> /\ ~Fetching =>
        /\ \A i \in DOMAIN log : i > fetchable => log[i] \in apart \cup Announced
        /\ Members(called) \subseteq apart \cup Announced
        /\ Members(uplink) \subseteq apart
(* A tab that shows something has heard, or will hear, of everything.      *)
TabFollows ==
    view # <<>> /\ ~Fetching =>
        \A n \in (Members(log) \cup Members(called)) \ apart :
            \/ n \in ShownIds \cup Announced
            \/ ~IsCall(n) /\ \E m \in ShownIds : m # n /\ says[m] = says[n]

(* Nothing is shown twice, and the echo of what waits is recognised.       *)
ShownAreUnique ==
    \A i, j \in DOMAIN view : view[i].n = view[j].n /\ view[i].n \notin apart => i = j
EchoWillBeKnown ==
    /\ Members(uplink) \ apart \subseteq ShownIds
    /\ \A n \in Pending \ apart : \E i \in LastUser : view[i].n = n
CallsAreNews ==
    /\ \A n \in Made \ apart : On("call", n) => n \notin ShownIds
    /\ \A i, j \in DOMAIN view :
          /\ i < j /\ {view[i].n, view[j].n} \cap apart = {} /\ IsCall(view[i].n) /\ IsCall(view[j].n)
          => view[i].n < view[j].n
    /\ \A i \in DOMAIN view, n \in Made \ apart :
          On("call", n) /\ IsCall(view[i].n) /\ view[i].n \notin apart => view[i].n < n

(* A result finds its call.                                                *)
ResultsFollow ==
    /\ \A j \in DOMAIN wire : wire[j].type = "result" /\ wire[j].n \notin apart =>
          wire[j].n \in ShownIds \/ \E i \in 1 .. j - 1 : wire[i] = Event("call", wire[j].n)
    /\ \A n \in results \ apart :
          On("result", n) \/ (~On("call", n) /\ \A i \in Places(n) : view[i].done)

(* Whoever shows a spinner waits for something.                            *)
SpinnerWaits ==
    /\ ~connected => losses > 0
    /\ \A i \in DOMAIN wire : wire[i].type = "start" =>
          \/ phase = "running" \/ losses > 0
          \/ \E j \in i + 1 .. Len(wire) : wire[j].type = "complete"
    /\ loading => \/ Fetching \/ phase = "running" \/ On("complete", 0) \/ losses > 0
                  \/ \E n \in ShownIds : ~IsCall(n) /\ n \notin Members(log)

ViewInv ==
    /\ ViewTypeOK /\ AllWereMade /\ KindsAgree /\ QueriesAreApart /\ CallsRise
    /\ FetchKnowsTheRest /\ FetchWouldKnow /\ TabFollows
    /\ ShownAreUnique /\ EchoWillBeKnown /\ CallsAreNews /\ ResultsFollow /\ SpinnerWaits

LEMMA MembersAppend ==
    ASSUME NEW S, NEW s \in Seq(S), NEW x
    PROVE  /\ Members(Append(s, x)) = Members(s) \cup {x}
           /\ \A i \in DOMAIN Append(s, x) : \/ i \in DOMAIN s /\ Append(s, x)[i] = s[i]
                                             \/ i = Len(s) + 1 /\ Append(s, x)[i] = x
           /\ Append(s, x)[Len(s) + 1] = x /\ DOMAIN s \subseteq DOMAIN Append(s, x)
           /\ Len(s) + 1 \in DOMAIN Append(s, x)
  <1>1. /\ DOMAIN Append(s, x) = 1 .. Len(s) + 1 /\ DOMAIN s = 1 .. Len(s) /\ Len(s) \in Nat
        /\ \A i \in 1 .. Len(s) : Append(s, x)[i] = s[i]
        /\ Append(s, x)[Len(s) + 1] = x
    OBVIOUS
  <1>2. \A i \in 1 .. Len(s) + 1 : i \in 1 .. Len(s) \/ i = Len(s) + 1
    BY <1>1
  <1>3. 1 .. Len(s) \subseteq 1 .. Len(s) + 1 /\ Len(s) + 1 \in 1 .. Len(s) + 1
    BY <1>1
  <1> QED
    BY <1>1, <1>2, <1>3 DEF Members

LEMMA MembersTail ==
    ASSUME NEW S, NEW s \in Seq(S), s # <<>>
    PROVE  /\ Members(s) = {Head(s)} \cup Members(Tail(s))
           /\ Head(s) = s[1] /\ Head(s) \in S /\ Tail(s) \in Seq(S) /\ 1 \in DOMAIN s
           /\ \A i \in DOMAIN Tail(s) : i + 1 \in DOMAIN s /\ Tail(s)[i] = s[i + 1] /\ i \in Nat /\ i >= 1
           /\ \A i \in DOMAIN s : i # 1 => i - 1 \in DOMAIN Tail(s) /\ Tail(s)[i - 1] = s[i]
  <1>1. /\ Len(s) \in Nat /\ Len(s) > 0 /\ DOMAIN s = 1 .. Len(s) /\ Tail(s) \in Seq(S)
        /\ Len(Tail(s)) = Len(s) - 1 /\ DOMAIN Tail(s) = 1 .. Len(s) - 1
        /\ Head(s) = s[1] /\ Head(s) \in S
        /\ \A i \in 1 .. Len(s) - 1 : Tail(s)[i] = s[i + 1]
    OBVIOUS
  <1>2. \A i \in 1 .. Len(s) - 1 : i + 1 \in 1 .. Len(s)
    BY <1>1
  <1>3. \A i \in 1 .. Len(s) : i # 1 => i - 1 \in 1 .. Len(s) - 1 /\ Tail(s)[i - 1] = s[i]
    BY <1>1
  <1>4. 1 \in 1 .. Len(s)
    BY <1>1
  <1>5. Members(s) \subseteq {Head(s)} \cup Members(Tail(s))
    <2> SUFFICES ASSUME NEW i \in 1 .. Len(s) PROVE s[i] \in {Head(s)} \cup Members(Tail(s))
      BY <1>1 DEF Members
    <2>1. CASE i = 1
      BY <2>1, <1>1
    <2>2. CASE i # 1
      <3>1. i - 1 \in DOMAIN Tail(s) /\ Tail(s)[i - 1] = s[i]
        BY <2>2, <1>1, <1>3
      <3> QED
        BY <3>1 DEF Members
    <2> QED
      BY <2>1, <2>2
  <1>6. {Head(s)} \cup Members(Tail(s)) \subseteq Members(s)
    BY <1>1, <1>2, <1>4 DEF Members
  <1>7. \A i \in 1 .. Len(s) - 1 : i \in Nat /\ i >= 1
    BY <1>1
  <1>8. Members(s) = {Head(s)} \cup Members(Tail(s))
    BY <1>5, <1>6
  <1>9. \A i \in DOMAIN Tail(s) : i + 1 \in DOMAIN s /\ Tail(s)[i] = s[i + 1] /\ i \in Nat /\ i >= 1
    BY <1>1, <1>2, <1>7
  <1>10. \A i \in DOMAIN s : i # 1 => i - 1 \in DOMAIN Tail(s) /\ Tail(s)[i - 1] = s[i]
    BY <1>1, <1>3
  <1>11. Head(s) = s[1] /\ Head(s) \in S /\ Tail(s) \in Seq(S) /\ 1 \in DOMAIN s
    BY <1>1, <1>4
  <1> QED
    BY <1>8, <1>9, <1>10, <1>11, Zenon

(* What is broadcast comes to the end of what is on its way.               *)
LEMMA Telling ==
    ASSUME wire \in Seq(WireEvents), NEW es \in Seq(WireEvents), Tell(es)
    PROVE  /\ wire' \in Seq(WireEvents)
           /\ \A i \in DOMAIN wire : i \in DOMAIN wire' /\ wire'[i] = wire[i]
           /\ \A i \in DOMAIN wire' :
                 i \in DOMAIN wire \/ (connected /\ \E k \in DOMAIN es : i = Len(wire) + k /\ wire'[i] = es[k])
           /\ connected => \A k \in DOMAIN es : /\ Len(wire) + k \in DOMAIN wire'
                                                /\ wire'[Len(wire) + k] = es[k]
           /\ DOMAIN wire = 1 .. Len(wire) /\ Len(wire) \in Nat
           /\ DOMAIN es = 1 .. Len(es) /\ Len(es) \in Nat
           /\ DOMAIN wire' = 1 .. Len(wire') /\ Len(wire') \in Nat
           /\ Len(wire') = (IF connected THEN Len(wire) + Len(es) ELSE Len(wire))
  <1>1. CASE ~connected
    BY <1>1 DEF Tell
  <1>2. CASE connected
    <2>1. wire' = wire \o es
      BY <1>2 DEF Tell
    <2>2. /\ wire' \in Seq(WireEvents) /\ Len(wire') = Len(wire) + Len(es)
          /\ DOMAIN wire' = 1 .. Len(wire) + Len(es) /\ DOMAIN wire = 1 .. Len(wire)
          /\ DOMAIN es = 1 .. Len(es) /\ Len(wire) \in Nat /\ Len(es) \in Nat
          /\ \A i \in 1 .. Len(wire) + Len(es) :
                wire'[i] = IF i <= Len(wire) THEN wire[i] ELSE es[i - Len(wire)]
      BY <2>1
    <2>3. \A i \in 1 .. Len(wire) + Len(es) :
             i \in 1 .. Len(wire) \/ (i - Len(wire) \in 1 .. Len(es) /\ i = Len(wire) + (i - Len(wire))
                                       /\ wire'[i] = es[i - Len(wire)])
      BY <2>2
    <2>4. \A k \in 1 .. Len(es) : Len(wire) + k \in 1 .. Len(wire) + Len(es) /\ wire'[Len(wire) + k] = es[k]
      <3> TAKE k \in 1 .. Len(es)
      <3>1. Len(wire) + k \in 1 .. Len(wire) + Len(es) /\ ~(Len(wire) + k <= Len(wire)) /\ (Len(wire) + k) - Len(wire) = k
        BY <2>2
      <3> QED
        BY <3>1, <2>2
    <2>5. \A i \in 1 .. Len(wire) : i \in 1 .. Len(wire) + Len(es) /\ wire'[i] = wire[i]
      BY <2>2
    <2>6. DOMAIN wire' = 1 .. Len(wire') /\ Len(wire') \in Nat
      BY <2>2
    <2> QED
      BY <1>2, <2>2, <2>3, <2>4, <2>5, <2>6
  <1> QED
    BY <1>1, <1>2

(* What is made, announced and on its way.                                 *)
LEMMA MadeAre == ViewTypeOK => Made = 1 .. Len(says) /\ Len(says) \in Nat /\ Made \subseteq Shown
  BY ViewAssumption DEF ViewTypeOK, Made, Shown

LEMMA EventTypes ==
    /\ \A n \in Shown : Event("user", n) \in WireEvents /\ Event("call", n) \in WireEvents
                         /\ Event("result", n) \in WireEvents
    /\ Event("start", 0) \in WireEvents /\ Event("complete", 0) \in WireEvents
  BY DEF Event, WireEvents

LEMMA AnnouncedIs ==
    ASSUME NEW n
    PROVE  n \in Announced <=> On("user", n) \/ On("call", n)
  <1>1. ASSUME n \in Announced PROVE On("user", n) \/ On("call", n)
    <2>1. PICK e \in Members(wire) : e.type \in {"user", "call"} /\ e.n = n
      BY <1>1 DEF Announced
    <2>2. PICK i \in DOMAIN wire : e = wire[i]
      BY <2>1 DEF Members
    <2> QED
      BY <2>1, <2>2 DEF On
  <1>2. ASSUME On("user", n) \/ On("call", n) PROVE n \in Announced
    <2>1. PICK i \in DOMAIN wire : wire[i].type \in {"user", "call"} /\ wire[i].n = n
      BY <1>2 DEF On
    <2>2. wire[i] \in Members(wire)
      BY <2>1 DEF Members
    <2> QED
      BY <2>1, <2>2 DEF Announced
  <1> QED
    BY <1>1, <1>2

LEMMA AnnouncedIsNext == \A n : n \in Announced' <=> On("user", n)' \/ On("call", n)'
  <1> TAKE n
  <1>1. (n \in Announced <=> On("user", n) \/ On("call", n))'
    BY AnnouncedIs, PTL
  <1> QED
    BY <1>1

(* What is on the wire for a message was made, but the bounds of a run.    *)
LEMMA WireNames ==
    ASSUME ViewTypeOK, AllWereMade
    PROVE  \A i \in DOMAIN wire : /\ wire[i] \in WireEvents
                                  /\ wire[i].type \in {"user", "call", "result"} => wire[i].n \in Made
                                  /\ wire[i].type \in {"start", "complete"} => wire[i].n = 0
  <1> TAKE i \in DOMAIN wire
  <1>1. wire[i] \in WireEvents
    BY DEF ViewTypeOK
  <1>2. wire[i].n \in Made \cup {0}
    BY DEF AllWereMade
  <1>3. wire[i].type \in {"user", "call", "result"} => wire[i].n # 0
    BY <1>1 DEF WireEvents, Shown
  <1>4. wire[i].type \in {"start", "complete"} => wire[i].n = 0
    BY <1>1 DEF WireEvents
  <1> QED
    BY <1>1, <1>2, <1>3, <1>4

(* A query reaches the server, from this tab or from elsewhere.            *)
LEMMA HandleQueryKeeps ==
    ASSUME ViewInv, NEW n \in Shown, HandleQuery(n),
           says' \in Seq(Writings \cup {"call"}), Len(says') <= MaxShown,
           Made \subseteq Made', n \in Made', \A m \in Made : says'[m] = says[m], says'[n] # "call",
           n \notin Members(log), ~On("user", n), n \notin Members(called),
           uplink' \in Seq(Shown), Members(uplink') \subseteq Members(uplink), n \notin Members(uplink'),
           \A i, j \in DOMAIN uplink' : uplink'[i] = uplink'[j] => i = j,
           n \in ShownIds \ apart => n \in Members(uplink)
    PROVE  ViewInv'
  <1>0. /\ ViewTypeOK /\ log \in Seq(Shown) /\ wire \in Seq(WireEvents)
        /\ connected' = connected /\ fetch' = fetch /\ losses' = losses
        /\ called' = called /\ results' = results
        /\ viewing' = viewing /\ view' = view /\ loading' = loading
        /\ apart' = apart \cup Astray(n) /\ Fetching' = Fetching
    BY DEF ViewInv, HandleQuery, Doubt, tabVars, Fetching, ViewTypeOK
  <1>1. /\ log' \in Seq(Shown) /\ fetchable' \in 0 .. Len(log') /\ fetchable' >= fetchable
        /\ phase' \in {"idle", "running", "closing"}
        /\ Len(log) \in Nat /\ Len(log') \in Nat /\ Len(log) <= Len(log')
        /\ Members(log) \subseteq Members(log') /\ Members(log') \subseteq Members(log) \cup {n}
        /\ \A i \in DOMAIN log' : \/ i \in DOMAIN log /\ log'[i] = log[i]
                                  \/ i = Len(log) + 1 /\ log'[i] = n
        /\ DOMAIN log = 1 .. Len(log)
        /\ phase = "running" => phase' = "running"
        /\ \/ phase' = "running"
           \/ log' = log /\ phase' = phase
    <2>1. CASE StartsRun(n)
      BY <2>1, <1>0, MembersAppend DEF StartsRun, ViewTypeOK
    <2>2. CASE Injected(n)
      BY <2>2, <1>0, MembersAppend DEF Injected, ViewTypeOK
    <2>3. CASE TooLate(n)
      BY <2>3, <1>0 DEF TooLate, ViewTypeOK
    <2> QED
      BY <2>1, <2>2, <2>3 DEF HandleQuery
  <1>2. PICK es \in {<<Event("user", n), Event("start", 0)>>, <<Event("user", n)>>} :
           Tell(es) /\ (Len(es) = 2 => phase' = "running")
    BY DEF HandleQuery, StartsRun, Injected, TooLate
  <1>3. /\ es \in Seq(WireEvents) /\ 1 \in DOMAIN es /\ es[1] = Event("user", n)
        /\ \A k \in DOMAIN es : \/ k = 1
                                \/ k = 2 /\ es[k] = Event("start", 0) /\ phase' = "running"
    <2>1. CASE es = <<Event("user", n), Event("start", 0)>>
      BY <2>1, <1>2, EventTypes
    <2>2. CASE es = <<Event("user", n)>>
      BY <2>2, <1>2, EventTypes
    <2> QED
      BY <1>2, <2>1, <2>2
  <1>4. /\ wire' \in Seq(WireEvents)
        /\ \A i \in DOMAIN wire : i \in DOMAIN wire' /\ wire'[i] = wire[i]
        /\ \A i \in DOMAIN wire' :
              \/ i \in DOMAIN wire
              \/ connected /\ i = Len(wire) + 1 /\ wire'[i] = Event("user", n)
              \/ connected /\ i = Len(wire) + 2 /\ wire'[i] = Event("start", 0) /\ phase' = "running"
        /\ connected => Len(wire) + 1 \in DOMAIN wire' /\ wire'[Len(wire) + 1] = Event("user", n)
        /\ DOMAIN wire = 1 .. Len(wire) /\ Len(wire) \in Nat
        /\ DOMAIN wire' = 1 .. Len(wire') /\ Len(wire') \in Nat /\ Len(wire) <= Len(wire')
    <2>1. /\ wire' \in Seq(WireEvents)
          /\ \A i \in DOMAIN wire : i \in DOMAIN wire' /\ wire'[i] = wire[i]
          /\ \A i \in DOMAIN wire' :
                i \in DOMAIN wire \/ (connected /\ \E k \in DOMAIN es : i = Len(wire) + k /\ wire'[i] = es[k])
          /\ connected => \A k \in DOMAIN es : /\ Len(wire) + k \in DOMAIN wire'
                                               /\ wire'[Len(wire) + k] = es[k]
          /\ DOMAIN wire = 1 .. Len(wire) /\ Len(wire) \in Nat
          /\ DOMAIN es = 1 .. Len(es) /\ Len(es) \in Nat
          /\ DOMAIN wire' = 1 .. Len(wire') /\ Len(wire') \in Nat
          /\ Len(wire') = (IF connected THEN Len(wire) + Len(es) ELSE Len(wire))
      BY <1>0, <1>2, <1>3, Telling
    <2>2. \A i \in DOMAIN wire' :
              \/ i \in DOMAIN wire
              \/ connected /\ i = Len(wire) + 1 /\ wire'[i] = Event("user", n)
              \/ connected /\ i = Len(wire) + 2 /\ wire'[i] = Event("start", 0) /\ phase' = "running"
      BY <2>1, <1>3
    <2>3. Len(wire) <= Len(wire')
      BY <2>1
    <2>4. connected => Len(wire) + 1 \in DOMAIN wire' /\ wire'[Len(wire) + 1] = Event("user", n)
      BY <2>1, <1>3
    <2> QED
      BY <2>1, <2>2, <2>3, <2>4
  <1>5. /\ \A ty \in {"user", "call", "result", "complete"}, m \in Shown \cup {0} :
              On(ty, m)' <=> On(ty, m) \/ (connected /\ ty = "user" /\ m = n)
        /\ Announced \subseteq Announced' /\ (connected => n \in Announced')
    <2>1. \A ty \in {"user", "call", "result", "complete"}, m \in Shown \cup {0} :
              On(ty, m)' <=> On(ty, m) \/ (connected /\ ty = "user" /\ m = n)
      BY <1>4 DEF On, Event
    <2>2. \A m : m \in Announced => m \in Announced'
      <3> SUFFICES ASSUME NEW m, On("user", m) \/ On("call", m) PROVE On("user", m)' \/ On("call", m)'
        BY AnnouncedIs, AnnouncedIsNext
      <3> QED
        BY <1>4 DEF On
    <2>3. connected => n \in Announced'
      BY <1>4, AnnouncedIsNext DEF On, Event
    <2> QED
      BY <2>1, <2>2, <2>3
  <1>6. Astray(n) \subseteq {n} /\ (~connected \/ Fetching => n \in apart') /\ apart \subseteq apart'
    BY <1>0 DEF Astray
  <1>7. Made = 1 .. Len(says) /\ Made \subseteq Shown /\ Made' \subseteq Shown
    BY <1>0, MadeAre, ViewAssumption DEF Made, Shown
  <1>8. ~IsCall(n)' /\ \A m \in Made : IsCall(m)' = IsCall(m)
    BY DEF IsCall
  <1>9. ShownIds' = ShownIds /\ \A m \in Shown : Places(m)' = Places(m)
    BY <1>0 DEF ShownIds, Places
  <1>10. AllWereMade /\ KindsAgree /\ QueriesAreApart /\ CallsRise /\ FetchKnowsTheRest
    BY DEF ViewInv
  <1>w. \A i \in DOMAIN wire : /\ wire[i] \in WireEvents
                               /\ wire[i].type \in {"user", "call", "result"} => wire[i].n \in Made
                               /\ wire[i].type \in {"start", "complete"} => wire[i].n = 0
    BY <1>0, <1>10, WireNames
  <1>t. ViewTypeOK'
    BY <1>0, <1>1, <1>4, <1>6 DEF ViewTypeOK
  <1>a. AllWereMade'
    <2>1. /\ Members(log') \subseteq Made' /\ Members(called') \subseteq Made'
          /\ Members(uplink') \subseteq Made' /\ ShownIds' \subseteq Made' /\ results' \subseteq Made'
          /\ apart' \subseteq Made'
      BY <1>0, <1>1, <1>6, <1>9, <1>10 DEF AllWereMade
    <2>2. \A i \in DOMAIN wire' : wire'[i].n \in Made' \cup {0}
      BY <1>4, <1>10 DEF AllWereMade, Event
    <2> QED
      BY <2>1, <2>2 DEF AllWereMade, Members
  <1>b. KindsAgree'
    <2>1. \A m \in Members(called') \cup results' : says'[m] = "call"
      BY <1>0, <1>10 DEF KindsAgree, AllWereMade, IsCall
    <2>2. \A m \in Members(uplink') : says'[m] # "call"
      BY <1>10 DEF KindsAgree, AllWereMade, IsCall
    <2>3. \A i \in DOMAIN wire' : wire'[i].type = "user" => says'[wire'[i].n] # "call"
      BY <1>4, <1>10, <1>w DEF KindsAgree, Event, IsCall
    <2>4. \A i \in DOMAIN wire' : wire'[i].type \in {"call", "result"} => says'[wire'[i].n] = "call"
      BY <1>4, <1>10, <1>w DEF KindsAgree, Event, IsCall
    <2> QED
      BY <2>1, <2>2, <2>3, <2>4 DEF KindsAgree, IsCall, Members
  <1>c. QueriesAreApart'
    <2>1. \A m \in Members(uplink') : m \notin Members(log') /\ ~On("user", m)'
      BY <1>0, <1>1, <1>5, <1>7, <1>10 DEF QueriesAreApart, AllWereMade
    <2>2. \A i, j \in DOMAIN wire' :
             wire'[i].type = "user" /\ wire'[j].type = "user" /\ wire'[i].n = wire'[j].n => i = j
      <3>1. \A i \in DOMAIN wire : wire[i].type = "user" => wire[i].n # n
        BY DEF On
      <3> QED
        BY <1>4, <1>10, <3>1 DEF QueriesAreApart, Event
    <2>3. \A i, j \in DOMAIN log' : log'[i] = log'[j] => i = j
      <3>1. \A i \in DOMAIN log : log[i] # n
        BY DEF Members
      <3> QED
        BY <1>1, <1>10, <3>1 DEF QueriesAreApart
    <2> QED
      BY <2>1, <2>2, <2>3 DEF QueriesAreApart, Members
  <1>d. CallsRise'
    <2>0. \A i \in DOMAIN log' : says'[log'[i]] = "call" =>
             i \in DOMAIN log /\ log'[i] = log[i] /\ says[log[i]] = "call"
      <3>1. \A i \in DOMAIN log : log[i] \in Made
        BY <1>10 DEF AllWereMade, Members
      <3> QED
        BY <1>1, <3>1
    <2>1. \A i, j \in DOMAIN log' :
             i < j /\ says'[log'[i]] = "call" /\ says'[log'[j]] = "call" => log'[i] < log'[j]
      BY <2>0, <1>10 DEF CallsRise, IsCall
    <2>2. \A i \in DOMAIN log', j \in DOMAIN called' : says'[log'[i]] = "call" => log'[i] < called'[j]
      <3>1. \A i \in DOMAIN log : log[i] \in Made
        BY <1>10 DEF AllWereMade, Members
      <3> QED
        BY <1>0, <1>1, <1>10, <3>1 DEF CallsRise, IsCall
    <2>3. \A i, j \in DOMAIN wire' :
             i < j /\ wire'[i].type = "call" /\ wire'[j].type = "call" => wire'[i].n < wire'[j].n
      BY <1>4, <1>10 DEF CallsRise, Event
    <2> QED
      BY <1>0, <1>10, <2>1, <2>2, <2>3 DEF CallsRise, IsCall
  <1>e. FetchKnowsTheRest'
    <2>1. Fetching => n \in apart'
      BY <1>6
    <2>2. \A f \in Fetches :
             /\ fetch'[f].upto <= fetchable'
             /\ fetch'[f].at = "found" => \A i \in DOMAIN log' : i > fetch'[f].upto => log'[i] \in apart'
             /\ fetch'[f].at \in {"asked", "failed"} =>
                   \A i \in DOMAIN log' : i > fetchable' => log'[i] \in apart'
      <3> TAKE f \in Fetches
      <3>1. fetch[f].at # "none" => Fetching
        BY DEF Fetching, NoFetch
      <3>2. fetch[f].upto <= fetchable /\ fetch[f].upto \in Nat /\ fetchable \in Nat /\ fetchable' \in Nat
        BY <1>0, <1>1, <1>10 DEF FetchKnowsTheRest, ViewTypeOK
      <3>3. \A i \in DOMAIN log : i \in Nat
        BY <1>1
      <3>4. fetch'[f].at = "found" => \A i \in DOMAIN log' : i > fetch'[f].upto => log'[i] \in apart'
        BY <1>0, <1>1, <1>6, <1>10, <2>1, <3>1, <3>2 DEF FetchKnowsTheRest
      <3>5. fetch'[f].at \in {"asked", "failed"} =>
                   \A i \in DOMAIN log' : i > fetchable' => log'[i] \in apart'
        BY <1>0, <1>1, <1>6, <1>10, <2>1, <3>1, <3>2, <3>3 DEF FetchKnowsTheRest
      <3> QED
        BY <1>0, <1>1, <3>2, <3>4, <3>5
    <2>3. Fetching => /\ Members(called') \cup Members(uplink') \subseteq apart'
                      /\ \A i \in DOMAIN wire' : wire'[i].n \in apart' \cup {0}
      BY <1>0, <1>4, <1>6, <1>10, <2>1 DEF FetchKnowsTheRest, Event
    <2> QED
      BY <1>0, <2>2, <2>3 DEF FetchKnowsTheRest, Members
  <1>f. FetchWouldKnow'
    <2> SUFFICES ASSUME view' = <<>>, ~Fetching'
                 PROVE  /\ \A i \in DOMAIN log' : i > fetchable' => log'[i] \in apart' \cup Announced'
                        /\ Members(called') \subseteq apart' \cup Announced'
                        /\ Members(uplink') \subseteq apart'
      BY DEF FetchWouldKnow, Members
    <2>1. /\ \A i \in DOMAIN log : i > fetchable => log[i] \in apart \cup Announced
          /\ Members(called) \subseteq apart \cup Announced
          /\ Members(uplink) \subseteq apart
      BY <1>0 DEF ViewInv, FetchWouldKnow
    <2>2. n \in apart' \cup Announced'
      BY <1>5, <1>6
    <2>3. \A i \in DOMAIN log' : i > fetchable' => log'[i] \in apart' \cup Announced'
      <3> SUFFICES ASSUME NEW i \in DOMAIN log', i > fetchable' PROVE log'[i] \in apart' \cup Announced'
        OBVIOUS
      <3>1. CASE i \in DOMAIN log /\ log'[i] = log[i]
        <4>1. i > fetchable
          BY <3>1, <1>0, <1>1 DEF ViewTypeOK
        <4> QED
          BY <4>1, <3>1, <2>1, <1>5, <1>6
      <3>2. CASE log'[i] = n
        BY <3>2, <2>2
      <3> QED
        BY <1>1, <3>1, <3>2
    <2> QED
      BY <1>0, <1>5, <1>6, <2>1, <2>3
  <1>s. \A m \in ShownIds : m \in Made /\ says'[m] = says[m]
    BY <1>10 DEF AllWereMade
  <1>g. TabFollows'
    <2> SUFFICES ASSUME view' # <<>>, ~Fetching', NEW m \in (Members(log') \cup Members(called')) \ apart'
                 PROVE  \/ m \in ShownIds' \cup Announced'
                        \/ says'[m] # "call" /\ \E k \in ShownIds' : k # m /\ says'[k] = says'[m]
      BY DEF TabFollows, Members, IsCall
    <2>1. CASE m = n
      BY <2>1, <1>5, <1>6
    <2>2. CASE m # n
      <3>1. m \in (Members(log) \cup Members(called)) \ apart
        BY <2>2, <1>0, <1>1, <1>6
      <3>2. \/ m \in ShownIds \cup Announced
            \/ ~IsCall(m) /\ \E k \in ShownIds : k # m /\ says[k] = says[m]
        BY <3>1, <1>0 DEF ViewInv, TabFollows
      <3>3. m \in Made
        BY <3>1, <1>10 DEF AllWereMade
      <3>4. CASE m \in ShownIds \cup Announced
        BY <3>4, <1>5, <1>9
      <3>5. CASE ~IsCall(m) /\ \E k \in ShownIds : k # m /\ says[k] = says[m]
        BY <3>5, <3>3, <1>s, <1>9 DEF IsCall
      <3> QED
        BY <3>2, <3>4, <3>5
    <2> QED
      BY <2>1, <2>2
  <1>h. ShownAreUnique'
    BY <1>0, <1>6 DEF ViewInv, ShownAreUnique
  <1>u. LastUser' = LastUser
    <2>1. \A i \in DOMAIN view : says'[view[i].n] = says[view[i].n]
      BY <1>s DEF ShownIds
    <2>2. view \in Seq([n : Shown, done : BOOLEAN])
      BY <1>0 DEF ViewTypeOK
    <2>3. \A i \in DOMAIN view : \A j \in i + 1 .. Len(view) : j \in DOMAIN view
      BY <2>2
    <2>4. \A i \in DOMAIN view : (says'[view'[i].n] = "call" <=> says[view[i].n] = "call")
      BY <2>1, <1>0
    <2>5. LastUser' = { i \in DOMAIN view : /\ says'[view'[i].n] # "call"
                                           /\ \A j \in i + 1 .. Len(view) : says'[view'[j].n] = "call" }
      BY <1>0 DEF LastUser, IsCall
    <2>6. LastUser = { i \in DOMAIN view : /\ says[view[i].n] # "call"
                                          /\ \A j \in i + 1 .. Len(view) : says[view[j].n] = "call" }
      BY DEF LastUser, IsCall
    <2> QED
      BY <2>3, <2>4, <2>5, <2>6
  <1>i. EchoWillBeKnown'
    <2>1. EchoWillBeKnown
      BY DEF ViewInv
    <2>2. Members(uplink') \ apart' \subseteq ShownIds'
      BY <2>1, <1>6, <1>9 DEF EchoWillBeKnown
    <2>3. \A m \in Pending' \ apart' : m \in Pending \ apart
      <3> SUFFICES ASSUME NEW m \in ShownIds, m \notin apart',
                          m \in Members(uplink') \/ On("user", m)'
                   PROVE  m \in Pending
        BY <1>6, <1>9 DEF Pending, On, Members
      <3>1. m \in Shown /\ m \notin apart
        BY <1>6, <1>s, <1>7
      <3>2. CASE m = n
        BY <3>1, <3>2 DEF Pending
      <3>3. CASE m # n /\ On("user", m)'
        <4>1. On("user", m)
          BY <3>1, <3>3, <1>5
        <4> QED
          BY <4>1 DEF Pending, On, Members
      <3>4. CASE m \in Members(uplink')
        BY <3>4 DEF Pending
      <3> QED
        BY <3>2, <3>3, <3>4
    <2>4. \A m \in Pending' \ apart' : \E i \in LastUser' : view'[i].n = m
      BY <2>1, <2>3, <1>u, <1>0 DEF EchoWillBeKnown
    <2> QED
      BY <2>2, <2>4 DEF EchoWillBeKnown, Members
  <1>j. CallsAreNews'
    <2>1. CallsAreNews
      BY DEF ViewInv
    <2>2. \A m \in Made' \ apart' : On("call", m)' => On("call", m) /\ m \in Made \ apart
      <3> SUFFICES ASSUME NEW m \in Made' \ apart', On("call", m)'
                   PROVE  On("call", m) /\ m \in Made \ apart
        OBVIOUS
      <3>1. On("call", m)
        BY <1>5, <1>7
      <3> QED
        BY <3>1, <1>6, <1>w DEF On
    <2>3. \A i \in DOMAIN view : says'[view[i].n] = says[view[i].n]
      BY <1>s DEF ShownIds
    <2>4. \A m \in Made' \ apart' : On("call", m)' => m \notin ShownIds'
      BY <2>1, <2>2, <1>9 DEF CallsAreNews
    <2>5. \A i, j \in DOMAIN view' :
            /\ i < j /\ {view'[i].n, view'[j].n} \cap apart' = {}
            /\ says'[view'[i].n] = "call" /\ says'[view'[j].n] = "call"
            => view'[i].n < view'[j].n
      BY <2>1, <2>3, <1>0, <1>6 DEF CallsAreNews, IsCall
    <2>6. \A i \in DOMAIN view', m \in Made' \ apart' :
             On("call", m)' /\ says'[view'[i].n] = "call" /\ view'[i].n \notin apart' => view'[i].n < m
      BY <2>1, <2>2, <2>3, <1>0, <1>6 DEF CallsAreNews, IsCall
    <2> QED
      BY <2>4, <2>5, <2>6 DEF CallsAreNews, IsCall
  <1>k. ResultsFollow'
    <2>1. ResultsFollow
      BY DEF ViewInv
    <2>2. \A j \in DOMAIN wire' : wire'[j].type = "result" => j \in DOMAIN wire /\ wire'[j] = wire[j]
      BY <1>4 DEF Event
    <2>3. \A j \in DOMAIN wire : \A i \in 1 .. j - 1 : i \in DOMAIN wire
      BY <1>4
    <2>4. \A j \in DOMAIN wire' : wire'[j].type = "result" /\ wire'[j].n \notin apart' =>
             wire'[j].n \in ShownIds' \/ \E i \in 1 .. j - 1 : wire'[i] = Event("call", wire'[j].n)
      <3> TAKE j \in DOMAIN wire'
      <3> HAVE wire'[j].type = "result" /\ wire'[j].n \notin apart'
      <3>1. j \in DOMAIN wire /\ wire'[j] = wire[j] /\ wire[j].n \notin apart
        BY <2>2, <1>6
      <3>2. wire[j].n \in ShownIds \/ \E i \in 1 .. j - 1 : wire[i] = Event("call", wire[j].n)
        BY <2>1, <3>1 DEF ResultsFollow
      <3> QED
        BY <3>1, <3>2, <2>3, <1>4, <1>9
    <2>5. \A m \in results' \ apart' :
             On("result", m)' \/ (~On("call", m)' /\ \A i \in Places(m)' : view'[i].done)
      <3> SUFFICES ASSUME NEW m \in results', m \notin apart'
                   PROVE  On("result", m)' \/ (~On("call", m)' /\ \A i \in Places(m)' : view'[i].done)
        OBVIOUS
      <3>1. m \in results /\ m \notin apart /\ m \in Shown
        BY <1>0, <1>6 DEF ViewTypeOK
      <3>2. On("result", m) \/ (~On("call", m) /\ \A i \in Places(m) : view[i].done)
        BY <3>1, <2>1 DEF ResultsFollow
      <3>3. (On("result", m) => On("result", m)') /\ (On("call", m)' => On("call", m))
        BY <3>1, <1>5
      <3> QED
        BY <3>1, <3>2, <3>3, <1>0, <1>9
    <2> QED
      BY <2>4, <2>5 DEF ResultsFollow, Event
  <1>l. SpinnerWaits'
    <2>1. SpinnerWaits
      BY DEF ViewInv
    <2>2. \A i \in DOMAIN wire' : wire'[i].type = "start" =>
             \/ phase' = "running" \/ losses' > 0
             \/ \E j \in i + 1 .. Len(wire') : wire'[j].type = "complete"
      <3> SUFFICES ASSUME NEW i \in DOMAIN wire', wire'[i].type = "start",
                          i \in DOMAIN wire, wire[i].type = "start"
                   PROVE  \/ phase' = "running" \/ losses' > 0
                          \/ \E j \in i + 1 .. Len(wire') : wire'[j].type = "complete"
        BY <1>4 DEF Event
      <3>1. CASE phase = "running" \/ losses > 0
        BY <3>1, <1>0, <1>1
      <3>2. CASE \E j \in i + 1 .. Len(wire) : wire[j].type = "complete"
        <4>1. PICK j \in i + 1 .. Len(wire) : wire[j].type = "complete"
          BY <3>2
        <4>2. j \in DOMAIN wire /\ j \in i + 1 .. Len(wire')
          BY <4>1, <1>4
        <4> QED
          BY <4>1, <4>2, <1>4
      <3> QED
        BY <2>1, <3>1, <3>2 DEF SpinnerWaits
    <2>3. ~connected' => losses' > 0
      BY <2>1, <1>0 DEF SpinnerWaits
    <2>4. On("complete", 0) => On("complete", 0)'
      BY <1>5
    <2>5. loading' => \/ Fetching' \/ phase' = "running" \/ On("complete", 0)' \/ losses' > 0
                      \/ \E m \in ShownIds' : says'[m] # "call" /\ m \notin Members(log')
      BY <2>1, <2>4, <1>0, <1>1, <1>9, <1>s DEF SpinnerWaits, IsCall
    <2> QED
      BY <2>2, <2>3, <2>5 DEF SpinnerWaits, Members, IsCall
  <1> QED
    BY <1>t, <1>a, <1>b, <1>c, <1>d, <1>e, <1>f, <1>g, <1>h, <1>i, <1>j, <1>k, <1>l DEF ViewInv

(* A message waits while it is on its way, or its echo is.                 *)
LEMMA PendingIs ==
    ASSUME NEW n
    PROVE  n \in Pending <=> n \in ShownIds /\ (n \in Members(uplink) \/ On("user", n))
  BY DEF Pending, On, Members
LEMMA PendingIsNext ==
    \A n : n \in Pending' <=> n \in ShownIds' /\ (n \in Members(uplink)' \/ On("user", n)')
  <1> TAKE n
  <1>1. (n \in Pending <=> n \in ShownIds /\ (n \in Members(uplink) \/ On("user", n)))'
    BY PendingIs, PTL
  <1> QED
    BY <1>1

(* One event is broadcast.                                                 *)
LEMMA OneTold ==
    ASSUME wire \in Seq(WireEvents), NEW e \in WireEvents, Tell(<<e>>)
    PROVE  /\ wire' \in Seq(WireEvents)
           /\ \A i \in DOMAIN wire : i \in DOMAIN wire' /\ wire'[i] = wire[i]
           /\ \A i \in DOMAIN wire' : i \in DOMAIN wire \/ (connected /\ i = Len(wire) + 1 /\ wire'[i] = e)
           /\ connected => Len(wire) + 1 \in DOMAIN wire' /\ wire'[Len(wire) + 1] = e
           /\ DOMAIN wire = 1 .. Len(wire) /\ Len(wire) \in Nat
           /\ DOMAIN wire' = 1 .. Len(wire') /\ Len(wire') \in Nat /\ Len(wire) <= Len(wire')
           /\ \A ty, m : On(ty, m)' <=> On(ty, m) \/ (connected /\ e.type = ty /\ e.n = m)
           /\ Announced \subseteq Announced'
           /\ connected /\ e.type \in {"user", "call"} => e.n \in Announced'
  <1>1. PICK es : es = <<e>>
    OBVIOUS
  <1>2. es \in Seq(WireEvents) /\ DOMAIN es = {1} /\ es[1] = e /\ Len(es) = 1 /\ Tell(es)
    BY <1>1
  <1>3. /\ wire' \in Seq(WireEvents)
        /\ \A i \in DOMAIN wire : i \in DOMAIN wire' /\ wire'[i] = wire[i]
        /\ \A i \in DOMAIN wire' :
              i \in DOMAIN wire \/ (connected /\ \E k \in DOMAIN es : i = Len(wire) + k /\ wire'[i] = es[k])
        /\ connected => \A k \in DOMAIN es : /\ Len(wire) + k \in DOMAIN wire'
                                             /\ wire'[Len(wire) + k] = es[k]
        /\ DOMAIN wire = 1 .. Len(wire) /\ Len(wire) \in Nat
        /\ DOMAIN wire' = 1 .. Len(wire') /\ Len(wire') \in Nat
        /\ Len(wire') = (IF connected THEN Len(wire) + Len(es) ELSE Len(wire))
    BY <1>2, Telling
  <1>4. Len(wire) <= Len(wire')
    BY <1>2, <1>3
  <1>5. \A i \in DOMAIN wire' : i \in DOMAIN wire \/ (connected /\ i = Len(wire) + 1 /\ wire'[i] = e)
    BY <1>2, <1>3
  <1>6. connected => Len(wire) + 1 \in DOMAIN wire' /\ wire'[Len(wire) + 1] = e
    BY <1>2, <1>3
  <1>7. \A ty, m : On(ty, m)' <=> On(ty, m) \/ (connected /\ e.type = ty /\ e.n = m)
    <2> TAKE ty, m
    <2>1. ASSUME On(ty, m)' PROVE On(ty, m) \/ (connected /\ e.type = ty /\ e.n = m)
      BY <2>1, <1>3, <1>5 DEF On
    <2>2. ASSUME On(ty, m) PROVE On(ty, m)'
      BY <2>2, <1>3 DEF On
    <2>3. ASSUME connected, e.type = ty, e.n = m PROVE On(ty, m)'
      BY <2>3, <1>6 DEF On
    <2> QED
      BY <2>1, <2>2, <2>3
  <1>8. Announced \subseteq Announced'
    BY <1>7, AnnouncedIs, AnnouncedIsNext
  <1>9. connected /\ e.type \in {"user", "call"} => e.n \in Announced'
    BY <1>7, AnnouncedIsNext
  <1> QED
    BY <1>3, <1>4, <1>5, <1>6, <1>7, <1>8, <1>9

(* What is known of the wire and of the tab does not depend on the server. *)
LEMMA SameSight ==
    ASSUME says' = says, wire' = wire, uplink' = uplink, view' = view
    PROVE  /\ Made' = Made /\ ShownIds' = ShownIds /\ Announced' = Announced
           /\ LastUser' = LastUser /\ Pending' = Pending
           /\ \A ty, m : On(ty, m)' <=> On(ty, m)
           /\ \A m : (IsCall(m)' <=> IsCall(m)) /\ Places(m)' = Places(m)
  BY DEF Made, ShownIds, Announced, Members, LastUser, Pending, On, IsCall, Places

(* So what the tab has does not change by what it cannot see.              *)
LEMMA SightKeeps ==
    ASSUME ViewInv, says' = says, wire' = wire, uplink' = uplink, view' = view,
           results' = results, apart \subseteq apart'
    PROVE  ShownAreUnique' /\ EchoWillBeKnown' /\ CallsAreNews' /\ ResultsFollow'
  <1>1. ShownAreUnique /\ EchoWillBeKnown /\ CallsAreNews /\ ResultsFollow
    BY DEF ViewInv
  <1>2. /\ Made' = Made /\ ShownIds' = ShownIds
        /\ LastUser' = LastUser /\ Pending' = Pending
        /\ \A ty, m : On(ty, m)' <=> On(ty, m)
        /\ \A m : Places(m)' = Places(m)
    BY SameSight
  <1>3. ShownAreUnique'
    BY <1>1 DEF ShownAreUnique
  <1>4. EchoWillBeKnown'
    BY <1>1, <1>2 DEF EchoWillBeKnown, Members
  <1>5. CallsAreNews'
    <2>1. \A n \in Made' \ apart' : On("call", n)' => n \notin ShownIds'
      BY <1>1, <1>2 DEF CallsAreNews
    <2>2. \A i, j \in DOMAIN view' :
            /\ i < j /\ {view'[i].n, view'[j].n} \cap apart' = {}
            /\ says'[view'[i].n] = "call" /\ says'[view'[j].n] = "call"
            => view'[i].n < view'[j].n
      BY <1>1 DEF CallsAreNews, IsCall
    <2>3. \A i \in DOMAIN view', n \in Made' \ apart' :
             On("call", n)' /\ says'[view'[i].n] = "call" /\ view'[i].n \notin apart' => view'[i].n < n
      BY <1>1, <1>2 DEF CallsAreNews, IsCall
    <2> QED
      BY <2>1, <2>2, <2>3 DEF CallsAreNews, IsCall
  <1>6. ResultsFollow'
    <2>1. \A j \in DOMAIN wire : wire[j].type = "result" /\ wire[j].n \notin apart' =>
             wire[j].n \in ShownIds \/ \E i \in 1 .. j - 1 : wire[i] = Event("call", wire[j].n)
      BY <1>1 DEF ResultsFollow
    <2>2. \A n \in results \ apart' :
             On("result", n)' \/ (~On("call", n)' /\ \A i \in Places(n)' : view[i].done)
      BY <1>1, <1>2 DEF ResultsFollow
    <2> QED
      BY <1>2, <2>1, <2>2 DEF ResultsFollow, Event
  <1> QED
    BY <1>3, <1>4, <1>5, <1>6

(* A call is announced.                                                    *)
LEMMA CallToolKeeps ==
    ASSUME ViewInv, CallTool
    PROVE  ViewInv'
  <1>0. /\ ViewTypeOK /\ wire \in Seq(WireEvents) /\ called \in Seq(Shown)
        /\ connected' = connected /\ fetch' = fetch /\ losses' = losses
        /\ log' = log /\ fetchable' = fetchable /\ phase' = phase /\ phase = "running"
        /\ results' = results /\ uplink' = uplink
        /\ viewing' = viewing /\ view' = view /\ loading' = loading
        /\ Fetching' = Fetching
    BY DEF ViewInv, CallTool, ServerOnly, lineVars, tabVars, Fetching, ViewTypeOK
  <1> DEFINE n == New
  <1>1. n = Len(says) + 1 /\ n \in Shown /\ says' = Append(says, "call") /\ called' = Append(called, n)
        /\ Tell(<<Event("call", n)>>) /\ apart' = apart \cup Astray(n)
    BY DEF CallTool, Make, New, Doubt
  <1>2. /\ says' \in Seq(Writings \cup {"call"}) /\ Len(says') <= MaxShown
        /\ Made' = Made \cup {n} /\ \A m \in Made : m < n /\ m \in Nat /\ says'[m] = says[m]
        /\ says'[n] = "call" /\ n \in Nat /\ n \notin Made /\ n # 0
    <2>1. says \in Seq(Writings \cup {"call"}) /\ Len(says) \in Nat /\ Made = 1 .. Len(says)
      BY <1>0 DEF ViewTypeOK, Made
    <2>2. /\ Append(says, "call") \in Seq(Writings \cup {"call"}) /\ Len(Append(says, "call")) = Len(says) + 1
          /\ DOMAIN Append(says, "call") = 1 .. Len(says) + 1
          /\ \A m \in 1 .. Len(says) : Append(says, "call")[m] = says[m]
          /\ Append(says, "call")[Len(says) + 1] = "call"
      BY <2>1
    <2> QED
      BY <2>1, <2>2, <1>1, ViewAssumption DEF Made, Shown
  <1> HIDE DEF n
  <1>3. Event("call", n) \in WireEvents /\ Event("call", n).type = "call" /\ Event("call", n).n = n
    BY <1>1, EventTypes DEF Event
  <1>4. /\ wire' \in Seq(WireEvents)
        /\ \A i \in DOMAIN wire : i \in DOMAIN wire' /\ wire'[i] = wire[i]
        /\ \A i \in DOMAIN wire' :
              i \in DOMAIN wire \/ (connected /\ i = Len(wire) + 1 /\ wire'[i] = Event("call", n))
        /\ connected => Len(wire) + 1 \in DOMAIN wire' /\ wire'[Len(wire) + 1] = Event("call", n)
        /\ DOMAIN wire = 1 .. Len(wire) /\ Len(wire) \in Nat
        /\ DOMAIN wire' = 1 .. Len(wire') /\ Len(wire') \in Nat /\ Len(wire) <= Len(wire')
        /\ \A ty, m : On(ty, m)' <=> On(ty, m) \/ (connected /\ Event("call", n).type = ty /\ Event("call", n).n = m)
        /\ Announced \subseteq Announced'
        /\ connected /\ Event("call", n).type \in {"user", "call"} => Event("call", n).n \in Announced'
    BY <1>0, <1>1, <1>3, OneTold
  <1>5. /\ \A ty, m : On(ty, m)' <=> On(ty, m) \/ (connected /\ ty = "call" /\ m = n)
        /\ connected => n \in Announced'
    BY <1>3, <1>4
  <1>6. (~connected \/ Fetching => n \in apart') /\ apart \subseteq apart' /\ apart' \subseteq apart \cup {n}
    BY <1>1 DEF Astray
  <1>7. /\ Members(called') = Members(called) \cup {n} /\ called' \in Seq(Shown)
        /\ DOMAIN called = 1 .. Len(called) /\ Len(called) \in Nat
        /\ \A i \in DOMAIN called' : \/ i \in DOMAIN called /\ called'[i] = called[i]
                                     \/ i = Len(called) + 1 /\ called'[i] = n
    BY <1>0, <1>1, MembersAppend
  <1>8. AllWereMade /\ KindsAgree /\ QueriesAreApart /\ CallsRise /\ FetchKnowsTheRest
    BY DEF ViewInv
  <1>9. ShownIds' = ShownIds /\ \A m : Places(m)' = Places(m)
    BY <1>0 DEF ShownIds, Places
  <1>w. \A i \in DOMAIN wire : /\ wire[i] \in WireEvents
                               /\ wire[i].type \in {"user", "call", "result"} => wire[i].n \in Made
                               /\ wire[i].type \in {"start", "complete"} => wire[i].n = 0
    BY <1>0, <1>8, WireNames
  <1>t. ViewTypeOK'
    BY <1>0, <1>1, <1>2, <1>4, <1>6, <1>7 DEF ViewTypeOK
  <1>a. AllWereMade'
    <2>1. /\ Members(log') \subseteq Made' /\ Members(called') \subseteq Made'
          /\ Members(uplink') \subseteq Made' /\ ShownIds' \subseteq Made' /\ results' \subseteq Made'
          /\ apart' \subseteq Made'
      BY <1>0, <1>2, <1>6, <1>7, <1>9, <1>8 DEF AllWereMade
    <2>2. \A i \in DOMAIN wire' : wire'[i].n \in Made' \cup {0}
      BY <1>2, <1>4, <1>8 DEF AllWereMade, Event
    <2> QED
      BY <2>1, <2>2 DEF AllWereMade, Members
  <1>m. \A m \in Members(log) \cup Members(called) \cup Members(uplink) \cup ShownIds \cup results :
           m \in Made /\ m < n /\ m # n /\ m \in Nat /\ says'[m] = says[m]
    BY <1>2, <1>8 DEF AllWereMade
  <1>b. KindsAgree'
    <2>1. \A m \in Members(called') \cup results' : says'[m] = "call"
      BY <1>0, <1>2, <1>7, <1>8, <1>m DEF KindsAgree, IsCall
    <2>2. \A m \in Members(uplink') : says'[m] # "call"
      BY <1>0, <1>8, <1>m DEF KindsAgree, IsCall
    <2>3. \A i \in DOMAIN wire' : wire'[i].type = "user" => says'[wire'[i].n] # "call"
      BY <1>2, <1>4, <1>8, <1>w DEF KindsAgree, Event, IsCall
    <2>4. \A i \in DOMAIN wire' : wire'[i].type \in {"call", "result"} => says'[wire'[i].n] = "call"
      BY <1>2, <1>4, <1>8, <1>w DEF KindsAgree, Event, IsCall
    <2> QED
      BY <2>1, <2>2, <2>3, <2>4 DEF KindsAgree, IsCall, Members
  <1>c. QueriesAreApart'
    <2>1. \A m \in Members(uplink') : m \notin Members(log') /\ ~On("user", m)'
      BY <1>0, <1>5, <1>8 DEF QueriesAreApart
    <2>2. \A i, j \in DOMAIN wire' :
             wire'[i].type = "user" /\ wire'[j].type = "user" /\ wire'[i].n = wire'[j].n => i = j
      BY <1>4, <1>8 DEF QueriesAreApart, Event
    <2> QED
      BY <1>0, <1>8, <2>1, <2>2 DEF QueriesAreApart, Members
  <1>d. CallsRise'
    <2>0. \A i \in DOMAIN log : log[i] < n /\ (says'[log[i]] = "call" => says[log[i]] = "call")
      BY <1>m DEF Members
    <2>1. \A i, j \in DOMAIN log' :
             i < j /\ says'[log'[i]] = "call" /\ says'[log'[j]] = "call" => log'[i] < log'[j]
      BY <2>0, <1>0, <1>8 DEF CallsRise, IsCall
    <2>2. \A i \in DOMAIN log', j \in DOMAIN called' : says'[log'[i]] = "call" => log'[i] < called'[j]
      BY <2>0, <1>0, <1>7, <1>8 DEF CallsRise, IsCall
    <2>3. \A i, j \in DOMAIN wire' :
             i < j /\ wire'[i].type = "call" /\ wire'[j].type = "call" => wire'[i].n < wire'[j].n
      <3>1. \A i \in DOMAIN wire : wire[i].type = "call" => wire[i].n < n
        BY <1>w, <1>2
      <3> QED
        BY <3>1, <1>4, <1>8 DEF CallsRise, Event
    <2>4. \A i, j \in DOMAIN called' : i < j => called'[i] < called'[j]
      <3>1. \A i \in DOMAIN called : called[i] < n
        BY <1>m DEF Members
      <3> QED
        BY <3>1, <1>7, <1>8 DEF CallsRise
    <2> QED
      BY <2>1, <2>2, <2>3, <2>4 DEF CallsRise, IsCall
  <1>e. FetchKnowsTheRest'
    <2>1. Fetching => /\ Members(called') \cup Members(uplink') \subseteq apart'
                      /\ \A i \in DOMAIN wire' : wire'[i].n \in apart' \cup {0}
      BY <1>0, <1>4, <1>6, <1>7, <1>8 DEF FetchKnowsTheRest, Event
    <2>2. \A f \in Fetches :
             /\ fetch[f].upto <= fetchable
             /\ fetch[f].at = "found" => \A i \in DOMAIN log : i > fetch[f].upto => log[i] \in apart'
             /\ fetch[f].at \in {"asked", "failed"} => \A i \in DOMAIN log : i > fetchable => log[i] \in apart'
      BY <1>6, <1>8 DEF FetchKnowsTheRest
    <2> QED
      BY <1>0, <2>1, <2>2 DEF FetchKnowsTheRest, Members
  <1>f. FetchWouldKnow'
    <2> SUFFICES ASSUME view' = <<>>, ~Fetching'
                 PROVE  /\ \A i \in DOMAIN log' : i > fetchable' => log'[i] \in apart' \cup Announced'
                        /\ Members(called') \subseteq apart' \cup Announced'
                        /\ Members(uplink') \subseteq apart'
      BY DEF FetchWouldKnow, Members
    <2>1. /\ \A i \in DOMAIN log : i > fetchable => log[i] \in apart \cup Announced
          /\ Members(called) \subseteq apart \cup Announced
          /\ Members(uplink) \subseteq apart
      BY <1>0 DEF ViewInv, FetchWouldKnow
    <2> QED
      BY <1>0, <1>4, <1>5, <1>6, <1>7, <2>1
  <1>g. TabFollows'
    <2> SUFFICES ASSUME view' # <<>>, ~Fetching', NEW m \in (Members(log') \cup Members(called')) \ apart'
                 PROVE  \/ m \in ShownIds' \cup Announced'
                        \/ says'[m] # "call" /\ \E k \in ShownIds' : k # m /\ says'[k] = says'[m]
      BY DEF TabFollows, Members, IsCall
    <2>1. CASE m = n
      BY <2>1, <1>5, <1>6
    <2>2. CASE m # n
      <3>1. m \in (Members(log) \cup Members(called)) \ apart
        BY <2>2, <1>0, <1>6, <1>7
      <3>2. \/ m \in ShownIds \cup Announced
            \/ ~IsCall(m) /\ \E k \in ShownIds : k # m /\ says[k] = says[m]
        BY <3>1, <1>0 DEF ViewInv, TabFollows
      <3> QED
        BY <3>1, <3>2, <1>4, <1>m, <1>9 DEF IsCall
    <2> QED
      BY <2>1, <2>2
  <1>h. ShownAreUnique'
    BY <1>0, <1>6 DEF ViewInv, ShownAreUnique
  <1>v. \A i \in DOMAIN view : says'[view[i].n] = says[view[i].n] /\ view[i].n < n /\ view[i].n \in Made
    BY <1>m DEF ShownIds
  <1>u. LastUser' = LastUser
    <2>2. view \in Seq([n : Shown, done : BOOLEAN])
      BY <1>0 DEF ViewTypeOK
    <2>3. \A i \in DOMAIN view : \A j \in i + 1 .. Len(view) : j \in DOMAIN view
      BY <2>2
    <2>4. \A i \in DOMAIN view : (says'[view'[i].n] = "call" <=> says[view[i].n] = "call")
      BY <1>v, <1>0
    <2>5. LastUser' = { i \in DOMAIN view : /\ says'[view'[i].n] # "call"
                                           /\ \A j \in i + 1 .. Len(view) : says'[view'[j].n] = "call" }
      BY <1>0 DEF LastUser, IsCall
    <2>6. LastUser = { i \in DOMAIN view : /\ says[view[i].n] # "call"
                                          /\ \A j \in i + 1 .. Len(view) : says[view[j].n] = "call" }
      BY DEF LastUser, IsCall
    <2> QED
      BY <2>3, <2>4, <2>5, <2>6
  <1>i. EchoWillBeKnown'
    <2>1. EchoWillBeKnown
      BY DEF ViewInv
    <2>2. \A m : On("user", m)' => On("user", m)
      BY <1>5
    <2>3. Pending' \subseteq Pending
      BY <2>2, <1>0, <1>9, PendingIs, PendingIsNext DEF Members
    <2> QED
      BY <2>1, <2>3, <1>0, <1>6, <1>9, <1>u DEF EchoWillBeKnown, Members
  <1>j. CallsAreNews'
    <2>1. CallsAreNews
      BY DEF ViewInv
    <2>2. \A m \in Made' \ apart' : On("call", m)' => m = n \/ (On("call", m) /\ m \in Made \ apart)
      BY <1>2, <1>5, <1>6
    <2>3. n \notin ShownIds
      BY <1>m
    <2>4. \A m \in Made' \ apart' : On("call", m)' => m \notin ShownIds'
      BY <2>1, <2>2, <2>3, <1>9 DEF CallsAreNews
    <2>5. \A i, j \in DOMAIN view' :
            /\ i < j /\ {view'[i].n, view'[j].n} \cap apart' = {}
            /\ says'[view'[i].n] = "call" /\ says'[view'[j].n] = "call"
            => view'[i].n < view'[j].n
      BY <2>1, <1>v, <1>0, <1>6 DEF CallsAreNews, IsCall
    <2>6. \A i \in DOMAIN view', m \in Made' \ apart' :
             On("call", m)' /\ says'[view'[i].n] = "call" /\ view'[i].n \notin apart' => view'[i].n < m
      BY <2>1, <2>2, <1>v, <1>0, <1>6 DEF CallsAreNews, IsCall
    <2> QED
      BY <2>4, <2>5, <2>6 DEF CallsAreNews, IsCall
  <1>k. ResultsFollow'
    <2>1. ResultsFollow
      BY DEF ViewInv
    <2>2. \A j \in DOMAIN wire' : wire'[j].type = "result" => j \in DOMAIN wire /\ wire'[j] = wire[j]
      BY <1>4 DEF Event
    <2>3. \A j \in DOMAIN wire : \A i \in 1 .. j - 1 : i \in DOMAIN wire
      BY <1>4
    <2>4. \A j \in DOMAIN wire' : wire'[j].type = "result" /\ wire'[j].n \notin apart' =>
             wire'[j].n \in ShownIds' \/ \E i \in 1 .. j - 1 : wire'[i] = Event("call", wire'[j].n)
      <3> TAKE j \in DOMAIN wire'
      <3> HAVE wire'[j].type = "result" /\ wire'[j].n \notin apart'
      <3>1. j \in DOMAIN wire /\ wire'[j] = wire[j] /\ wire[j].n \notin apart
        BY <2>2, <1>6
      <3>2. wire[j].n \in ShownIds \/ \E i \in 1 .. j - 1 : wire[i] = Event("call", wire[j].n)
        BY <2>1, <3>1 DEF ResultsFollow
      <3> QED
        BY <3>1, <3>2, <2>3, <1>4, <1>9
    <2>5. \A m \in results' \ apart' :
             On("result", m)' \/ (~On("call", m)' /\ \A i \in Places(m)' : view'[i].done)
      <3> SUFFICES ASSUME NEW m \in results', m \notin apart'
                   PROVE  On("result", m)' \/ (~On("call", m)' /\ \A i \in Places(m)' : view'[i].done)
        OBVIOUS
      <3>1. m \in results /\ m \notin apart /\ m # n
        BY <1>0, <1>6, <1>m
      <3>2. On("result", m) \/ (~On("call", m) /\ \A i \in Places(m) : view[i].done)
        BY <3>1, <2>1 DEF ResultsFollow
      <3>3. (On("result", m) => On("result", m)') /\ (On("call", m)' => On("call", m))
        BY <3>1, <1>5
      <3> QED
        BY <3>1, <3>2, <3>3, <1>0, <1>9
    <2> QED
      BY <2>4, <2>5 DEF ResultsFollow, Event
  <1>l. SpinnerWaits'
    BY <1>0 DEF ViewInv, SpinnerWaits
  <1> QED
    BY <1>t, <1>a, <1>b, <1>c, <1>d, <1>e, <1>f, <1>g, <1>h, <1>i, <1>j, <1>k, <1>l DEF ViewInv

(* A result or the end of a run is broadcast.                              *)
LEMMA EndsToldKeep ==
    ASSUME ViewInv, NEW e \in WireEvents, Tell(<<e>>), e.type \in {"result", "complete"},
           e.type = "result" => e.n \in Made /\ IsCall(e.n),
           Fetching => e.n \in apart' \cup {0},
           says' = says, log' = log, called' = called, uplink' = uplink, view' = view, fetch' = fetch,
           fetchable' \in Nat, fetchable' >= fetchable, apart \subseteq apart', apart' \subseteq Made,
           results' \subseteq Made, \A n \in results' : IsCall(n)
    PROVE  /\ AllWereMade' /\ KindsAgree' /\ QueriesAreApart' /\ CallsRise'
           /\ FetchKnowsTheRest' /\ FetchWouldKnow' /\ TabFollows'
           /\ ShownAreUnique' /\ EchoWillBeKnown' /\ CallsAreNews'
  <1>0. /\ ViewTypeOK /\ wire \in Seq(WireEvents) /\ Fetching' = Fetching
        /\ Made' = Made /\ ShownIds' = ShownIds /\ LastUser' = LastUser
        /\ \A m : (IsCall(m)' <=> IsCall(m))
    BY DEF ViewInv, ViewTypeOK, Fetching, Made, ShownIds, LastUser, IsCall
  <1>1. /\ AllWereMade /\ KindsAgree /\ QueriesAreApart /\ CallsRise /\ FetchKnowsTheRest
        /\ FetchWouldKnow /\ TabFollows /\ ShownAreUnique /\ EchoWillBeKnown /\ CallsAreNews
    BY DEF ViewInv
  <1>2. /\ wire' \in Seq(WireEvents)
        /\ \A i \in DOMAIN wire : i \in DOMAIN wire' /\ wire'[i] = wire[i]
        /\ \A i \in DOMAIN wire' : i \in DOMAIN wire \/ wire'[i] = e
        /\ \A ty, m : On(ty, m)' <=> On(ty, m) \/ (connected /\ e.type = ty /\ e.n = m)
        /\ Announced \subseteq Announced'
    BY <1>0, OneTold
  <1>3. \A m : \A ty \in {"user", "call"} : On(ty, m)' <=> On(ty, m)
    BY <1>2
  <1>4. e.n \in Made \cup {0}
    BY DEF WireEvents
  <1>a. AllWereMade'
    <2>1. \A i \in DOMAIN wire' : wire'[i].n \in Made' \cup {0}
      BY <1>0, <1>1, <1>2, <1>4 DEF AllWereMade
    <2> QED
      BY <2>1, <1>0, <1>1 DEF AllWereMade, Members
  <1>b. KindsAgree'
    <2>1. \A i \in DOMAIN wire' : wire'[i].type = "user" => ~IsCall(wire'[i].n)
      BY <1>1, <1>2 DEF KindsAgree
    <2>2. \A i \in DOMAIN wire' : wire'[i].type \in {"call", "result"} => IsCall(wire'[i].n)
      BY <1>1, <1>2 DEF KindsAgree
    <2>3. /\ \A n \in Members(called) \cup results' : IsCall(n)
          /\ \A n \in Members(uplink) : ~IsCall(n)
      BY <1>1 DEF KindsAgree
    <2> QED
      BY <2>1, <2>2, <2>3 DEF KindsAgree, IsCall, Members
  <1>c. QueriesAreApart'
    <2>1. \A m \in Members(uplink) : m \notin Members(log) /\ ~On("user", m)'
      BY <1>1, <1>3 DEF QueriesAreApart
    <2>2. \A i, j \in DOMAIN wire' :
             wire'[i].type = "user" /\ wire'[j].type = "user" /\ wire'[i].n = wire'[j].n => i = j
      BY <1>1, <1>2 DEF QueriesAreApart
    <2> QED
      BY <1>1, <2>1, <2>2 DEF QueriesAreApart, Members
  <1>d. CallsRise'
    <2>1. \A i, j \in DOMAIN wire' :
             i < j /\ wire'[i].type = "call" /\ wire'[j].type = "call" => wire'[i].n < wire'[j].n
      BY <1>1, <1>2 DEF CallsRise
    <2> QED
      BY <1>1, <2>1 DEF CallsRise, IsCall
  <1>e. FetchKnowsTheRest'
    <2>0. /\ fetchable \in Nat /\ \A f \in Fetches : fetch[f].upto \in Nat
          /\ \A i \in DOMAIN log : i \in Nat
      BY <1>0 DEF ViewTypeOK
    <2>1. Fetching => /\ Members(called) \cup Members(uplink) \subseteq apart'
                      /\ \A i \in DOMAIN wire' : wire'[i].n \in apart' \cup {0}
      BY <1>1, <1>2 DEF FetchKnowsTheRest
    <2>2. \A f \in Fetches :
             /\ fetch[f].upto <= fetchable'
             /\ fetch[f].at = "found" => \A i \in DOMAIN log : i > fetch[f].upto => log[i] \in apart'
             /\ fetch[f].at \in {"asked", "failed"} => \A i \in DOMAIN log : i > fetchable' => log[i] \in apart'
      <3> TAKE f \in Fetches
      <3>1. fetch[f].upto <= fetchable'
        BY <1>1, <2>0 DEF FetchKnowsTheRest
      <3>2. fetch[f].at = "found" => \A i \in DOMAIN log : i > fetch[f].upto => log[i] \in apart'
        BY <1>1 DEF FetchKnowsTheRest
      <3>3. \A i \in DOMAIN log : i > fetchable' => i > fetchable
        BY <2>0
      <3>4. fetch[f].at \in {"asked", "failed"} => \A i \in DOMAIN log : i > fetchable' => log[i] \in apart'
        BY <1>1, <3>3 DEF FetchKnowsTheRest
      <3> QED
        BY <3>1, <3>2, <3>4
    <2> QED
      BY <1>0, <2>1, <2>2 DEF FetchKnowsTheRest, Members
  <1>f. FetchWouldKnow'
    <2>0. fetchable \in Nat /\ \A i \in DOMAIN log : i \in Nat /\ (i > fetchable' => i > fetchable)
      BY <1>0 DEF ViewTypeOK
    <2> QED
      BY <1>0, <1>1, <1>2, <2>0 DEF FetchWouldKnow, Members
  <1>g. TabFollows'
    <2> SUFFICES ASSUME view' # <<>>, ~Fetching', NEW m \in (Members(log) \cup Members(called)) \ apart'
                 PROVE  \/ m \in ShownIds' \cup Announced'
                        \/ ~IsCall(m)' /\ \E k \in ShownIds' : k # m /\ says'[k] = says'[m]
      BY DEF TabFollows, Members
    <2>1. \/ m \in ShownIds \cup Announced
          \/ ~IsCall(m) /\ \E k \in ShownIds : k # m /\ says[k] = says[m]
      BY <1>0, <1>1 DEF TabFollows
    <2> QED
      BY <2>1, <1>0, <1>2
  <1>h. ShownAreUnique'
    BY <1>1 DEF ShownAreUnique
  <1>i. EchoWillBeKnown'
    <2>1. Pending' \subseteq Pending
      BY <1>0, <1>3, PendingIs, PendingIsNext DEF Members
    <2> QED
      BY <2>1, <1>0, <1>1 DEF EchoWillBeKnown, Members
  <1>j. CallsAreNews'
    <2>1. \A n \in Made' \ apart' : On("call", n)' => n \notin ShownIds'
      BY <1>0, <1>1, <1>3 DEF CallsAreNews
    <2>2. \A i, j \in DOMAIN view' :
            /\ i < j /\ {view'[i].n, view'[j].n} \cap apart' = {}
            /\ says'[view'[i].n] = "call" /\ says'[view'[j].n] = "call"
            => view'[i].n < view'[j].n
      BY <1>1 DEF CallsAreNews, IsCall
    <2>3. \A i \in DOMAIN view', n \in Made' \ apart' :
             On("call", n)' /\ says'[view'[i].n] = "call" /\ view'[i].n \notin apart' => view'[i].n < n
      BY <1>0, <1>1, <1>3 DEF CallsAreNews, IsCall
    <2> QED
      BY <2>1, <2>2, <2>3 DEF CallsAreNews, IsCall
  <1> QED
    BY <1>a, <1>b, <1>c, <1>d, <1>e, <1>f, <1>g, <1>h, <1>i, <1>j

(* A call has its result, which the tab is told.                           *)
LEMMA ToolAnswersKeeps ==
    ASSUME ViewInv, NEW n \in Shown, ToolAnswers(n)
    PROVE  ViewInv'
  <1>0. /\ ViewTypeOK /\ wire \in Seq(WireEvents) /\ says' = says /\ log' = log /\ fetchable' = fetchable
        /\ phase' = phase /\ called' = called /\ uplink' = uplink /\ connected' = connected
        /\ fetch' = fetch /\ losses' = losses /\ viewing' = viewing /\ view' = view /\ loading' = loading
        /\ n \in Members(called) /\ results' = results \cup {n} /\ Tell(<<Event("result", n)>>)
        /\ apart' = apart \cup Astray(n)
    BY DEF ViewInv, ToolAnswers, ServerOnly, lineVars, tabVars, ViewTypeOK, Doubt
  <1>1. /\ AllWereMade /\ KindsAgree /\ FetchWouldKnow /\ TabFollows /\ ResultsFollow
    BY DEF ViewInv
  <1>2. n \in Made /\ IsCall(n)
    BY <1>0, <1>1 DEF AllWereMade, KindsAgree
  <1>3. (~connected \/ Fetching => n \in apart') /\ apart \subseteq apart' /\ apart' \subseteq apart \cup {n}
    BY <1>0 DEF Astray
  <1>4. /\ Event("result", n) \in WireEvents /\ Event("result", n).type = "result" /\ Event("result", n).n = n
        /\ fetchable' \in Nat /\ fetchable' >= fetchable
    <2>1. fetchable' \in Nat /\ fetchable' >= fetchable
      BY <1>0 DEF ViewTypeOK
    <2>2. Event("result", n).type = "result" /\ Event("result", n).n = n
      BY DEF Event
    <2> QED
      BY <2>1, <2>2, EventTypes
  <1>5. /\ results' \subseteq Made /\ apart' \subseteq Made /\ \A m \in results' : IsCall(m)
    BY <1>0, <1>1, <1>2, <1>3 DEF AllWereMade, KindsAgree
  <1>6. PICK e : e = Event("result", n)
    OBVIOUS
  <1>7. /\ AllWereMade' /\ KindsAgree' /\ QueriesAreApart' /\ CallsRise'
        /\ FetchKnowsTheRest' /\ FetchWouldKnow' /\ TabFollows'
        /\ ShownAreUnique' /\ EchoWillBeKnown' /\ CallsAreNews'
    <2>1. e \in WireEvents /\ Tell(<<e>>) /\ e.type = "result" /\ e.n = n
      BY <1>0, <1>4, <1>6
    <2> QED
      BY <2>1, <1>0, <1>2, <1>3, <1>4, <1>5, EndsToldKeep
  <1>8. /\ wire' \in Seq(WireEvents)
        /\ \A i \in DOMAIN wire : i \in DOMAIN wire' /\ wire'[i] = wire[i]
        /\ \A i \in DOMAIN wire' :
              i \in DOMAIN wire \/ (connected /\ i = Len(wire) + 1 /\ wire'[i] = Event("result", n))
        /\ DOMAIN wire = 1 .. Len(wire) /\ Len(wire) \in Nat
        /\ DOMAIN wire' = 1 .. Len(wire') /\ Len(wire') \in Nat /\ Len(wire) <= Len(wire')
        /\ \A ty, m : On(ty, m)' <=> On(ty, m) \/ (connected /\ ty = "result" /\ m = n)
    <2>1. e \in WireEvents /\ Tell(<<e>>) /\ e.type = "result" /\ e.n = n
      BY <1>0, <1>4, <1>6
    <2>2. /\ wire' \in Seq(WireEvents)
          /\ \A i \in DOMAIN wire : i \in DOMAIN wire' /\ wire'[i] = wire[i]
          /\ \A i \in DOMAIN wire' : i \in DOMAIN wire \/ (connected /\ i = Len(wire) + 1 /\ wire'[i] = e)
          /\ DOMAIN wire = 1 .. Len(wire) /\ Len(wire) \in Nat
          /\ DOMAIN wire' = 1 .. Len(wire') /\ Len(wire') \in Nat /\ Len(wire) <= Len(wire')
          /\ \A ty, m : On(ty, m)' <=> On(ty, m) \/ (connected /\ e.type = ty /\ e.n = m)
      BY <1>0, <2>1, OneTold
    <2> QED
      BY <2>1, <2>2, <1>6
  <1>9. ShownIds' = ShownIds /\ \A m : Places(m)' = Places(m)
    BY <1>0 DEF ShownIds, Places
  <1>t. ViewTypeOK'
    BY <1>0, <1>3, <1>8 DEF ViewTypeOK
  <1>10. n \notin apart' => connected /\ n \in ShownIds \cup Announced
    <2> SUFFICES ASSUME n \notin apart' PROVE n \in ShownIds \cup Announced
      BY <1>3
    <2>1. ~Fetching /\ n \notin apart
      BY <1>3
    <2>2. CASE view = <<>>
      BY <2>1, <2>2, <1>0, <1>1 DEF FetchWouldKnow
    <2>3. CASE view # <<>>
      BY <2>1, <2>3, <1>0, <1>1, <1>2 DEF TabFollows
    <2> QED
      BY <2>2, <2>3
  <1>11. n \notin apart' =>
            n \in ShownIds \/ \E i \in DOMAIN wire : wire[i] = Event("call", n)
    <2> SUFFICES ASSUME n \in Announced PROVE \E i \in DOMAIN wire : wire[i] = Event("call", n)
      BY <1>10
    <2>1. PICK i \in DOMAIN wire : wire[i].type \in {"user", "call"} /\ wire[i].n = n
      BY AnnouncedIs DEF On
    <2>2. wire[i].type = "call" /\ wire[i] \in WireEvents
      BY <1>0, <1>1, <1>2, <2>1 DEF KindsAgree
    <2>3. wire[i] = Event("call", n)
      BY <2>1, <2>2 DEF WireEvents, Event
    <2> QED
      BY <2>3
  <1>k. ResultsFollow'
    <2>3. \A j \in DOMAIN wire : \A i \in 1 .. j - 1 : i \in DOMAIN wire
      BY <1>8
    <2>4. \A j \in DOMAIN wire' : wire'[j].type = "result" /\ wire'[j].n \notin apart' =>
             wire'[j].n \in ShownIds' \/ \E i \in 1 .. j - 1 : wire'[i] = Event("call", wire'[j].n)
      <3> TAKE j \in DOMAIN wire'
      <3> HAVE wire'[j].type = "result" /\ wire'[j].n \notin apart'
      <3>1. CASE j \in DOMAIN wire
        <4>1. wire'[j] = wire[j] /\ wire[j].n \notin apart
          BY <3>1, <1>3, <1>8
        <4>2. wire[j].n \in ShownIds \/ \E i \in 1 .. j - 1 : wire[i] = Event("call", wire[j].n)
          BY <1>1, <3>1, <4>1 DEF ResultsFollow
        <4> QED
          BY <3>1, <4>1, <4>2, <2>3, <1>8, <1>9
      <3>2. CASE j = Len(wire) + 1 /\ wire'[j] = Event("result", n)
        <4>1. wire'[j].n = n
          BY <3>2, <1>4
        <4>2. n \in ShownIds \/ \E i \in DOMAIN wire : wire[i] = Event("call", n)
          BY <4>1, <1>11
        <4>3. \A i \in DOMAIN wire : i \in 1 .. j - 1 /\ wire'[i] = wire[i]
          BY <3>2, <1>8
        <4> QED
          BY <4>1, <4>2, <4>3, <1>9
      <3> QED
        BY <3>1, <3>2, <1>8
    <2>5. \A m \in results' \ apart' :
             On("result", m)' \/ (~On("call", m)' /\ \A i \in Places(m)' : view'[i].done)
      <3> SUFFICES ASSUME NEW m \in results', m \notin apart'
                   PROVE  On("result", m)' \/ (~On("call", m)' /\ \A i \in Places(m)' : view'[i].done)
        OBVIOUS
      <3>1. CASE m = n
        BY <3>1, <1>3, <1>8
      <3>2. CASE m # n
        <4>1. m \in results /\ m \notin apart
          BY <3>2, <1>0, <1>3
        <4>2. On("result", m) \/ (~On("call", m) /\ \A i \in Places(m) : view[i].done)
          BY <4>1, <1>1 DEF ResultsFollow
        <4>3. (On("result", m) => On("result", m)') /\ (On("call", m)' => On("call", m))
          BY <1>8
        <4> QED
          BY <4>2, <4>3, <1>0, <1>9
      <3> QED
        BY <3>1, <3>2
    <2> QED
      BY <2>4, <2>5 DEF ResultsFollow, Event
  <1>l. SpinnerWaits'
    <2>1. SpinnerWaits
      BY DEF ViewInv
    <2>2. \A i \in DOMAIN wire' : wire'[i].type = "start" =>
             \/ phase = "running" \/ losses > 0
             \/ \E j \in i + 1 .. Len(wire') : wire'[j].type = "complete"
      <3> TAKE i \in DOMAIN wire'
      <3> HAVE wire'[i].type = "start"
      <3>1. i \in DOMAIN wire /\ wire'[i] = wire[i]
        BY <1>4, <1>8
      <3>2. \A j \in i + 1 .. Len(wire) : j \in DOMAIN wire /\ j \in i + 1 .. Len(wire')
        BY <3>1, <1>8
      <3> QED
        BY <2>1, <3>1, <3>2, <1>8 DEF SpinnerWaits
    <2>3. loading => \/ Fetching \/ phase = "running" \/ On("complete", 0)' \/ losses > 0
                     \/ \E m \in ShownIds : ~IsCall(m) /\ m \notin Members(log)
      BY <2>1, <1>8 DEF SpinnerWaits
    <2>4. ~connected => losses > 0
      BY <2>1 DEF SpinnerWaits
    <2> QED
      BY <2>2, <2>3, <2>4, <1>0, <1>9 DEF SpinnerWaits, Fetching, IsCall, Members
  <1> QED
    BY <1>t, <1>7, <1>k, <1>l DEF ViewInv

(* A run is over when all of its messages are stored.                      *)
LEMMA RunCompletesKeeps ==
    ASSUME ViewInv, RunCompletes
    PROVE  ViewInv'
  <1>0. /\ ViewTypeOK /\ wire \in Seq(WireEvents) /\ says' = says /\ log' = log /\ fetchable' = Len(log)
        /\ phase' = "closing" /\ called' = called /\ uplink' = uplink /\ connected' = connected
        /\ fetch' = fetch /\ losses' = losses /\ viewing' = viewing /\ view' = view /\ loading' = loading
        /\ results' = results /\ Tell(<<Event("complete", 0)>>) /\ apart' = apart
    BY DEF ViewInv, RunCompletes, ServerOnly, lineVars, tabVars, ViewTypeOK
  <1>1. /\ AllWereMade /\ KindsAgree /\ ResultsFollow /\ SpinnerWaits
    BY DEF ViewInv
  <1>2. Event("complete", 0).type = "complete" /\ Event("complete", 0).n = 0
    BY DEF Event
  <1>3. fetchable' \in Nat /\ fetchable' >= fetchable
    BY <1>0 DEF ViewTypeOK
  <1>4. PICK e : e = Event("complete", 0)
    OBVIOUS
  <1>5. e \in WireEvents /\ Tell(<<e>>) /\ e.type = "complete" /\ e.n = 0
    BY <1>0, <1>2, <1>4, EventTypes
  <1>6. /\ results' \subseteq Made /\ apart' \subseteq Made /\ \A m \in results' : IsCall(m)
    BY <1>0, <1>1 DEF AllWereMade, KindsAgree
  <1>7. /\ AllWereMade' /\ KindsAgree' /\ QueriesAreApart' /\ CallsRise'
        /\ FetchKnowsTheRest' /\ FetchWouldKnow' /\ TabFollows'
        /\ ShownAreUnique' /\ EchoWillBeKnown' /\ CallsAreNews'
    BY <1>0, <1>3, <1>5, <1>6, EndsToldKeep
  <1>8. /\ wire' \in Seq(WireEvents)
        /\ \A i \in DOMAIN wire : i \in DOMAIN wire' /\ wire'[i] = wire[i]
        /\ \A i \in DOMAIN wire' : i \in DOMAIN wire \/ wire'[i] = e
        /\ connected => Len(wire) + 1 \in DOMAIN wire' /\ wire'[Len(wire) + 1] = e
        /\ DOMAIN wire = 1 .. Len(wire) /\ Len(wire) \in Nat
        /\ DOMAIN wire' = 1 .. Len(wire') /\ Len(wire') \in Nat /\ Len(wire) <= Len(wire')
        /\ \A ty, m : On(ty, m)' <=> On(ty, m) \/ (connected /\ ty = "complete" /\ m = 0)
    <2>1. /\ wire' \in Seq(WireEvents)
          /\ \A i \in DOMAIN wire : i \in DOMAIN wire' /\ wire'[i] = wire[i]
          /\ \A i \in DOMAIN wire' : i \in DOMAIN wire \/ (connected /\ i = Len(wire) + 1 /\ wire'[i] = e)
          /\ connected => Len(wire) + 1 \in DOMAIN wire' /\ wire'[Len(wire) + 1] = e
          /\ DOMAIN wire = 1 .. Len(wire) /\ Len(wire) \in Nat
          /\ DOMAIN wire' = 1 .. Len(wire') /\ Len(wire') \in Nat /\ Len(wire) <= Len(wire')
          /\ \A ty, m : On(ty, m)' <=> On(ty, m) \/ (connected /\ e.type = ty /\ e.n = m)
      BY <1>0, <1>5, OneTold
    <2> QED
      BY <1>5, <2>1
  <1>9. ShownIds' = ShownIds /\ \A m : Places(m)' = Places(m)
    BY <1>0 DEF ShownIds, Places
  <1>t. ViewTypeOK'
    BY <1>0, <1>8 DEF ViewTypeOK
  <1>k. ResultsFollow'
    <2>3. \A j \in DOMAIN wire : \A i \in 1 .. j - 1 : i \in DOMAIN wire
      BY <1>8
    <2>4. \A j \in DOMAIN wire' : wire'[j].type = "result" /\ wire'[j].n \notin apart' =>
             wire'[j].n \in ShownIds' \/ \E i \in 1 .. j - 1 : wire'[i] = Event("call", wire'[j].n)
      <3> TAKE j \in DOMAIN wire'
      <3> HAVE wire'[j].type = "result" /\ wire'[j].n \notin apart'
      <3>1. j \in DOMAIN wire /\ wire'[j] = wire[j] /\ wire[j].n \notin apart
        BY <1>0, <1>5, <1>8
      <3>2. wire[j].n \in ShownIds \/ \E i \in 1 .. j - 1 : wire[i] = Event("call", wire[j].n)
        BY <1>1, <3>1 DEF ResultsFollow
      <3> QED
        BY <3>1, <3>2, <2>3, <1>8, <1>9
    <2>5. \A m \in results' \ apart' :
             On("result", m)' \/ (~On("call", m)' /\ \A i \in Places(m)' : view'[i].done)
      BY <1>0, <1>1, <1>8, <1>9 DEF ResultsFollow
    <2> QED
      BY <2>4, <2>5 DEF ResultsFollow, Event
  <1>l. SpinnerWaits'
    <2>1. ~connected => losses > 0
      BY <1>1 DEF SpinnerWaits
    <2>2. \A i \in DOMAIN wire' : wire'[i].type = "start" =>
             losses > 0 \/ \E j \in i + 1 .. Len(wire') : wire'[j].type = "complete"
      <3> TAKE i \in DOMAIN wire'
      <3> HAVE wire'[i].type = "start"
      <3>1. i \in DOMAIN wire /\ i <= Len(wire)
        BY <1>5, <1>8
      <3>2. connected => Len(wire) + 1 \in i + 1 .. Len(wire') /\ wire'[Len(wire) + 1].type = "complete"
        BY <1>5, <1>8, <3>1
      <3> QED
        BY <2>1, <3>2
    <2>3. losses > 0 \/ On("complete", 0)'
      BY <2>1, <1>8
    <2> QED
      BY <2>1, <2>2, <2>3, <1>0 DEF SpinnerWaits
  <1> QED
    BY <1>t, <1>7, <1>k, <1>l DEF ViewInv

(* Nothing is said, neither in the session nor to the tab.                 *)
LEMMA QuietKeeps ==
    ASSUME ViewInv, says' = says, wire' = wire, uplink' = uplink, view' = view, log' = log,
           results' = results, called' = called \/ called' = <<>>,
           apart \subseteq apart', apart' \subseteq Made
    PROVE  /\ AllWereMade' /\ KindsAgree' /\ QueriesAreApart' /\ CallsRise'
           /\ ShownAreUnique' /\ EchoWillBeKnown' /\ CallsAreNews' /\ ResultsFollow'
  <1>1. AllWereMade /\ KindsAgree /\ QueriesAreApart /\ CallsRise
    BY DEF ViewInv
  <1>2. /\ Made' = Made /\ ShownIds' = ShownIds
        /\ \A ty, m : On(ty, m)' <=> On(ty, m)
        /\ \A m : (IsCall(m)' <=> IsCall(m))
    BY SameSight
  <1>3. /\ Members(called') \subseteq Members(called)
        /\ \A i \in DOMAIN called' : i \in DOMAIN called /\ called'[i] = called[i]
    BY DEF Members
  <1>4. AllWereMade'
    BY <1>1, <1>2, <1>3 DEF AllWereMade, Members
  <1>5. KindsAgree'
    BY <1>1, <1>2, <1>3 DEF KindsAgree, Members
  <1>6. QueriesAreApart'
    BY <1>1, <1>2 DEF QueriesAreApart, Members
  <1>7. CallsRise'
    BY <1>1, <1>2, <1>3 DEF CallsRise
  <1> QED
    BY <1>4, <1>5, <1>6, <1>7, SightKeeps

(* The small steps: of the store, of a run that ends, of the user who goes *)
(* elsewhere and of the socket that connects again.                        *)
LEMMA ServerStepsKeep ==
    ASSUME ViewInv, StepDropped \/ StoreProgress \/ RunIsOver \/ SwitchBack \/ LoadOther \/ Reconnect
    PROVE  ViewInv'
  <1>0. /\ ViewTypeOK /\ says' = says /\ wire' = wire /\ uplink' = uplink /\ view' = view /\ log' = log
        /\ results' = results /\ apart' = apart /\ fetch' = fetch /\ losses' = losses /\ loading' = loading
        /\ called' = called \/ called' = <<>>
    BY DEF ViewInv, StepDropped, StoreProgress, RunIsOver, SwitchBack, LoadOther, Reconnect, ServerOnly,
           TabOnly, lineVars, tabVars, serverVars
  <1>1. /\ fetchable' \in fetchable .. Len(log) /\ fetchable \in Nat /\ fetchable' \in Nat
        /\ fetchable' >= fetchable
        /\ \A i \in DOMAIN log : i \in Nat /\ (i > fetchable' => i > fetchable)
        /\ phase' \in {"idle", "running", "closing"} /\ (phase = "running" => phase' = "running")
        /\ viewing' \in BOOLEAN /\ connected' \in BOOLEAN /\ (~connected' => ~connected)
    <2>0. fetchable \in 0 .. Len(log) /\ Len(log) \in Nat /\ DOMAIN log = 1 .. Len(log)
      BY <1>0 DEF ViewTypeOK
    <2>1. fetchable' = fetchable \/ fetchable' \in fetchable + 1 .. Len(log)
      BY DEF StepDropped, StoreProgress, RunIsOver, SwitchBack, LoadOther, Reconnect, ServerOnly,
             TabOnly, lineVars, tabVars, serverVars
    <2>2. phase' = phase \/ (phase = "closing" /\ phase' = "idle")
      BY DEF StepDropped, StoreProgress, RunIsOver, SwitchBack, LoadOther, Reconnect, ServerOnly,
             TabOnly, lineVars, tabVars, serverVars
    <2>3. /\ viewing' = viewing \/ viewing' = TRUE \/ viewing' = FALSE
          /\ connected' = connected \/ connected' = TRUE
      BY DEF StepDropped, StoreProgress, RunIsOver, SwitchBack, LoadOther, Reconnect, ServerOnly,
             TabOnly, lineVars, tabVars, serverVars
    <2>4. /\ fetchable' \in fetchable .. Len(log) /\ fetchable \in Nat /\ fetchable' \in Nat
          /\ fetchable' >= fetchable
          /\ \A i \in DOMAIN log : i \in Nat /\ (i > fetchable' => i > fetchable)
      BY <2>0, <2>1
    <2>5. phase' \in {"idle", "running", "closing"} /\ (phase = "running" => phase' = "running")
      BY <2>2, <1>0 DEF ViewTypeOK
    <2>6. viewing' \in BOOLEAN /\ connected' \in BOOLEAN /\ (~connected' => ~connected)
      <3>1. viewing \in BOOLEAN /\ connected \in BOOLEAN
        BY <1>0 DEF ViewTypeOK
      <3>2. viewing' \in BOOLEAN /\ connected' \in BOOLEAN
        BY <2>3, <3>1
      <3>3. ~connected' => ~connected
        BY <2>3, <3>1, Zenon
      <3> QED
        BY <3>2, <3>3
    <2> QED
      BY <2>4, <2>5, <2>6
  <1>2. AllWereMade /\ FetchKnowsTheRest /\ FetchWouldKnow /\ TabFollows /\ SpinnerWaits
    BY DEF ViewInv
  <1>3. /\ AllWereMade' /\ KindsAgree' /\ QueriesAreApart' /\ CallsRise'
        /\ ShownAreUnique' /\ EchoWillBeKnown' /\ CallsAreNews' /\ ResultsFollow'
    <2>1. apart \subseteq apart' /\ apart' \subseteq Made
      BY <1>0, <1>2 DEF AllWereMade
    <2> QED
      BY <1>0, <2>1, QuietKeeps
  <1>4. /\ Made' = Made /\ ShownIds' = ShownIds /\ Announced' = Announced
        /\ \A ty, m : On(ty, m)' <=> On(ty, m)
        /\ \A m : (IsCall(m)' <=> IsCall(m))
    BY <1>0, SameSight
  <1>5. Members(called') \subseteq Members(called) /\ Fetching' = Fetching /\ called' \in Seq(Shown)
    <2>1. called \in Seq(Shown) /\ <<>> \in Seq(Shown) /\ DOMAIN <<>> = {}
      BY <1>0 DEF ViewTypeOK
    <2>2. Members(called') \subseteq Members(called)
      BY <1>0, <2>1 DEF Members
    <2>3. Fetching' = Fetching
      BY <1>0 DEF Fetching
    <2> QED
      BY <1>0, <2>1, <2>2, <2>3
  <1>t. ViewTypeOK'
    BY <1>0, <1>1, <1>5 DEF ViewTypeOK
  <1>e. FetchKnowsTheRest'
    <2>0. \A f \in Fetches : fetch[f].upto \in Nat
      BY <1>0 DEF ViewTypeOK
    <2>2. \A f \in Fetches :
             /\ fetch[f].upto <= fetchable'
             /\ fetch[f].at = "found" => \A i \in DOMAIN log : i > fetch[f].upto => log[i] \in apart
             /\ fetch[f].at \in {"asked", "failed"} => \A i \in DOMAIN log : i > fetchable' => log[i] \in apart
      <3> TAKE f \in Fetches
      <3>1. fetch[f].upto <= fetchable'
        BY <1>1, <1>2, <2>0 DEF FetchKnowsTheRest
      <3>2. /\ fetch[f].at = "found" => \A i \in DOMAIN log : i > fetch[f].upto => log[i] \in apart
            /\ fetch[f].at \in {"asked", "failed"} => \A i \in DOMAIN log : i > fetchable' => log[i] \in apart
        BY <1>1, <1>2 DEF FetchKnowsTheRest
      <3> QED
        BY <3>1, <3>2
    <2>3. Fetching => /\ Members(called') \cup Members(uplink) \subseteq apart
                      /\ \A i \in DOMAIN wire : wire[i].n \in apart \cup {0}
      BY <1>2, <1>5 DEF FetchKnowsTheRest
    <2> QED
      BY <1>0, <1>5, <2>2, <2>3 DEF FetchKnowsTheRest, Members
  <1>f. FetchWouldKnow'
    BY <1>0, <1>1, <1>2, <1>4, <1>5 DEF FetchWouldKnow, Members
  <1>g. TabFollows'
    <2>1. \A m : m \in Members(called') => m \in Members(called)
      BY <1>5
    <2> QED
      BY <1>0, <1>2, <1>4, <1>5, <2>1 DEF TabFollows, Members
  <1>l. SpinnerWaits'
    <2>1. ~connected' => losses > 0
      BY <1>1, <1>2 DEF SpinnerWaits
    <2>2. \A i \in DOMAIN wire : wire[i].type = "start" =>
             \/ phase' = "running" \/ losses > 0
             \/ \E j \in i + 1 .. Len(wire) : wire[j].type = "complete"
      BY <1>1, <1>2 DEF SpinnerWaits
    <2>3. loading => \/ Fetching \/ phase' = "running" \/ On("complete", 0) \/ losses > 0
                     \/ \E n \in ShownIds : ~IsCall(n) /\ n \notin Members(log)
      BY <1>1, <1>2 DEF SpinnerWaits
    <2> QED
      BY <2>1, <2>2, <2>3, <1>0, <1>4, <1>5 DEF SpinnerWaits, Members
  <1> QED
    BY <1>t, <1>3, <1>e, <1>f, <1>g, <1>l DEF ViewInv

(* The calls of a step become messages of the session.                     *)
LEMMA StepEndsKeeps ==
    ASSUME ViewInv, StepEnds
    PROVE  ViewInv'
  <1>0. /\ ViewTypeOK /\ says' = says /\ wire' = wire /\ uplink' = uplink /\ view' = view
        /\ results' = results /\ apart' = apart /\ fetch' = fetch /\ losses' = losses /\ loading' = loading
        /\ fetchable' = fetchable /\ phase' = phase /\ connected' = connected /\ viewing' = viewing
        /\ log' = log \o called /\ called' = <<>>
        /\ log \in Seq(Shown) /\ called \in Seq(Shown)
    BY DEF ViewInv, ViewTypeOK, StepEnds, ServerOnly, lineVars, tabVars
  <1>1. /\ log' \in Seq(Shown) /\ Len(log') = Len(log) + Len(called) /\ Len(log) \in Nat /\ Len(called) \in Nat
        /\ DOMAIN log = 1 .. Len(log) /\ DOMAIN called = 1 .. Len(called)
        /\ DOMAIN log' = 1 .. Len(log) + Len(called)
        /\ \A i \in DOMAIN log' : \/ i \in DOMAIN log /\ log'[i] = log[i]
                                  \/ /\ i > Len(log) /\ i - Len(log) \in DOMAIN called
                                     /\ log'[i] = called[i - Len(log)]
        /\ Members(log') = Members(log) \cup Members(called)
    <2>1. /\ log' \in Seq(Shown) /\ Len(log') = Len(log) + Len(called) /\ Len(log) \in Nat /\ Len(called) \in Nat
          /\ DOMAIN log = 1 .. Len(log) /\ DOMAIN called = 1 .. Len(called)
          /\ DOMAIN log' = 1 .. Len(log) + Len(called)
          /\ \A i \in 1 .. Len(log) + Len(called) :
                log'[i] = IF i <= Len(log) THEN log[i] ELSE called[i - Len(log)]
      BY <1>0
    <2>2. \A i \in DOMAIN log' : \/ i \in DOMAIN log /\ log'[i] = log[i]
                                 \/ /\ i > Len(log) /\ i - Len(log) \in DOMAIN called
                                    /\ log'[i] = called[i - Len(log)]
      BY <2>1
    <2>3. Members(log') \subseteq Members(log) \cup Members(called)
      BY <2>2 DEF Members
    <2>4. \A i \in DOMAIN log : i \in DOMAIN log' /\ log'[i] = log[i]
      BY <2>1
    <2>5. \A k \in DOMAIN called : Len(log) + k \in DOMAIN log' /\ log'[Len(log) + k] = called[k]
      <3> TAKE k \in DOMAIN called
      <3>1. Len(log) + k \in 1 .. Len(log) + Len(called) /\ ~(Len(log) + k <= Len(log)) /\ (Len(log) + k) - Len(log) = k
        BY <2>1
      <3> QED
        BY <2>1, <3>1
    <2>6. Members(log) \cup Members(called) \subseteq Members(log')
      BY <2>4, <2>5 DEF Members
    <2> QED
      BY <2>1, <2>2, <2>3, <2>6
  <1>2. /\ AllWereMade /\ KindsAgree /\ QueriesAreApart /\ CallsRise
        /\ FetchKnowsTheRest /\ FetchWouldKnow /\ TabFollows /\ SpinnerWaits
    BY DEF ViewInv
  <1>3. ShownAreUnique' /\ EchoWillBeKnown' /\ CallsAreNews' /\ ResultsFollow'
    BY <1>0, SightKeeps
  <1>4. /\ Made' = Made /\ ShownIds' = ShownIds /\ Announced' = Announced
        /\ \A ty, m : On(ty, m)' <=> On(ty, m)
        /\ \A m : (IsCall(m)' <=> IsCall(m))
    BY <1>0, SameSight
  <1>5. /\ Members(called') = {} /\ DOMAIN called' = {} /\ Fetching' = Fetching
        /\ called' \in Seq(Shown)
    <2>1. DOMAIN <<>> = {} /\ <<>> \in Seq(Shown)
      OBVIOUS
    <2> QED
      BY <1>0, <2>1 DEF Members, Fetching
  <1>6. \A k \in DOMAIN called : IsCall(called[k]) /\ called[k] \in Made /\ called[k] \in Members(called)
    BY <1>2 DEF KindsAgree, AllWereMade, Members
  <1>7. \A i \in DOMAIN log : log[i] \in Made /\ log[i] \in Members(log)
    BY <1>2 DEF AllWereMade, Members
  <1>8. /\ \A k \in DOMAIN called : called[k] \in Nat
        /\ \A i \in DOMAIN log, k \in DOMAIN called : log[i] # called[k]
    <2>1. \A k \in DOMAIN called : called[k] \in Nat
      <3>1. \A k \in DOMAIN called : called[k] \in Shown
        BY <1>0
      <3> QED
        BY <3>1, ViewAssumption DEF Shown
    <2>2. \A i \in DOMAIN log, k \in DOMAIN called : IsCall(log[i]) => log[i] < called[k]
      BY <1>2 DEF CallsRise
    <2>3. \A i \in DOMAIN log, k \in DOMAIN called : log[i] = called[k] => IsCall(log[i])
      BY <1>6
    <2> QED
      BY <2>1, <2>2, <2>3
  <1>t. ViewTypeOK'
    <2>1. fetchable \in 0 .. Len(log') /\ \A f \in Fetches : fetch[f].upto \in 0 .. Len(log')
      BY <1>0, <1>1 DEF ViewTypeOK
    <2>2. fetch \in [Fetches -> [at : {"none", "asked", "failed", "found"}, upto : 0 .. Len(log')]]
      BY <1>0, <2>1 DEF ViewTypeOK
    <2> QED
      BY <1>0, <1>1, <1>5, <2>1, <2>2 DEF ViewTypeOK
  <1>a. AllWereMade'
    BY <1>0, <1>1, <1>2, <1>4, <1>5 DEF AllWereMade, Members
  <1>b. KindsAgree'
    BY <1>0, <1>2, <1>4, <1>5 DEF KindsAgree, Members
  <1>c. QueriesAreApart'
    <2>1. \A n \in Members(uplink) : n \notin Members(log')
      BY <1>1, <1>2 DEF QueriesAreApart, KindsAgree
    <2>2. \A i, j \in DOMAIN log' : log'[i] = log'[j] => i = j
      <3> SUFFICES ASSUME NEW i \in DOMAIN log', NEW j \in DOMAIN log', log'[i] = log'[j] PROVE i = j
        OBVIOUS
      <3>1. CASE i \in DOMAIN log /\ j \in DOMAIN log
        BY <3>1, <1>1, <1>2 DEF QueriesAreApart
      <3>2. CASE i > Len(log) /\ j > Len(log)
        <4>1. /\ i - Len(log) \in DOMAIN called /\ log'[i] = called[i - Len(log)]
              /\ j - Len(log) \in DOMAIN called /\ log'[j] = called[j - Len(log)]
          BY <3>2, <1>1
        <4>2. \A a, b \in DOMAIN called : called[a] = called[b] => ~(a < b) /\ ~(b < a)
          BY <1>2, <1>8 DEF CallsRise
        <4>3. i - Len(log) = j - Len(log)
          <5>1. called[i - Len(log)] = called[j - Len(log)]
            BY <4>1
          <5>2. ~(i - Len(log) < j - Len(log)) /\ ~(j - Len(log) < i - Len(log))
            BY <4>1, <4>2, <5>1
          <5> QED
            BY <5>2, <1>1
        <4> QED
          BY <4>3, <1>1
      <3> QED
        BY <3>1, <3>2, <1>1, <1>8
    <2> QED
      BY <1>0, <1>2, <1>4, <2>1, <2>2 DEF QueriesAreApart, Members
  <1>d. CallsRise'
    <2>1. \A i, j \in DOMAIN log' : i < j /\ IsCall(log'[i]) /\ IsCall(log'[j]) => log'[i] < log'[j]
      <3> SUFFICES ASSUME NEW i \in DOMAIN log', NEW j \in DOMAIN log', i < j,
                          IsCall(log'[i]), IsCall(log'[j])
                   PROVE  log'[i] < log'[j]
        OBVIOUS
      <3>1. CASE i \in DOMAIN log /\ j \in DOMAIN log
        BY <3>1, <1>1, <1>2 DEF CallsRise
      <3>2. CASE i > Len(log) /\ j > Len(log)
        <4>1. /\ i - Len(log) \in DOMAIN called /\ log'[i] = called[i - Len(log)]
              /\ j - Len(log) \in DOMAIN called /\ log'[j] = called[j - Len(log)]
              /\ i - Len(log) < j - Len(log)
          BY <3>2, <1>1
        <4> QED
          BY <4>1, <1>2 DEF CallsRise
      <3>3. CASE i \in DOMAIN log /\ j > Len(log)
        <4>1. /\ j - Len(log) \in DOMAIN called /\ log'[j] = called[j - Len(log)] /\ log'[i] = log[i]
          BY <3>3, <1>1
        <4> QED
          BY <3>3, <4>1, <1>2 DEF CallsRise
      <3> QED
        BY <3>1, <3>2, <3>3, <1>1
    <2> QED
      BY <2>1, <1>0, <1>2, <1>4, <1>5 DEF CallsRise
  <1>e. FetchKnowsTheRest'
    <2>0. fetchable \in Nat /\ \A f \in Fetches : fetch[f].upto \in Nat
      BY <1>0 DEF ViewTypeOK
    <2>1. Fetching => \A k \in DOMAIN called : called[k] \in apart
      BY <1>2, <1>6 DEF FetchKnowsTheRest
    <2>2. \A f \in Fetches :
             /\ fetch[f].at = "found" => \A i \in DOMAIN log' : i > fetch[f].upto => log'[i] \in apart
             /\ fetch[f].at \in {"asked", "failed"} => \A i \in DOMAIN log' : i > fetchable => log'[i] \in apart
      <3> TAKE f \in Fetches
      <3>1. fetch[f].at # "none" => Fetching
        BY DEF Fetching
      <3>2. fetch[f].at = "found" => \A i \in DOMAIN log' : i > fetch[f].upto => log'[i] \in apart
        BY <3>1, <2>1, <1>1, <1>2 DEF FetchKnowsTheRest
      <3>3. fetch[f].at \in {"asked", "failed"} => \A i \in DOMAIN log' : i > fetchable => log'[i] \in apart
        BY <3>1, <2>1, <1>1, <1>2 DEF FetchKnowsTheRest
      <3> QED
        BY <3>2, <3>3
    <2> QED
      BY <1>0, <1>2, <1>5, <2>2 DEF FetchKnowsTheRest, Members
  <1>f. FetchWouldKnow'
    <2> SUFFICES ASSUME view = <<>>, ~Fetching
                 PROVE  /\ \A i \in DOMAIN log' : i > fetchable => log'[i] \in apart \cup Announced
                        /\ Members(uplink) \subseteq apart
      BY <1>0, <1>4, <1>5 DEF FetchWouldKnow, Members
    <2> QED
      BY <1>1, <1>2, <1>6 DEF FetchWouldKnow
  <1>g. TabFollows'
    <2> SUFFICES ASSUME view # <<>>, ~Fetching, NEW m \in Members(log) \cup Members(called), m \notin apart
                 PROVE  \/ m \in ShownIds \cup Announced
                        \/ ~IsCall(m) /\ \E k \in ShownIds : k # m /\ says[k] = says[m]
      BY <1>0, <1>1, <1>4, <1>5 DEF TabFollows, Members
    <2> QED
      BY <1>2 DEF TabFollows
  <1>l. SpinnerWaits'
    <2>1. /\ ~connected => losses > 0
          /\ \A i \in DOMAIN wire : wire[i].type = "start" =>
                \/ phase = "running" \/ losses > 0
                \/ \E j \in i + 1 .. Len(wire) : wire[j].type = "complete"
      BY <1>2 DEF SpinnerWaits
    <2>2. \A n \in ShownIds : ~IsCall(n) /\ n \notin Members(log) => n \notin Members(log')
      BY <1>1, <1>2 DEF KindsAgree
    <2>3. loading => \/ Fetching \/ phase = "running" \/ On("complete", 0) \/ losses > 0
                     \/ \E n \in ShownIds : ~IsCall(n) /\ n \notin Members(log')
      BY <1>2, <2>2 DEF SpinnerWaits
    <2> QED
      BY <2>1, <2>3, <1>0, <1>4, <1>5 DEF SpinnerWaits, Members
  <1> QED
    BY <1>t, <1>a, <1>b, <1>c, <1>d, <1>e, <1>f, <1>g, <1>3, <1>l DEF ViewInv

(* A session that shows nothing is fetched.                                *)
LEMMA LoadSessionKeeps ==
    ASSUME ViewInv, NEW f \in Fetches, LoadSession(f)
    PROVE  ViewInv'
  <1> DEFINE heard == { e.n : e \in Members(wire) } \ {0}
  <1>0. /\ ViewTypeOK /\ says' = says /\ wire' = wire /\ uplink' = uplink /\ view' = view /\ log' = log
        /\ results' = results /\ losses' = losses /\ loading' = TRUE /\ viewing' = TRUE
        /\ called' = called /\ phase' = phase /\ connected' = connected /\ fetchable' = fetchable
        /\ view = <<>> /\ fetch[f].at = "none" /\ fetch' = [fetch EXCEPT ![f].at = "asked"]
        /\ apart' = apart \cup heard
    BY DEF ViewInv, LoadSession, TabOnly, serverVars, Doubt
  <1>1. /\ AllWereMade /\ FetchKnowsTheRest /\ FetchWouldKnow /\ SpinnerWaits
    BY DEF ViewInv
  <1>2. heard \subseteq Made /\ \A i \in DOMAIN wire : wire[i].n \in heard \cup {0}
    BY <1>1 DEF AllWereMade, Members
  <1>3. Announced \subseteq heard
    <2>1. \A n \in Announced : \E i \in DOMAIN wire : wire[i].n = n /\ wire[i].type \in {"user", "call"}
      BY AnnouncedIs DEF On
    <2>2. \A i \in DOMAIN wire : wire[i].type \in {"user", "call"} => wire[i].n # 0
      BY <1>0, <1>1, WireNames DEF Made, ViewTypeOK
    <2> QED
      BY <1>2, <2>1, <2>2
  <1> HIDE DEF heard
  <1>4. /\ AllWereMade' /\ KindsAgree' /\ QueriesAreApart' /\ CallsRise'
        /\ ShownAreUnique' /\ EchoWillBeKnown' /\ CallsAreNews' /\ ResultsFollow'
    <2>1. apart \subseteq apart' /\ apart' \subseteq Made
      BY <1>0, <1>1, <1>2 DEF AllWereMade
    <2> QED
      BY <1>0, <2>1, QuietKeeps
  <1>5. /\ \A g \in Fetches : fetch'[g].upto = fetch[g].upto /\ (g # f => fetch'[g].at = fetch[g].at)
        /\ fetch'[f].at = "asked"
        /\ fetch' \in [Fetches -> [at : {"none", "asked", "failed", "found"}, upto : 0 .. Len(log)]]
    BY <1>0 DEF ViewTypeOK
  <1>6. Fetching'
    BY <1>5 DEF Fetching
  <1>t. ViewTypeOK'
    <2>1. apart' \subseteq Shown
      BY <1>0, <1>2, MadeAre DEF ViewTypeOK
    <2> QED
      BY <1>0, <1>5, <2>1 DEF ViewTypeOK
  <1>7. /\ Members(called) \cup Members(uplink) \subseteq apart'
        /\ \A i \in DOMAIN wire : wire[i].n \in apart' \cup {0}
        /\ \A i \in DOMAIN log : i > fetchable => log[i] \in apart'
    <2>1. \A i \in DOMAIN wire : wire[i].n \in apart' \cup {0}
      BY <1>0, <1>2
    <2>2. CASE Fetching
      <3>1. PICK g \in Fetches : fetch[g].at \in {"asked", "failed", "found"}
        BY <2>2, <1>0 DEF Fetching, ViewTypeOK
      <3>2. fetch[g].upto <= fetchable /\ fetch[g].upto \in Nat /\ fetchable \in Nat
        BY <1>0, <1>1 DEF FetchKnowsTheRest, ViewTypeOK
      <3>3. \A i \in DOMAIN log : i \in Nat
        BY <1>0 DEF ViewTypeOK
      <3>4. \A i \in DOMAIN log : i > fetchable => i > fetch[g].upto
        BY <3>2, <3>3
      <3>5. \A i \in DOMAIN log : i > fetchable => log[i] \in apart
        BY <1>1, <3>1, <3>4 DEF FetchKnowsTheRest
      <3>6. Members(called) \cup Members(uplink) \subseteq apart
        BY <1>1, <2>2 DEF FetchKnowsTheRest
      <3> QED
        BY <2>1, <3>5, <3>6, <1>0
    <2>3. CASE ~Fetching
      BY <2>1, <2>3, <1>0, <1>1, <1>3 DEF FetchWouldKnow
    <2> QED
      BY <2>2, <2>3
  <1>e. FetchKnowsTheRest'
    <2>1. \A g \in Fetches :
             /\ fetch'[g].upto <= fetchable
             /\ fetch'[g].at = "found" => \A i \in DOMAIN log : i > fetch'[g].upto => log[i] \in apart'
             /\ fetch'[g].at \in {"asked", "failed"} => \A i \in DOMAIN log : i > fetchable => log[i] \in apart'
      BY <1>0, <1>1, <1>5, <1>7 DEF FetchKnowsTheRest
    <2> QED
      BY <2>1, <1>0, <1>7 DEF FetchKnowsTheRest, Members
  <1>f. FetchWouldKnow' /\ TabFollows'
    BY <1>6 DEF FetchWouldKnow, TabFollows
  <1>l. SpinnerWaits'
    <2>1. /\ ~connected' => losses' > 0
          /\ \A i \in DOMAIN wire' : wire'[i].type = "start" =>
                \/ phase' = "running" \/ losses' > 0
                \/ \E j \in i + 1 .. Len(wire') : wire'[j].type = "complete"
      BY <1>0, <1>1 DEF SpinnerWaits
    <2> QED
      BY <2>1, <1>6 DEF SpinnerWaits
  <1> QED
    BY <1>t, <1>4, <1>e, <1>f, <1>l DEF ViewInv

(* The server answers with what is stored.                                 *)
LEMMA FetchAnsweredKeeps ==
    ASSUME ViewInv, NEW f \in Fetches, FetchAnswered(f)
    PROVE  ViewInv'
  <1>0. /\ ViewTypeOK /\ says' = says /\ wire' = wire /\ uplink' = uplink /\ view' = view /\ log' = log
        /\ results' = results /\ losses' = losses /\ loading' = loading /\ viewing' = viewing
        /\ called' = called /\ phase' = phase /\ connected' = connected /\ fetchable' = fetchable
        /\ fetch[f].at = "asked" /\ apart' = apart
    BY DEF ViewInv, FetchAnswered, TabOnly, tabVars, serverVars
  <1>1. /\ AllWereMade /\ FetchKnowsTheRest /\ SpinnerWaits
    BY DEF ViewInv
  <1>2. PICK answer \in { [at |-> "failed", upto |-> 0], [at |-> "found", upto |-> fetchable] } :
           fetch' = [fetch EXCEPT ![f] = answer]
    BY DEF FetchAnswered
  <1>3. /\ answer.at \in {"failed", "found"} /\ answer.upto \in 0 .. Len(log) /\ answer.upto <= fetchable
        /\ answer.at = "found" => answer.upto = fetchable
        /\ answer \in [at : {"none", "asked", "failed", "found"}, upto : 0 .. Len(log)]
    BY <1>0, <1>2 DEF ViewTypeOK
  <1>4. /\ AllWereMade' /\ KindsAgree' /\ QueriesAreApart' /\ CallsRise'
        /\ ShownAreUnique' /\ EchoWillBeKnown' /\ CallsAreNews' /\ ResultsFollow'
    <2>1. apart \subseteq apart' /\ apart' \subseteq Made
      BY <1>0, <1>1 DEF AllWereMade
    <2> QED
      BY <1>0, <2>1, QuietKeeps
  <1>5. /\ \A g \in Fetches : g # f => fetch'[g] = fetch[g]
        /\ fetch'[f] = answer
        /\ fetch' \in [Fetches -> [at : {"none", "asked", "failed", "found"}, upto : 0 .. Len(log)]]
    BY <1>0, <1>2, <1>3 DEF ViewTypeOK
  <1>6. Fetching' /\ Fetching
    BY <1>0, <1>3, <1>5 DEF Fetching
  <1>t. ViewTypeOK'
    BY <1>0, <1>5 DEF ViewTypeOK
  <1>e. FetchKnowsTheRest'
    <2>0. \A i \in DOMAIN log : i > fetchable => log[i] \in apart
      BY <1>0, <1>1 DEF FetchKnowsTheRest
    <2>1. \A g \in Fetches :
             /\ fetch'[g].upto <= fetchable
             /\ fetch'[g].at = "found" => \A i \in DOMAIN log : i > fetch'[g].upto => log[i] \in apart
             /\ fetch'[g].at \in {"asked", "failed"} => \A i \in DOMAIN log : i > fetchable => log[i] \in apart
      <3> TAKE g \in Fetches
      <3>1. CASE g = f
        BY <3>1, <2>0, <1>3, <1>5
      <3>2. CASE g # f
        BY <3>2, <1>1, <1>5 DEF FetchKnowsTheRest
      <3> QED
        BY <3>1, <3>2
    <2> QED
      BY <2>1, <1>0, <1>1, <1>6 DEF FetchKnowsTheRest, Members
  <1>f. FetchWouldKnow' /\ TabFollows'
    BY <1>6 DEF FetchWouldKnow, TabFollows
  <1>l. SpinnerWaits'
    <2>1. /\ ~connected' => losses' > 0
          /\ \A i \in DOMAIN wire' : wire'[i].type = "start" =>
                \/ phase' = "running" \/ losses' > 0
                \/ \E j \in i + 1 .. Len(wire') : wire'[j].type = "complete"
      BY <1>0, <1>1 DEF SpinnerWaits
    <2> QED
      BY <2>1, <1>6 DEF SpinnerWaits
  <1> QED
    BY <1>t, <1>4, <1>e, <1>f, <1>l DEF ViewInv

(* An answer that found the messages is the view; one that failed leaves   *)
(* what the tab has heard.                                                 *)
LEMMA InstallFetchKeeps ==
    ASSUME ViewInv, NEW f \in Fetches, InstallFetch(f)
    PROVE  ViewInv'
  <1>0. /\ ViewTypeOK /\ says' = says /\ wire' = wire /\ uplink' = uplink /\ log' = log
        /\ results' = results /\ losses' = losses /\ loading' = FALSE /\ viewing' = viewing
        /\ called' = called /\ phase' = phase /\ connected' = connected /\ fetchable' = fetchable
        /\ fetch[f].at \in {"failed", "found"} /\ fetch' = [fetch EXCEPT ![f] = NoFetch]
    BY DEF ViewInv, InstallFetch, TabOnly, serverVars
  <1>1. /\ AllWereMade /\ KindsAgree /\ QueriesAreApart /\ CallsRise /\ FetchKnowsTheRest /\ SpinnerWaits
    BY DEF ViewInv
  <1>2. /\ \A g \in Fetches : g # f => fetch'[g] = fetch[g]
        /\ fetch'[f] = [at |-> "none", upto |-> 0]
        /\ fetch' \in [Fetches -> [at : {"none", "asked", "failed", "found"}, upto : 0 .. Len(log)]]
    BY <1>0 DEF ViewTypeOK, NoFetch
  <1>3. Fetching /\ Members(called) \cup Members(uplink) \subseteq apart
        /\ \A i \in DOMAIN wire : wire[i].n \in apart \cup {0}
    <2>1. Fetching
      BY <1>0 DEF Fetching
    <2> QED
      BY <2>1, <1>1 DEF FetchKnowsTheRest
  <1>4. apart \subseteq apart' /\ apart' \subseteq apart \cup Members(log) /\ apart' \subseteq Made
    BY <1>1 DEF InstallFetch, Doubt, AllWereMade
  <1>e. FetchKnowsTheRest'
    <2>0. fetchable >= 0
      BY <1>0 DEF ViewTypeOK
    <2>1. \A g \in Fetches :
             /\ fetch'[g].upto <= fetchable
             /\ fetch'[g].at = "found" => \A i \in DOMAIN log : i > fetch'[g].upto => log[i] \in apart'
             /\ fetch'[g].at \in {"asked", "failed"} => \A i \in DOMAIN log : i > fetchable => log[i] \in apart'
      <3> TAKE g \in Fetches
      <3>1. CASE g = f
        BY <3>1, <2>0, <1>2
      <3>2. CASE g # f
        BY <3>2, <1>1, <1>2, <1>4 DEF FetchKnowsTheRest
      <3> QED
        BY <3>1, <3>2
    <2> QED
      BY <2>1, <1>0, <1>3, <1>4 DEF FetchKnowsTheRest, Members
  <1>l. SpinnerWaits'
    BY <1>0, <1>1 DEF SpinnerWaits
  <1>5. CASE fetch[f].at = "failed"
    <2>1. view' = view /\ (view # <<>> => Members(log) \subseteq apart')
      BY <1>5 DEF InstallFetch, Doubt
    <2>2. /\ AllWereMade' /\ KindsAgree' /\ QueriesAreApart' /\ CallsRise'
          /\ ShownAreUnique' /\ EchoWillBeKnown' /\ CallsAreNews' /\ ResultsFollow'
      BY <1>0, <1>4, <2>1, QuietKeeps
    <2>3. ViewTypeOK'
      <3>1. apart' \subseteq Shown
        BY <1>0, <1>4, MadeAre
      <3> QED
        BY <1>0, <1>2, <2>1, <3>1 DEF ViewTypeOK
    <2>4. FetchWouldKnow'
      <3>1. \A i \in DOMAIN log : i > fetchable => log[i] \in apart
        BY <1>1, <1>5 DEF FetchKnowsTheRest
      <3> QED
        BY <3>1, <1>0, <1>3, <1>4 DEF FetchWouldKnow, Members
    <2>5. TabFollows'
      <3>1. view' # <<>> => Members(log) \cup Members(called) \subseteq apart'
        BY <2>1, <1>3, <1>4
      <3> QED
        BY <3>1, <1>0 DEF TabFollows, Members
    <2> QED
      BY <2>2, <2>3, <2>4, <2>5, <1>e, <1>l DEF ViewInv
  <1>6. CASE fetch[f].at = "found"
    <2> DEFINE upto == fetch[f].upto
    <2>1. view' = [i \in 1 .. upto |-> [n |-> log[i], done |-> TRUE]] /\ apart' = apart
      BY <1>6 DEF InstallFetch
    <2>2. /\ upto \in 0 .. Len(log) /\ Len(log) \in Nat /\ DOMAIN log = 1 .. Len(log) /\ log \in Seq(Shown)
          /\ upto <= fetchable /\ upto \in Nat /\ fetchable \in Nat
      BY <1>0, <1>1 DEF ViewTypeOK, FetchKnowsTheRest
    <2> HIDE DEF upto
    <2>3. /\ DOMAIN view' = 1 .. upto /\ \A i \in 1 .. upto : i \in DOMAIN log /\ i \in Nat
          /\ \A i \in 1 .. upto : view'[i].n = log[i] /\ view'[i].done = TRUE
          /\ view' \in Seq([n : Shown, done : BOOLEAN])
      <3>1. \A i \in 1 .. upto : i \in DOMAIN log /\ i \in Nat
        BY <2>2
      <3>2. \A i \in 1 .. upto : [n |-> log[i], done |-> TRUE] \in [n : Shown, done : BOOLEAN]
        BY <2>2, <3>1
      <3> QED
        BY <2>1, <2>2, <3>1, <3>2
    <2>4. ShownIds' \subseteq Members(log)
      BY <2>3 DEF ShownIds, Members
    <2>5. /\ Made' = Made /\ \A ty, m : On(ty, m)' <=> On(ty, m)
          /\ \A m : (IsCall(m)' <=> IsCall(m))
      BY <1>0 DEF Made, On, IsCall
    <2>6. \A m : \A ty \in {"user", "call", "result"} : On(ty, m) => m \in apart
      <3>1. \A i \in DOMAIN wire : wire[i].type \in {"user", "call", "result"} => wire[i].n # 0
        BY <1>0, <1>1, WireNames DEF Made, ViewTypeOK
      <3> QED
        BY <1>3, <3>1 DEF On
    <2>t. ViewTypeOK'
      BY <1>0, <1>2, <2>1, <2>3 DEF ViewTypeOK
    <2>a. AllWereMade'
      <3>1. ShownIds' \subseteq Made
        BY <2>4, <1>1 DEF AllWereMade
      <3> QED
        BY <3>1, <1>0, <1>1, <2>1, <2>5 DEF AllWereMade, Members
    <2>b. KindsAgree'
      BY <1>0, <1>1, <2>5 DEF KindsAgree, Members
    <2>c. QueriesAreApart'
      BY <1>0, <1>1, <2>5 DEF QueriesAreApart, Members
    <2>d. CallsRise'
      BY <1>0, <1>1, <2>5 DEF CallsRise
    <2>7. \A i \in DOMAIN log : i \notin 1 .. upto => log[i] \in apart
      <3>1. \A i \in DOMAIN log : i \notin 1 .. upto => i > upto
        BY <2>2
      <3> QED
        BY <3>1, <1>1, <1>6 DEF FetchKnowsTheRest, upto
    <2>f. FetchWouldKnow'
      <3>1. view' = <<>> => \A i \in DOMAIN log : log[i] \in apart
        <4>1. view' = <<>> => DOMAIN view' = {}
          OBVIOUS
        <4> QED
          BY <4>1, <2>3, <2>7
      <3> QED
        BY <3>1, <1>0, <1>3, <2>1 DEF FetchWouldKnow, Members
    <2>g. TabFollows'
      <3>1. \A n \in (Members(log) \cup Members(called)) \ apart : n \in ShownIds'
        <4> TAKE n \in (Members(log) \cup Members(called)) \ apart
        <4>1. PICK i \in DOMAIN log : log[i] = n
          BY <1>3 DEF Members
        <4>2. i \in 1 .. upto
          BY <4>1, <2>7
        <4> QED
          BY <4>1, <4>2, <2>3 DEF ShownIds
      <3> QED
        BY <3>1, <1>0, <2>1 DEF TabFollows, Members
    <2>h. ShownAreUnique'
      BY <1>1, <2>3 DEF ShownAreUnique, QueriesAreApart
    <2>i. EchoWillBeKnown'
      <3>1. Pending' \subseteq apart
        <4>1. \A m : On("user", m)' => m \in apart
          BY <2>5, <2>6
        <4> QED
          BY <4>1, <1>0, <1>3, PendingIsNext DEF Members
      <3> QED
        BY <3>1, <1>0, <1>3, <2>1 DEF EchoWillBeKnown, Members
    <2>j. CallsAreNews'
      <3>1. \A n \in Made' \ apart' : ~On("call", n)'
        BY <2>1, <2>5, <2>6
      <3>2. \A i, j \in DOMAIN view' :
              /\ i < j /\ {view'[i].n, view'[j].n} \cap apart' = {}
              /\ says'[view'[i].n] = "call" /\ says'[view'[j].n] = "call"
              => view'[i].n < view'[j].n
        BY <1>0, <1>1, <2>3 DEF CallsRise, IsCall
      <3> QED
        BY <3>1, <3>2 DEF CallsAreNews, IsCall
    <2>k. ResultsFollow'
      <3>1. \A j \in DOMAIN wire : wire[j].type = "result" => wire[j].n \in apart
        BY <2>6 DEF On
      <3>2. \A m \in results \ apart : ~On("call", m)' /\ \A i \in Places(m)' : view'[i].done
        <4> TAKE m \in results \ apart
        <4>1. ~On("call", m)'
          BY <2>5, <2>6
        <4>2. Places(m)' \subseteq DOMAIN view'
          BY DEF Places
        <4>3. \A i \in Places(m)' : view'[i].done
          BY <4>2, <2>3
        <4> QED
          BY <4>1, <4>3
      <3> QED
        BY <3>1, <3>2, <1>0, <2>1 DEF ResultsFollow
    <2> QED
      BY <2>t, <2>a, <2>b, <2>c, <2>d, <1>e, <2>f, <2>g, <2>h, <2>i, <2>j, <2>k, <1>l DEF ViewInv
  <1> QED
    BY <1>0, <1>5, <1>6

(* What is shown is never taken away by the end of a call.                 *)
LEMMA DoneKeeps ==
    ASSUME view \in Seq([n : Shown, done : BOOLEAN]), NEW at, view' = Done(at)
    PROVE  /\ view' \in Seq([n : Shown, done : BOOLEAN]) /\ DOMAIN view' = DOMAIN view
           /\ Len(view') = Len(view)
           /\ \A i \in DOMAIN view : /\ view'[i].n = view[i].n
                                     /\ view[i].done \/ i \in at => view'[i].done
           /\ ShownIds' = ShownIds /\ (view' = <<>> <=> view = <<>>)
           /\ \A m : Places(m)' = Places(m)
  <1>1. view' = [i \in DOMAIN view |-> IF i \in at THEN [view[i] EXCEPT !.done = TRUE] ELSE view[i]]
    BY DEF Done
  <1>2. /\ DOMAIN view = 1 .. Len(view) /\ Len(view) \in Nat
        /\ \A i \in DOMAIN view : view[i] \in [n : Shown, done : BOOLEAN]
    <2>1. PICK S : S = [n : Shown, done : BOOLEAN]
      OBVIOUS
    <2>2. view \in Seq(S)
      BY <2>1
    <2>3. DOMAIN view = 1 .. Len(view) /\ Len(view) \in Nat /\ \A i \in DOMAIN view : view[i] \in S
      BY <2>2
    <2> QED
      BY <2>1, <2>3
  <1>3. \A i \in DOMAIN view : /\ view'[i] \in [n : Shown, done : BOOLEAN]
                               /\ view'[i].n = view[i].n
                               /\ view[i].done \/ i \in at => view'[i].done
    <2> TAKE i \in DOMAIN view
    <2>1. CASE i \in at
      <3>1. view'[i] = [view[i] EXCEPT !.done = TRUE]
        BY <1>1, <2>1
      <3> QED
        BY <3>1, <1>2
    <2>2. CASE i \notin at
      <3>1. view'[i] = view[i]
        BY <1>1, <2>2
      <3> QED
        BY <2>2, <3>1, <1>2
    <2> QED
      BY <2>1, <2>2
  <1>4. /\ DOMAIN view' = DOMAIN view /\ view' \in Seq([n : Shown, done : BOOLEAN])
        /\ Len(view') = Len(view)
    BY <1>1, <1>2, <1>3
  <1>5. ShownIds' = ShownIds /\ \A m : Places(m)' = Places(m)
    BY <1>3, <1>4 DEF ShownIds, Places
  <1>6. view' = <<>> <=> view = <<>>
    BY <1>4
  <1> QED
    BY <1>3, <1>4, <1>5, <1>6

(* The user stops the call that runs.                                      *)
LEMMA SendInterruptKeeps ==
    ASSUME ViewInv, SendInterrupt
    PROVE  ViewInv'
  <1>0. /\ ViewTypeOK /\ says' = says /\ wire' = wire /\ uplink' = uplink /\ log' = log /\ fetch' = fetch
        /\ results' = results /\ losses' = losses /\ loading' = FALSE /\ viewing' = viewing
        /\ called' = called /\ phase' = phase /\ connected' = connected /\ fetchable' = fetchable
        /\ apart' = apart /\ Fetching' = Fetching /\ Announced' = Announced
    BY DEF ViewInv, SendInterrupt, TabOnly, serverVars, Fetching, Announced, Members
  <1>1. /\ AllWereMade /\ KindsAgree /\ QueriesAreApart /\ CallsRise /\ FetchKnowsTheRest
        /\ FetchWouldKnow /\ TabFollows /\ ShownAreUnique /\ EchoWillBeKnown /\ CallsAreNews
        /\ ResultsFollow /\ SpinnerWaits
    BY DEF ViewInv
  <1>2. PICK at : view' = Done(at)
    BY DEF SendInterrupt
  <1>3. /\ view' \in Seq([n : Shown, done : BOOLEAN]) /\ DOMAIN view' = DOMAIN view
        /\ Len(view') = Len(view)
        /\ \A i \in DOMAIN view : /\ view'[i].n = view[i].n
                                  /\ view[i].done \/ i \in at => view'[i].done
        /\ ShownIds' = ShownIds /\ (view' = <<>> <=> view = <<>>)
        /\ \A m : Places(m)' = Places(m)
    BY <1>0, <1>2, DoneKeeps DEF ViewTypeOK
  <1>4. /\ Made' = Made /\ \A ty, m : On(ty, m)' <=> On(ty, m)
        /\ \A m : (IsCall(m)' <=> IsCall(m))
    BY <1>0 DEF Made, On, IsCall
  <1>5. LastUser' = LastUser
    <2>1. \A i \in DOMAIN view : \A j \in i + 1 .. Len(view) : j \in DOMAIN view
      BY <1>0 DEF ViewTypeOK
    <2>2. LastUser' = { i \in DOMAIN view : /\ says[view'[i].n] # "call"
                                           /\ \A j \in i + 1 .. Len(view) : says[view'[j].n] = "call" }
      BY <1>0, <1>3 DEF LastUser, IsCall
    <2>3. LastUser = { i \in DOMAIN view : /\ says[view[i].n] # "call"
                                          /\ \A j \in i + 1 .. Len(view) : says[view[j].n] = "call" }
      BY DEF LastUser, IsCall
    <2> QED
      BY <2>1, <2>2, <2>3, <1>3
  <1>t. ViewTypeOK'
    BY <1>0, <1>3 DEF ViewTypeOK
  <1>a. AllWereMade'
    BY <1>0, <1>1, <1>3, <1>4 DEF AllWereMade, Members
  <1>b. KindsAgree'
    BY <1>0, <1>1, <1>4 DEF KindsAgree, Members
  <1>c. QueriesAreApart'
    BY <1>0, <1>1, <1>4 DEF QueriesAreApart, Members
  <1>d. CallsRise'
    BY <1>0, <1>1, <1>4 DEF CallsRise
  <1>e. FetchKnowsTheRest'
    BY <1>0, <1>1 DEF FetchKnowsTheRest, Members
  <1>f. FetchWouldKnow'
    BY <1>0, <1>1, <1>3 DEF FetchWouldKnow, Members
  <1>g. TabFollows'
    BY <1>0, <1>1, <1>3, <1>4 DEF TabFollows, Members
  <1>h. ShownAreUnique'
    BY <1>0, <1>1, <1>3 DEF ShownAreUnique
  <1>i. EchoWillBeKnown'
    <2>1. \A m \in Pending' : m \in Pending
      BY <1>0, <1>3, <1>4, PendingIs, PendingIsNext DEF Members
    <2>2. \A i \in LastUser : view'[i].n = view[i].n
      BY <1>3 DEF LastUser
    <2>3. \A n \in Pending' \ apart' : \E i \in LastUser' : view'[i].n = n
      BY <2>1, <2>2, <1>0, <1>1, <1>5 DEF EchoWillBeKnown
    <2>4. Members(uplink') \ apart' \subseteq ShownIds'
      BY <1>0, <1>1, <1>3 DEF EchoWillBeKnown
    <2> QED
      BY <2>3, <2>4 DEF EchoWillBeKnown, Members
  <1>j. CallsAreNews'
    <2>1. \A n \in Made' \ apart' : On("call", n)' => n \notin ShownIds'
      BY <1>0, <1>1, <1>3, <1>4 DEF CallsAreNews
    <2>2. \A i, j \in DOMAIN view' :
            /\ i < j /\ {view'[i].n, view'[j].n} \cap apart' = {}
            /\ says'[view'[i].n] = "call" /\ says'[view'[j].n] = "call"
            => view'[i].n < view'[j].n
      BY <1>0, <1>1, <1>3 DEF CallsAreNews, IsCall
    <2>3. \A i \in DOMAIN view', n \in Made' \ apart' :
             On("call", n)' /\ says'[view'[i].n] = "call" /\ view'[i].n \notin apart' => view'[i].n < n
      BY <1>0, <1>1, <1>3, <1>4 DEF CallsAreNews, IsCall
    <2> QED
      BY <2>1, <2>2, <2>3 DEF CallsAreNews, IsCall
  <1>k. ResultsFollow'
    <2>1. \A m : \A i \in Places(m) : i \in DOMAIN view
      BY DEF Places
    <2>2. \A n \in results' \ apart' :
             On("result", n)' \/ (~On("call", n)' /\ \A i \in Places(n)' : view'[i].done)
      BY <2>1, <1>0, <1>1, <1>3, <1>4 DEF ResultsFollow
    <2>3. \A j \in DOMAIN wire' : wire'[j].type = "result" /\ wire'[j].n \notin apart' =>
             wire'[j].n \in ShownIds' \/ \E i \in 1 .. j - 1 : wire'[i] = Event("call", wire'[j].n)
      BY <1>0, <1>1, <1>3 DEF ResultsFollow
    <2> QED
      BY <2>2, <2>3 DEF ResultsFollow, Event
  <1>l. SpinnerWaits'
    BY <1>0, <1>1 DEF SpinnerWaits
  <1> QED
    BY <1>t, <1>a, <1>b, <1>c, <1>d, <1>e, <1>f, <1>g, <1>h, <1>i, <1>j, <1>k, <1>l DEF ViewInv

(* What was on its way is lost, and history keeps whose it was.            *)
LEMMA SocketBreaksKeeps ==
    ASSUME ViewInv, SocketBreaks
    PROVE  ViewInv'
  <1> DEFINE lost == ({ e.n : e \in Members(wire) } \ {0}) \cup Members(uplink)
  <1>0. /\ ViewTypeOK /\ says' = says /\ wire' = <<>> /\ uplink' = <<>> /\ log' = log /\ fetch' = fetch
        /\ results' = results /\ losses' = losses + 1 /\ losses < MaxLosses /\ loading' = loading
        /\ viewing' = viewing /\ view' = view
        /\ called' = called /\ phase' = phase /\ connected' = FALSE /\ fetchable' = fetchable
        /\ apart' = apart \cup lost /\ Fetching' = Fetching
    BY DEF ViewInv, SocketBreaks, tabVars, serverVars, Fetching, Doubt
  <1>1. /\ AllWereMade /\ KindsAgree /\ QueriesAreApart /\ CallsRise /\ FetchKnowsTheRest
        /\ FetchWouldKnow /\ TabFollows /\ ShownAreUnique /\ EchoWillBeKnown /\ CallsAreNews
        /\ ResultsFollow
    BY DEF ViewInv
  <1>2. lost \subseteq Made /\ Members(uplink) \subseteq lost /\ \A i \in DOMAIN wire : wire[i].n \in lost \cup {0}
    BY <1>1 DEF AllWereMade, Members
  <1>3. \A n : \A ty \in {"user", "call", "result"} : On(ty, n) => n \in lost
    <2>1. \A i \in DOMAIN wire : wire[i].type \in {"user", "call", "result"} => wire[i].n # 0
      BY <1>0, <1>1, WireNames DEF Made, ViewTypeOK
    <2> QED
      BY <1>2, <2>1 DEF On
  <1> HIDE DEF lost
  <1>4. /\ Made' = Made /\ ShownIds' = ShownIds /\ LastUser' = LastUser
        /\ \A m : (IsCall(m)' <=> IsCall(m)) /\ Places(m)' = Places(m)
    BY <1>0 DEF Made, ShownIds, LastUser, IsCall, Places
  <1>5. /\ DOMAIN wire' = {} /\ DOMAIN uplink' = {} /\ Members(uplink') = {} /\ Announced' = {}
        /\ wire' \in Seq(WireEvents) /\ uplink' \in Seq(Shown) /\ apart \subseteq apart' /\ apart' \subseteq Made
        /\ \A ty, n : ~On(ty, n)'
    <2>1. DOMAIN <<>> = {} /\ <<>> \in Seq(WireEvents) /\ <<>> \in Seq(Shown)
      OBVIOUS
    <2>2. Announced' = {}
      BY <1>0, <2>1 DEF Announced, Members
    <2>3. \A ty, n : ~On(ty, n)'
      BY <1>0, <2>1 DEF On
    <2> QED
      BY <1>0, <1>1, <1>2, <2>1, <2>2, <2>3 DEF Members, AllWereMade
  <1>t. ViewTypeOK'
    <2>1. losses' \in 0 .. MaxLosses
      BY <1>0, ViewAssumption DEF ViewTypeOK
    <2>2. apart' \subseteq Shown
      BY <1>0, <1>5, MadeAre
    <2> QED
      BY <1>0, <1>5, <2>1, <2>2 DEF ViewTypeOK
  <1>a. AllWereMade'
    BY <1>0, <1>1, <1>4, <1>5 DEF AllWereMade, Members
  <1>b. KindsAgree'
    BY <1>0, <1>1, <1>4, <1>5 DEF KindsAgree, Members
  <1>c. QueriesAreApart'
    BY <1>0, <1>1, <1>4, <1>5 DEF QueriesAreApart, Members
  <1>d. CallsRise'
    BY <1>0, <1>1, <1>4, <1>5 DEF CallsRise
  <1>e. FetchKnowsTheRest'
    <2>1. \A f \in Fetches :
             /\ fetch[f].upto <= fetchable
             /\ fetch[f].at = "found" => \A i \in DOMAIN log : i > fetch[f].upto => log[i] \in apart'
             /\ fetch[f].at \in {"asked", "failed"} => \A i \in DOMAIN log : i > fetchable => log[i] \in apart'
      BY <1>1, <1>5 DEF FetchKnowsTheRest
    <2> QED
      BY <2>1, <1>0, <1>1, <1>5 DEF FetchKnowsTheRest, Members
  <1>6. \A n : n \in Announced => n \in apart'
    BY <1>0, <1>3, AnnouncedIs
  <1>f. FetchWouldKnow'
    BY <1>6, <1>0, <1>1, <1>5 DEF FetchWouldKnow, Members
  <1>g. TabFollows'
    <2> SUFFICES ASSUME view # <<>>, ~Fetching, NEW m \in (Members(log) \cup Members(called)) \ apart'
                 PROVE  \/ m \in ShownIds
                        \/ ~IsCall(m) /\ \E k \in ShownIds : k # m /\ says[k] = says[m]
      BY <1>0, <1>4 DEF TabFollows, Members
    <2> QED
      BY <1>1, <1>5, <1>6 DEF TabFollows
  <1>h. ShownAreUnique'
    BY <1>0, <1>1, <1>5 DEF ShownAreUnique
  <1>i. EchoWillBeKnown'
    <2>1. \A m : m \notin Pending'
      BY <1>5, PendingIsNext DEF Members
    <2> QED
      BY <2>1, <1>5 DEF EchoWillBeKnown, Members
  <1>j. CallsAreNews'
    <2>2. \A i, j \in DOMAIN view' :
            /\ i < j /\ {view'[i].n, view'[j].n} \cap apart' = {}
            /\ says'[view'[i].n] = "call" /\ says'[view'[j].n] = "call"
            => view'[i].n < view'[j].n
      BY <1>0, <1>1, <1>5 DEF CallsAreNews, IsCall
    <2> QED
      BY <2>2, <1>5 DEF CallsAreNews, IsCall
  <1>k. ResultsFollow'
    <2>1. \A n \in results \ apart' : ~On("result", n)
      BY <1>0, <1>3
    <2>2. \A n \in results \ apart' : \A i \in Places(n) : view[i].done
      BY <2>1, <1>1, <1>5 DEF ResultsFollow
    <2>3. \A n \in results' \ apart' :
             On("result", n)' \/ (~On("call", n)' /\ \A i \in Places(n)' : view'[i].done)
      BY <2>2, <1>0, <1>4, <1>5
    <2> QED
      BY <2>3, <1>5 DEF ResultsFollow
  <1>l. SpinnerWaits'
    <2>1. losses' > 0
      BY <1>0 DEF ViewTypeOK
    <2> QED
      BY <2>1 DEF SpinnerWaits
  <1> QED
    BY <1>t, <1>a, <1>b, <1>c, <1>d, <1>e, <1>f, <1>g, <1>h, <1>i, <1>j, <1>k, <1>l DEF ViewInv

(* What a new message reads is added to what was written.                  *)
LEMMA Making ==
    ASSUME ViewTypeOK, NEW t \in Writings \cup {"call"}, Make(t)
    PROVE  /\ says' \in Seq(Writings \cup {"call"}) /\ Len(says') <= MaxShown
           /\ New \in Shown /\ New \in Nat /\ New # 0 /\ New \notin Made /\ Made' = Made \cup {New}
           /\ \A m \in Made : m < New /\ m # New /\ m \in Nat /\ says'[m] = says[m]
           /\ says'[New] = t
  <1>1. says \in Seq(Writings \cup {"call"}) /\ Len(says) \in Nat /\ Made = 1 .. Len(says)
    BY DEF ViewTypeOK, Made
  <1>2. /\ Append(says, t) \in Seq(Writings \cup {"call"}) /\ Len(Append(says, t)) = Len(says) + 1
        /\ DOMAIN Append(says, t) = 1 .. Len(says) + 1
        /\ \A m \in 1 .. Len(says) : Append(says, t)[m] = says[m]
        /\ Append(says, t)[Len(says) + 1] = t
    BY <1>1
  <1>3. says' = Append(says, t) /\ New \in Shown /\ New = Len(says) + 1
    BY DEF Make, New
  <1> QED
    BY <1>1, <1>2, <1>3, ViewAssumption DEF Made, Shown

(* A message is shown while it is sent.                                    *)
LEMMA SendMessageKeeps ==
    ASSUME ViewInv, SendMessage
    PROVE  ViewInv'
  <1>1. PICK t \in Writings : Make(t)
    BY DEF SendMessage
  <1> DEFINE n == New
  <1>0. /\ ViewTypeOK /\ wire' = wire /\ log' = log /\ fetch' = fetch /\ fetchable' = fetchable
        /\ results' = results /\ losses' = losses /\ loading' = TRUE /\ viewing' = viewing
        /\ called' = called /\ phase' = phase /\ connected' = connected /\ Fetching' = Fetching
        /\ view' = Append(view, [n |-> n, done |-> TRUE])
        /\ uplink' = IF connected THEN Append(uplink, n) ELSE uplink
        /\ apart' = apart \cup (Unfetched \cup Astray(n) \cup (IF Pending = {} THEN {} ELSE Pending \cup {n}))
        /\ Announced' = Announced
    BY DEF ViewInv, SendMessage, TabOnly, serverVars, Fetching, Doubt, Announced, Members
  <1>2. /\ says' \in Seq(Writings \cup {"call"}) /\ Len(says') <= MaxShown
        /\ n \in Shown /\ n \in Nat /\ n # 0 /\ n \notin Made /\ Made' = Made \cup {n}
        /\ \A m \in Made : m < n /\ m # n /\ m \in Nat /\ says'[m] = says[m]
        /\ says'[n] # "call"
    BY <1>0, <1>1, Making, ViewAssumption
  <1> HIDE DEF n
  <1>3. /\ AllWereMade /\ KindsAgree /\ QueriesAreApart /\ CallsRise /\ FetchKnowsTheRest
        /\ FetchWouldKnow /\ TabFollows /\ ShownAreUnique /\ EchoWillBeKnown /\ CallsAreNews
        /\ ResultsFollow /\ SpinnerWaits
    BY DEF ViewInv
  <1>4. /\ Members(uplink') \subseteq Members(uplink) \cup {n} /\ uplink' \in Seq(Shown)
        /\ \A i \in DOMAIN uplink' : \/ i \in DOMAIN uplink /\ uplink'[i] = uplink[i]
                                     \/ i = Len(uplink) + 1 /\ uplink'[i] = n
    BY <1>0, <1>2, MembersAppend DEF ViewTypeOK
  <1>5. /\ view' \in Seq([n : Shown, done : BOOLEAN]) /\ view' # <<>>
        /\ Len(view') = Len(view) + 1 /\ Len(view) \in Nat /\ DOMAIN view = 1 .. Len(view)
        /\ DOMAIN view' = 1 .. Len(view) + 1
        /\ \A i \in DOMAIN view : i \in DOMAIN view' /\ view'[i] = view[i]
        /\ \A i \in DOMAIN view' : \/ i \in DOMAIN view /\ view'[i] = view[i]
                                   \/ i = Len(view) + 1 /\ view'[i] = [n |-> n, done |-> TRUE]
        /\ view'[Len(view) + 1] = [n |-> n, done |-> TRUE] /\ Len(view) + 1 \in DOMAIN view'
    <2>1. PICK S : S = [n : Shown, done : BOOLEAN]
      OBVIOUS
    <2>2. PICK x : x = [n |-> n, done |-> TRUE]
      OBVIOUS
    <2>3. view \in Seq(S) /\ x \in S /\ view' = Append(view, x)
      BY <2>1, <2>2, <1>0, <1>2 DEF ViewTypeOK
    <2>4. /\ view' \in Seq(S) /\ view' # <<>>
          /\ Len(view') = Len(view) + 1 /\ Len(view) \in Nat /\ DOMAIN view = 1 .. Len(view)
          /\ DOMAIN view' = 1 .. Len(view) + 1
          /\ \A i \in 1 .. Len(view) : view'[i] = view[i]
          /\ view'[Len(view) + 1] = x
      BY <2>3
    <2> QED
      BY <2>1, <2>2, <2>4
  <1>6. /\ ShownIds' = ShownIds \cup {n} /\ n \notin ShownIds
        /\ \A m : m # n => Places(m)' = Places(m)
    <2>1. n \notin ShownIds
      BY <1>2, <1>3 DEF AllWereMade
    <2>2. ShownIds' = ShownIds \cup {n}
      BY <1>5 DEF ShownIds
    <2>3. \A m : m # n => Places(m)' = Places(m)
      BY <1>5 DEF Places
    <2> QED
      BY <2>1, <2>2, <2>3
  <1>7. /\ apart \subseteq apart' /\ apart' \subseteq Made'
        /\ (~connected \/ Fetching => n \in apart')
        /\ (Pending # {} => Pending \subseteq apart' /\ n \in apart')
        /\ (view = <<>> /\ ~Fetching => Members(log) \ Announced \subseteq apart')
    <2>1. Unfetched \subseteq Made /\ Pending \subseteq Made /\ Astray(n) \subseteq {n}
      BY <1>3 DEF Unfetched, Pending, Astray, AllWereMade
    <2>2. apart' \subseteq Made'
      BY <2>1, <1>0, <1>2, <1>3 DEF AllWereMade
    <2>3. ~connected \/ Fetching => n \in apart'
      BY <1>0 DEF Astray
    <2>4. view = <<>> /\ ~Fetching => Members(log) \ Announced \subseteq apart'
      BY <1>0 DEF Unfetched
    <2> QED
      BY <2>2, <2>3, <2>4, <1>0
  <1>8. \A ty, m : On(ty, m)' <=> On(ty, m)
    BY <1>0 DEF On
  <1>w. \A i \in DOMAIN wire : /\ wire[i] \in WireEvents
                               /\ wire[i].type \in {"user", "call", "result"} => wire[i].n \in Made
                               /\ wire[i].type \in {"start", "complete"} => wire[i].n = 0
    BY <1>0, <1>3, WireNames
  <1>m. \A m \in Members(log) \cup Members(called) \cup Members(uplink) \cup ShownIds \cup results :
           m \in Made /\ m # n /\ says'[m] = says[m]
    BY <1>2, <1>3 DEF AllWereMade
  <1>t. ViewTypeOK'
    <2>1. apart' \subseteq Shown
      BY <1>0, <1>2, <1>7, MadeAre
    <2> QED
      BY <1>0, <1>2, <1>4, <1>5, <2>1 DEF ViewTypeOK
  <1>a. AllWereMade'
    <2>1. /\ Members(log') \subseteq Made' /\ Members(called') \subseteq Made'
          /\ Members(uplink') \subseteq Made' /\ ShownIds' \subseteq Made' /\ results' \subseteq Made'
      BY <1>0, <1>2, <1>4, <1>6, <1>m
    <2>2. \A i \in DOMAIN wire' : wire'[i].n \in Made' \cup {0}
      BY <1>0, <1>2, <1>3 DEF AllWereMade
    <2> QED
      BY <2>1, <2>2, <1>7 DEF AllWereMade, Members
  <1>b. KindsAgree'
    <2>1. \A m \in Members(called') \cup results' : says'[m] = "call"
      BY <1>0, <1>3, <1>m DEF KindsAgree, IsCall
    <2>2. \A m \in Members(uplink') : says'[m] # "call"
      BY <1>2, <1>3, <1>4, <1>m DEF KindsAgree, IsCall
    <2>3. \A i \in DOMAIN wire' : wire'[i].type = "user" => says'[wire'[i].n] # "call"
      BY <1>0, <1>2, <1>3, <1>w DEF KindsAgree, IsCall
    <2>4. \A i \in DOMAIN wire' : wire'[i].type \in {"call", "result"} => says'[wire'[i].n] = "call"
      BY <1>0, <1>2, <1>3, <1>w DEF KindsAgree, IsCall
    <2> QED
      BY <2>1, <2>2, <2>3, <2>4 DEF KindsAgree, IsCall, Members
  <1>9. \A ty \in {"user", "call", "result"} : ~On(ty, n)
    BY <1>2, <1>w DEF On
  <1>c. QueriesAreApart'
    <2>1. \A m \in Members(uplink') : m \notin Members(log') /\ ~On("user", m)'
      BY <1>0, <1>3, <1>4, <1>8, <1>9, <1>m DEF QueriesAreApart
    <2>2. \A i, j \in DOMAIN uplink' : uplink'[i] = uplink'[j] => i = j
      <3>1. \A i \in DOMAIN uplink : uplink[i] # n
        BY <1>m DEF Members
      <3> QED
        BY <3>1, <1>3, <1>4 DEF QueriesAreApart
    <2> QED
      BY <1>0, <1>3, <2>1, <2>2 DEF QueriesAreApart, Members
  <1>d. CallsRise'
    <2>1. \A i \in DOMAIN log : says'[log[i]] = says[log[i]]
      BY <1>m DEF Members
    <2> QED
      BY <1>0, <1>3, <2>1 DEF CallsRise, IsCall
  <1>e. FetchKnowsTheRest'
    <2>1. \A f \in Fetches :
             /\ fetch[f].upto <= fetchable
             /\ fetch[f].at = "found" => \A i \in DOMAIN log : i > fetch[f].upto => log[i] \in apart'
             /\ fetch[f].at \in {"asked", "failed"} => \A i \in DOMAIN log : i > fetchable => log[i] \in apart'
      BY <1>3, <1>7 DEF FetchKnowsTheRest
    <2>2. Fetching => /\ Members(called') \cup Members(uplink') \subseteq apart'
                      /\ \A i \in DOMAIN wire' : wire'[i].n \in apart' \cup {0}
      BY <1>0, <1>3, <1>4, <1>7 DEF FetchKnowsTheRest
    <2> QED
      BY <2>1, <2>2, <1>0 DEF FetchKnowsTheRest, Members
  <1>f. FetchWouldKnow'
    BY <1>5 DEF FetchWouldKnow
  <1>g. TabFollows'
    <2> SUFFICES ASSUME ~Fetching, NEW m \in (Members(log) \cup Members(called)) \ apart'
                 PROVE  \/ m \in ShownIds \cup Announced
                        \/ says[m] # "call" /\ \E k \in ShownIds : k # m /\ says[k] = says[m]
      <3>1. \A m \in Members(log) \cup Members(called) : says'[m] = says[m]
        BY <1>m
      <3>2. \A k \in ShownIds : says'[k] = says[k]
        BY <1>m
      <3> QED
        BY <3>1, <3>2, <1>0, <1>6 DEF TabFollows, Members, IsCall
    <2>1. CASE view = <<>>
      BY <2>1, <1>3, <1>7 DEF FetchWouldKnow
    <2>2. CASE view # <<>>
      BY <2>2, <1>3, <1>7 DEF TabFollows, IsCall
    <2> QED
      BY <2>1, <2>2
  <1>h. ShownAreUnique'
    <2>1. \A i \in DOMAIN view : view[i].n # n
      BY <1>6 DEF ShownIds
    <2> QED
      BY <2>1, <1>3, <1>5, <1>7 DEF ShownAreUnique
  <1>i. EchoWillBeKnown'
    <2>1. Members(uplink') \ apart' \subseteq ShownIds'
      BY <1>3, <1>4, <1>6, <1>7 DEF EchoWillBeKnown
    <2>2. Pending' \subseteq Pending \cup {n}
      <3> SUFFICES ASSUME NEW m \in Pending', m # n PROVE m \in Pending
        OBVIOUS
      <3>1. m \in ShownIds /\ (m \in Members(uplink) \/ On("user", m))
        BY <1>4, <1>6, <1>8, PendingIsNext DEF Members
      <3> QED
        BY <3>1, PendingIs
    <2>3. \A m \in Pending' \ apart' : m = n
      BY <2>2, <1>7
    <2>4. Len(view) + 1 \in LastUser' /\ view'[Len(view) + 1].n = n
      BY <1>2, <1>5 DEF LastUser, IsCall
    <2> QED
      BY <2>1, <2>3, <2>4 DEF EchoWillBeKnown, Members
  <1>v. \A i \in DOMAIN view : says'[view[i].n] = says[view[i].n]
    BY <1>m DEF ShownIds
  <1>j. CallsAreNews'
    <2>1. \A i \in DOMAIN view' : says'[view'[i].n] = "call" =>
             i \in DOMAIN view /\ view'[i] = view[i] /\ says[view[i].n] = "call"
      BY <1>2, <1>5, <1>v
    <2>2. \A m \in Made' \ apart' : On("call", m)' => On("call", m) /\ m \in Made \ apart /\ m # n
      BY <1>2, <1>7, <1>8, <1>9
    <2>3. \A m \in Made' \ apart' : On("call", m)' => m \notin ShownIds'
      BY <2>2, <1>3, <1>6 DEF CallsAreNews
    <2>4. \A i, j \in DOMAIN view' :
            /\ i < j /\ {view'[i].n, view'[j].n} \cap apart' = {}
            /\ says'[view'[i].n] = "call" /\ says'[view'[j].n] = "call"
            => view'[i].n < view'[j].n
      BY <2>1, <1>3, <1>7 DEF CallsAreNews, IsCall
    <2>5. \A i \in DOMAIN view', m \in Made' \ apart' :
             On("call", m)' /\ says'[view'[i].n] = "call" /\ view'[i].n \notin apart' => view'[i].n < m
      BY <2>1, <2>2, <1>3, <1>7 DEF CallsAreNews, IsCall
    <2> QED
      BY <2>3, <2>4, <2>5 DEF CallsAreNews, IsCall
  <1>k. ResultsFollow'
    <2>0. \A m : \A i \in Places(m) : i \in DOMAIN view
      BY DEF Places
    <2>1. \A j \in DOMAIN wire' : wire'[j].type = "result" /\ wire'[j].n \notin apart' =>
             wire'[j].n \in ShownIds' \/ \E i \in 1 .. j - 1 : wire'[i] = Event("call", wire'[j].n)
      BY <1>0, <1>3, <1>6, <1>7 DEF ResultsFollow
    <2>2. \A m \in results' \ apart' :
             On("result", m)' \/ (~On("call", m)' /\ \A i \in Places(m)' : view'[i].done)
      <3> SUFFICES ASSUME NEW m \in results, m \notin apart'
                   PROVE  On("result", m) \/ (~On("call", m) /\ \A i \in Places(m) : view'[i].done)
        BY <1>0, <1>6, <1>8, <1>m
      <3> QED
        BY <2>0, <1>3, <1>5, <1>7 DEF ResultsFollow
    <2> QED
      BY <2>1, <2>2 DEF ResultsFollow, Event
  <1>l. SpinnerWaits'
    <2>1. n \notin Members(log)
      BY <1>m
    <2>2. \E m \in ShownIds' : says'[m] # "call" /\ m \notin Members(log')
      BY <2>1, <1>0, <1>2, <1>6
    <2>3. /\ ~connected' => losses' > 0
          /\ \A i \in DOMAIN wire' : wire'[i].type = "start" =>
                \/ phase' = "running" \/ losses' > 0
                \/ \E j \in i + 1 .. Len(wire') : wire'[j].type = "complete"
      BY <1>0, <1>3 DEF SpinnerWaits
    <2> QED
      BY <2>2, <2>3 DEF SpinnerWaits, IsCall, Members
  <1> QED
    BY <1>t, <1>a, <1>b, <1>c, <1>d, <1>e, <1>f, <1>g, <1>h, <1>i, <1>j, <1>k, <1>l DEF ViewInv

(* The tab hears the first of what is on its way.                          *)
LEMMA HearKeeps ==
    ASSUME ViewInv, Hear
    PROVE  ViewInv'
  <1>0. /\ ViewTypeOK /\ says' = says /\ log' = log /\ fetch' = fetch /\ fetchable' = fetchable
        /\ results' = results /\ losses' = losses /\ viewing' = viewing /\ uplink' = uplink
        /\ called' = called /\ phase' = phase /\ connected' = connected /\ Fetching' = Fetching
        /\ wire # <<>> /\ wire' = Tail(wire) /\ wire \in Seq(WireEvents)
        /\ view \in Seq([n : Shown, done : BOOLEAN])
    BY DEF ViewInv, ViewTypeOK, Hear, serverVars, Fetching
  <1>1. /\ AllWereMade /\ KindsAgree /\ QueriesAreApart /\ CallsRise /\ FetchKnowsTheRest
        /\ FetchWouldKnow /\ TabFollows /\ ShownAreUnique /\ EchoWillBeKnown /\ CallsAreNews
        /\ ResultsFollow /\ SpinnerWaits
    BY DEF ViewInv
  <1>2. PICK e : e = Head(wire)
    OBVIOUS
  <1>3. /\ view' = ShowsEvent(e)
        /\ loading' = (e.type = "start" \/ (loading /\ e.type # "complete"))
        /\ apart' = apart \cup (CASE e.type = "user" /\ ~Echo(e.n) -> Unfetched \cup (Pending \ {e.n})
                                  [] e.type = "call" -> Unfetched
                                  [] OTHER -> {})
    BY <1>2 DEF Hear, Doubt
  <1>4. /\ e = wire[1] /\ e \in WireEvents /\ wire' \in Seq(WireEvents) /\ 1 \in DOMAIN wire
        /\ \A i \in DOMAIN wire' : i + 1 \in DOMAIN wire /\ wire'[i] = wire[i + 1] /\ i \in Nat /\ i >= 1
        /\ \A i \in DOMAIN wire : i # 1 => i - 1 \in DOMAIN wire' /\ wire'[i - 1] = wire[i]
        /\ DOMAIN wire = 1 .. Len(wire) /\ Len(wire) \in Nat
        /\ DOMAIN wire' = 1 .. Len(wire') /\ Len(wire') = Len(wire) - 1
    <2>1. /\ Head(wire) = wire[1] /\ Head(wire) \in WireEvents /\ Tail(wire) \in Seq(WireEvents) /\ 1 \in DOMAIN wire
          /\ \A i \in DOMAIN Tail(wire) : i + 1 \in DOMAIN wire /\ Tail(wire)[i] = wire[i + 1] /\ i \in Nat /\ i >= 1
          /\ \A i \in DOMAIN wire : i # 1 => i - 1 \in DOMAIN Tail(wire) /\ Tail(wire)[i - 1] = wire[i]
      BY <1>0, MembersTail
    <2>2. /\ DOMAIN wire = 1 .. Len(wire) /\ Len(wire) \in Nat
          /\ DOMAIN Tail(wire) = 1 .. Len(Tail(wire)) /\ Len(Tail(wire)) = Len(wire) - 1
      BY <1>0
    <2> QED
      BY <2>1, <2>2, <1>0, <1>2
  <1>w. \A i \in DOMAIN wire : /\ wire[i] \in WireEvents
                               /\ wire[i].type \in {"user", "call", "result"} => wire[i].n \in Made
                               /\ wire[i].type \in {"start", "complete"} => wire[i].n = 0
    BY <1>0, <1>1, WireNames
  <1>5. /\ e.type \in {"user", "call", "result", "start", "complete"}
        /\ e.type \in {"user", "call", "result"} => e.n \in Made /\ e.n \in Shown
        /\ e.type = "user" => ~IsCall(e.n)
        /\ e.type \in {"call", "result"} => IsCall(e.n)
        /\ On(e.type, e.n)
    <2>1. e.type \in {"user", "call", "result", "start", "complete"}
      BY <1>4 DEF WireEvents
    <2>2. e.type \in {"user", "call", "result"} => e.n \in Made /\ e.n \in Shown
      BY <1>0, <1>4, <1>w, MadeAre
    <2>3. On(e.type, e.n)
      BY <1>4 DEF On
    <2> QED
      BY <2>1, <2>2, <2>3, <1>1, <1>4 DEF KindsAgree
  <1>6. \A ty, m : /\ On(ty, m)' => On(ty, m)
                   /\ On(ty, m) => On(ty, m)' \/ (e.type = ty /\ e.n = m)
    <2> TAKE ty, m
    <2>1. ASSUME On(ty, m)' PROVE On(ty, m)
      BY <2>1, <1>4 DEF On
    <2>2. ASSUME On(ty, m), ~(e.type = ty /\ e.n = m) PROVE On(ty, m)'
      <3>1. PICK i \in DOMAIN wire : wire[i].type = ty /\ wire[i].n = m
        BY <2>2 DEF On
      <3>2. i # 1
        BY <2>2, <3>1, <1>4
      <3>3. i - 1 \in DOMAIN wire' /\ wire'[i - 1].type = ty /\ wire'[i - 1].n = m
        BY <3>1, <3>2, <1>4
      <3> QED
        BY <3>3 DEF On
    <2> QED
      BY <2>1, <2>2
  <1>7. /\ Made' = Made /\ \A m : (IsCall(m)' <=> IsCall(m))
    BY <1>0 DEF Made, IsCall
  <1>8. apart \subseteq apart' /\ apart' \subseteq Made
    <2>1. Unfetched \subseteq Made /\ Pending \subseteq Made
      BY <1>1 DEF Unfetched, Pending, AllWereMade
    <2> QED
      BY <2>1, <1>1, <1>3 DEF AllWereMade
  (* It is added to what is shown, or it is not. *)
  <1> DEFINE Added == /\ e.type \in {"user", "call"} /\ (e.type = "user" => ~Echo(e.n))
                      /\ \E d \in BOOLEAN : view' = Append(view, [n |-> e.n, done |-> d])
             Kept == /\ e.type # "call" /\ (e.type = "user" => Echo(e.n))
                     /\ \E at : /\ view' = Done(at)
                                /\ e.type = "result" => LastOpen({e.n}) \subseteq at
  <1>9. Added \/ Kept
    <2>1. CASE e.type = "user" /\ ~Echo(e.n)
      BY <2>1, <1>3 DEF ShowsEvent
    <2>2. CASE e.type = "call"
      BY <2>2, <1>3 DEF ShowsEvent
    <2>3. CASE e.type = "result"
      BY <2>3, <1>3 DEF ShowsEvent
    <2>4. CASE (e.type = "user" /\ Echo(e.n)) \/ e.type \in {"start", "complete"}
      <3>1. view' = view
        BY <2>4, <1>3 DEF ShowsEvent
      <3>2. Done({}) = [i \in DOMAIN view |-> view[i]]
        BY DEF Done
      <3>3. view = [i \in DOMAIN view |-> view[i]]
        <4>1. PICK S : S = [n : Shown, done : BOOLEAN]
          OBVIOUS
        <4>2. view \in Seq(S)
          BY <4>1, <1>0
        <4> QED
          BY <4>2
      <3> QED
        BY <2>4, <3>1, <3>2, <3>3
    <2> QED
      BY <2>1, <2>2, <2>3, <2>4, <1>5
  <1>10. ASSUME Added
         PROVE  /\ view' \in Seq([n : Shown, done : BOOLEAN]) /\ view' # <<>>
                /\ Len(view') = Len(view) + 1 /\ Len(view) \in Nat /\ DOMAIN view = 1 .. Len(view)
                /\ DOMAIN view' = 1 .. Len(view) + 1
                /\ \A i \in DOMAIN view : i \in DOMAIN view' /\ view'[i] = view[i]
                /\ \A i \in DOMAIN view' : \/ i \in DOMAIN view /\ view'[i] = view[i]
                                           \/ i = Len(view) + 1 /\ view'[i].n = e.n
                /\ ShownIds' = ShownIds \cup {e.n}
                /\ \A m : m # e.n => Places(m)' = Places(m)
                /\ view = <<>> /\ ~Fetching => Members(log) \ Announced \subseteq apart'
                /\ e.type = "user" => Pending \ {e.n} \subseteq apart'
    <2>1. PICK S : S = [n : Shown, done : BOOLEAN]
      OBVIOUS
    <2>2. PICK d \in BOOLEAN : view' = Append(view, [n |-> e.n, done |-> d])
      BY <1>10
    <2>3. PICK x : x = [n |-> e.n, done |-> d]
      OBVIOUS
    <2>4. view \in Seq(S) /\ x \in S /\ view' = Append(view, x) /\ x.n = e.n
      BY <2>1, <2>2, <2>3, <1>0, <1>5, <1>10
    <2>5. /\ view' \in Seq(S) /\ view' # <<>>
          /\ Len(view') = Len(view) + 1 /\ Len(view) \in Nat /\ DOMAIN view = 1 .. Len(view)
          /\ DOMAIN view' = 1 .. Len(view) + 1
          /\ \A i \in 1 .. Len(view) : view'[i] = view[i]
          /\ view'[Len(view) + 1] = x
      BY <2>4
    <2>6. /\ \A i \in DOMAIN view : i \in DOMAIN view' /\ view'[i] = view[i]
          /\ \A i \in DOMAIN view' : \/ i \in DOMAIN view /\ view'[i] = view[i]
                                     \/ i = Len(view) + 1 /\ view'[i].n = e.n
          /\ Len(view) + 1 \in DOMAIN view' /\ view'[Len(view) + 1].n = e.n
      BY <2>4, <2>5
    <2>7. ShownIds' = ShownIds \cup {e.n}
      BY <2>6 DEF ShownIds
    <2>8. \A m : m # e.n => Places(m)' = Places(m)
      BY <2>6 DEF Places
    <2>9. view = <<>> /\ ~Fetching => Members(log) \ Announced \subseteq apart'
      BY <1>3, <1>10 DEF Unfetched
    <2>10. e.type = "user" => Pending \ {e.n} \subseteq apart'
      BY <1>3, <1>10
    <2> QED
      BY <2>1, <2>5, <2>6, <2>7, <2>8, <2>9, <2>10
  <1>11. ASSUME Kept
         PROVE  /\ view' \in Seq([n : Shown, done : BOOLEAN]) /\ DOMAIN view' = DOMAIN view
                /\ Len(view') = Len(view)
                /\ \A i \in DOMAIN view : /\ view'[i].n = view[i].n
                                          /\ view[i].done => view'[i].done
                                          /\ e.type = "result" /\ i \in LastOpen({e.n}) => view'[i].done
                /\ ShownIds' = ShownIds /\ (view' = <<>> <=> view = <<>>)
                /\ \A m : Places(m)' = Places(m)
    <2>1. PICK at : view' = Done(at) /\ (e.type = "result" => LastOpen({e.n}) \subseteq at)
      BY <1>11
    <2>2. /\ view' \in Seq([n : Shown, done : BOOLEAN]) /\ DOMAIN view' = DOMAIN view
          /\ Len(view') = Len(view)
          /\ \A i \in DOMAIN view : /\ view'[i].n = view[i].n
                                    /\ view[i].done \/ i \in at => view'[i].done
          /\ ShownIds' = ShownIds /\ (view' = <<>> <=> view = <<>>)
          /\ \A m : Places(m)' = Places(m)
      BY <1>0, <2>1, DoneKeeps
    <2>3. \A i \in DOMAIN view : e.type = "result" /\ i \in LastOpen({e.n}) => view'[i].done
      BY <2>1, <2>2
    <2> QED
      BY <2>2, <2>3
  <1> HIDE DEF Added, Kept
  <1>12. /\ Added => e.type \in {"user", "call"} /\ (e.type = "user" => ~Echo(e.n))
         /\ Kept => e.type # "call" /\ (e.type = "user" => Echo(e.n))
    BY DEF Added, Kept
  <1>13. ShownIds \subseteq ShownIds' /\ ShownIds' \subseteq ShownIds \cup {e.n}
    BY <1>9, <1>10, <1>11
  <1>14. \A m : m \in Announced => m \in Announced' \/ (m = e.n /\ e.type \in {"user", "call"})
    BY <1>6, AnnouncedIs, AnnouncedIsNext
  <1>15. \A i \in DOMAIN wire' : wire'[i].n \in Made \cup {0}
    BY <1>1, <1>4 DEF AllWereMade
  <1>t. ViewTypeOK'
    <2>1. view' \in Seq([n : Shown, done : BOOLEAN])
      BY <1>9, <1>10, <1>11
    <2>2. apart' \subseteq Shown /\ loading' \in BOOLEAN
      <3>1. (e.type = "start" \/ (loading /\ e.type # "complete")) \in BOOLEAN
        OBVIOUS
      <3>2. loading' \in BOOLEAN
        BY <3>1, <1>3
      <3>3. Made \subseteq Shown
        BY <1>0, MadeAre
      <3> QED
        BY <3>2, <3>3, <1>8
    <2> QED
      BY <1>0, <1>4, <2>1, <2>2 DEF ViewTypeOK
  <1>a. AllWereMade'
    <2>1. ShownIds' \subseteq Made
      BY <1>1, <1>5, <1>9, <1>10, <1>11, <1>12 DEF AllWereMade
    <2> QED
      BY <2>1, <1>0, <1>1, <1>7, <1>8, <1>15 DEF AllWereMade, Members
  <1>b. KindsAgree'
    <2>1. /\ \A i \in DOMAIN wire' : wire'[i].type = "user" => ~IsCall(wire'[i].n)
          /\ \A i \in DOMAIN wire' : wire'[i].type \in {"call", "result"} => IsCall(wire'[i].n)
      BY <1>1, <1>4 DEF KindsAgree
    <2>2. /\ \A i \in DOMAIN wire' : wire'[i].type = "user" => says'[wire'[i].n] # "call"
          /\ \A i \in DOMAIN wire' : wire'[i].type \in {"call", "result"} => says'[wire'[i].n] = "call"
      BY <2>1, <1>0 DEF IsCall
    <2> QED
      BY <2>2, <1>0, <1>1, <1>7 DEF KindsAgree, IsCall, Members
  <1>c. QueriesAreApart'
    <2>1. \A i, j \in DOMAIN wire' :
             wire'[i].type = "user" /\ wire'[j].type = "user" /\ wire'[i].n = wire'[j].n => i = j
      <3> SUFFICES ASSUME NEW i \in DOMAIN wire', NEW j \in DOMAIN wire', wire'[i].type = "user",
                          wire'[j].type = "user", wire'[i].n = wire'[j].n
                   PROVE  i = j
        OBVIOUS
      <3>1. i + 1 = j + 1
        BY <1>1, <1>4 DEF QueriesAreApart
      <3> QED
        BY <3>1, <1>4
    <2>2. \A m \in Members(uplink') : m \notin Members(log') /\ ~On("user", m)'
      BY <1>0, <1>1, <1>6 DEF QueriesAreApart
    <2>3. /\ \A i, j \in DOMAIN uplink' : uplink'[i] = uplink'[j] => i = j
          /\ \A i, j \in DOMAIN log' : log'[i] = log'[j] => i = j
      BY <1>0, <1>1 DEF QueriesAreApart
    <2> QED
      BY <2>1, <2>2, <2>3 DEF QueriesAreApart, Members
  <1>d. CallsRise'
    <2>1. \A i, j \in DOMAIN wire' :
             i < j /\ wire'[i].type = "call" /\ wire'[j].type = "call" => wire'[i].n < wire'[j].n
      <3> SUFFICES ASSUME NEW i \in DOMAIN wire', NEW j \in DOMAIN wire', i < j, wire'[i].type = "call",
                          wire'[j].type = "call"
                   PROVE  wire'[i].n < wire'[j].n
        OBVIOUS
      <3>1. i + 1 < j + 1 /\ i + 1 \in DOMAIN wire /\ j + 1 \in DOMAIN wire
        BY <1>4
      <3> QED
        BY <3>1, <1>1, <1>4 DEF CallsRise
    <2> QED
      BY <2>1, <1>0, <1>1, <1>7 DEF CallsRise
  <1>e. FetchKnowsTheRest'
    <2>1. \A f \in Fetches :
             /\ fetch[f].upto <= fetchable
             /\ fetch[f].at = "found" => \A i \in DOMAIN log : i > fetch[f].upto => log[i] \in apart'
             /\ fetch[f].at \in {"asked", "failed"} => \A i \in DOMAIN log : i > fetchable => log[i] \in apart'
      BY <1>1, <1>8 DEF FetchKnowsTheRest
    <2>2. Fetching => /\ Members(called) \cup Members(uplink) \subseteq apart'
                      /\ \A i \in DOMAIN wire' : wire'[i].n \in apart' \cup {0}
      BY <1>1, <1>4, <1>8 DEF FetchKnowsTheRest
    <2> QED
      BY <2>1, <2>2, <1>0 DEF FetchKnowsTheRest, Members
  <1>f. FetchWouldKnow'
    <2> SUFFICES ASSUME view' = <<>>, ~Fetching
                 PROVE  /\ \A i \in DOMAIN log : i > fetchable => log[i] \in apart' \cup Announced'
                        /\ Members(called) \subseteq apart' \cup Announced'
                        /\ Members(uplink) \subseteq apart'
      BY <1>0 DEF FetchWouldKnow, Members
    <2>1. Kept /\ view = <<>>
      BY <1>9, <1>10, <1>11
    <2>2. e.type # "user"
      <3>1. LastUser = {}
        BY <2>1 DEF LastUser
      <3> QED
        BY <3>1, <2>1, <1>12 DEF Echo
    <2>3. Announced \subseteq Announced'
      BY <2>1, <2>2, <1>12, <1>14
    <2> QED
      BY <2>1, <2>3, <1>1, <1>8 DEF FetchWouldKnow
  <1>g. TabFollows'
    <2> SUFFICES ASSUME view' # <<>>, ~Fetching, NEW m \in (Members(log) \cup Members(called)) \ apart'
                 PROVE  \/ m \in ShownIds' \cup Announced'
                        \/ ~IsCall(m) /\ \E k \in ShownIds' : k # m /\ says[k] = says[m]
      BY <1>0, <1>7 DEF TabFollows, Members
    <2>1. \/ m \in ShownIds \cup Announced
          \/ ~IsCall(m) /\ \E k \in ShownIds : k # m /\ says[k] = says[m]
      <3>1. CASE view = <<>>
        <4>1. Added
          BY <3>1, <1>9, <1>11
        <4> QED
          BY <3>1, <4>1, <1>1, <1>8, <1>10 DEF FetchWouldKnow
      <3>2. CASE view # <<>>
        BY <3>2, <1>1, <1>8 DEF TabFollows
      <3> QED
        BY <3>1, <3>2
    <2>2. CASE ~(m = e.n /\ e.type \in {"user", "call"})
      BY <2>1, <2>2, <1>13, <1>14
    <2>3. CASE m = e.n /\ e.type \in {"user", "call"}
      <3>1. CASE Added
        BY <2>3, <3>1, <1>10
      <3>2. CASE Kept
        <4>1. e.type = "user" /\ Echo(m) /\ ~IsCall(m)
          BY <2>3, <3>2, <1>5, <1>12
        <4>2. PICK i \in LastUser : says[view[i].n] = says[m]
          BY <4>1 DEF Echo
        <4>3. view[i].n \in ShownIds
          BY <4>2 DEF LastUser, ShownIds
        <4> QED
          BY <4>1, <4>2, <4>3, <1>13
      <3> QED
        BY <3>1, <3>2, <1>9
    <2> QED
      BY <2>2, <2>3
  (* What is added was not shown. *)
  <1>16. Added => e.n \notin ShownIds \/ e.n \in apart
    <2> SUFFICES ASSUME Added, e.n \in ShownIds, e.n \notin apart PROVE FALSE
      OBVIOUS
    <2>1. CASE e.type = "user"
      <3>1. e.n \in Pending
        BY <2>1, <1>5, PendingIs
      <3>2. PICK i \in LastUser : view[i].n = e.n
        BY <3>1, <1>1 DEF EchoWillBeKnown
      <3> QED
        BY <3>2, <2>1, <1>12 DEF Echo
    <2>2. CASE e.type = "call"
      BY <2>2, <1>1, <1>5 DEF CallsAreNews
    <2> QED
      BY <2>1, <2>2, <1>12
  <1>h. ShownAreUnique'
    <2>1. CASE Added
      <3>1. \A i \in DOMAIN view : view[i].n = e.n => e.n \in apart
        BY <2>1, <1>16 DEF ShownIds
      <3> QED
        BY <3>1, <2>1, <1>1, <1>8, <1>10 DEF ShownAreUnique
    <2>2. CASE Kept
      BY <2>2, <1>1, <1>8, <1>11 DEF ShownAreUnique
    <2> QED
      BY <2>1, <2>2, <1>9
  <1>i. EchoWillBeKnown'
    <2>1. Members(uplink') \ apart' \subseteq ShownIds'
      BY <1>0, <1>1, <1>8, <1>13 DEF EchoWillBeKnown
    <2>2. e.type = "user" => e.n \notin Pending'
      <3> SUFFICES ASSUME e.type = "user", e.n \in Pending' PROVE FALSE
        OBVIOUS
      <3>1. e.n \notin Members(uplink)
        BY <1>1, <1>5 DEF QueriesAreApart
      <3>2. On("user", e.n)'
        BY <3>1, <1>0, PendingIsNext DEF Members
      <3>3. PICK i \in DOMAIN wire' : wire'[i].type = "user" /\ wire'[i].n = e.n
        BY <3>2 DEF On
      <3>4. i + 1 = 1
        BY <3>3, <1>1, <1>4 DEF QueriesAreApart
      <3> QED
        BY <3>3, <3>4, <1>4
    <2>3. \A m \in Pending' : m \in ShownIds => m \in Pending
      BY <1>0, <1>6, PendingIs, PendingIsNext DEF Members
    <2>4. \A m \in Pending' : ~IsCall(m)
      <3> SUFFICES ASSUME NEW m, m \in Members(uplink) \/ On("user", m) PROVE ~IsCall(m)
        BY <1>0, <1>6, PendingIsNext DEF Members
      <3> QED
        BY <1>1 DEF KindsAgree, On
    <2>5. \A m \in Pending' \ apart' : m \in Pending \ apart
      BY <2>2, <2>3, <2>4, <1>5, <1>8, <1>9, <1>10, <1>11, <1>12, PendingIsNext
    <2>6. Pending' \subseteq apart' \/ \A i \in LastUser : i \in LastUser' /\ view'[i].n = view[i].n
      <3>0. \A i \in DOMAIN view : \A j \in i + 1 .. Len(view) : j \in DOMAIN view
        BY <1>0
      <3>1. CASE Added /\ e.type = "user"
        BY <3>1, <2>2, <2>5, <1>8, <1>10 DEF Pending
      <3>2. CASE Added /\ e.type = "call"
        <4>1. \A i \in DOMAIN view : \A j \in i + 1 .. Len(view) + 1 : j \in i + 1 .. Len(view) \/ j = Len(view) + 1
          BY <1>10, <3>2
        <4>2. ASSUME NEW i \in LastUser PROVE i \in LastUser'
          <5>1. i \in DOMAIN view /\ says[view[i].n] # "call"
                /\ \A j \in i + 1 .. Len(view) : says[view[j].n] = "call"
            BY <4>2 DEF LastUser, IsCall
          <5>2. i \in DOMAIN view' /\ says[view'[i].n] # "call"
            BY <5>1, <3>2, <1>10
          <5>3. \A j \in i + 1 .. Len(view) + 1 : says[view'[j].n] = "call"
            <6> TAKE j \in i + 1 .. Len(view) + 1
            <6>1. CASE j \in i + 1 .. Len(view)
              BY <6>1, <5>1, <3>0, <3>2, <1>10
            <6>2. CASE j = Len(view) + 1
              BY <6>2, <3>2, <1>5, <1>10 DEF IsCall
            <6> QED
              BY <6>1, <6>2, <4>1, <5>1
          <5> QED
            BY <5>2, <5>3, <3>2, <1>0, <1>10 DEF LastUser, IsCall
        <4> QED
          BY <4>2, <3>2, <1>10 DEF LastUser
      <3>3. CASE Kept
        <4>1. ASSUME NEW i \in LastUser PROVE i \in LastUser'
          <5>1. i \in DOMAIN view /\ says[view[i].n] # "call"
                /\ \A j \in i + 1 .. Len(view) : says[view[j].n] = "call"
            BY <4>1 DEF LastUser, IsCall
          <5> QED
            BY <5>1, <3>0, <3>3, <1>0, <1>11 DEF LastUser, IsCall
        <4> QED
          BY <4>1, <3>3, <1>11 DEF LastUser
      <3> QED
        BY <3>1, <3>2, <3>3, <1>9, <1>12
    <2>7. \A m \in Pending' \ apart' : \E i \in LastUser' : view'[i].n = m
      BY <2>5, <2>6, <1>1 DEF EchoWillBeKnown
    <2> QED
      BY <2>1, <2>7 DEF EchoWillBeKnown, Members
  <1>j. CallsAreNews'
    <2>1. \A m \in Made' \ apart' : On("call", m)' => /\ On("call", m) /\ m \in Made \ apart /\ m # e.n
                                                      /\ e.type = "call" => e.n < m
      <3> SUFFICES ASSUME NEW m \in Made \ apart', On("call", m)'
                   PROVE  m # e.n /\ (e.type = "call" => e.n < m)
        BY <1>6, <1>7, <1>8
      <3>1. PICK i \in DOMAIN wire' : wire'[i].type = "call" /\ wire'[i].n = m
        BY DEF On
      <3>2. i + 1 \in DOMAIN wire /\ 1 < i + 1 /\ wire[i + 1].type = "call" /\ wire[i + 1].n = m
        BY <3>1, <1>4
      <3>3. e.type = "call" => e.n < m
        BY <3>2, <1>1, <1>4 DEF CallsRise
      <3>4. IsCall(m) /\ m \in Nat
        BY <3>2, <1>0, <1>1, MadeAre, ViewAssumption DEF KindsAgree, Shown
      <3>5. e.n = m => e.type # "user"
        BY <3>4, <1>5
      <3>6. e.n = m => e.type \notin {"start", "complete"}
        <4>1. 0 \notin Made
          BY <1>0, MadeAre
        <4> QED
          BY <4>1, <1>4, <1>w
      <3>7. e.type = "result" => e.n # m
        <4> SUFFICES ASSUME e.type = "result", e.n = m PROVE FALSE
          OBVIOUS
        <4>1. m \in ShownIds \/ \E k \in 1 .. 1 - 1 : wire[k] = Event("call", m)
          BY <1>1, <1>4, <1>8 DEF ResultsFollow
        <4>2. On("call", m)
          BY <1>6
        <4> QED
          BY <4>1, <4>2, <1>1, <1>8 DEF CallsAreNews
      <3> QED
        BY <3>3, <3>4, <3>5, <3>6, <3>7, <1>5
    <2>2. \A m \in Made' \ apart' : On("call", m)' => m \notin ShownIds'
      BY <2>1, <1>1, <1>13 DEF CallsAreNews
    <2>3. CASE Added
      <3>1. \A i \in DOMAIN view' :
               says[view'[i].n] = "call" /\ view'[i].n \notin apart' =>
                  \/ i \in DOMAIN view /\ view'[i] = view[i] /\ says[view[i].n] = "call" /\ view[i].n \notin apart
                  \/ i = Len(view) + 1 /\ view'[i].n = e.n /\ e.type = "call"
        BY <2>3, <1>5, <1>8, <1>10, <1>12 DEF IsCall
      <3>2. e.type = "call" /\ e.n \notin apart =>
               \A i \in DOMAIN view : says[view[i].n] = "call" /\ view[i].n \notin apart => view[i].n < e.n
        BY <1>1, <1>5 DEF CallsAreNews, IsCall
      <3>3. \A i, j \in DOMAIN view :
              i < j /\ view[i].n \notin apart /\ view[j].n \notin apart
                    /\ says[view[i].n] = "call" /\ says[view[j].n] = "call"
              => view[i].n < view[j].n
        BY <1>1 DEF CallsAreNews, IsCall
      <3>4. \A i, j \in DOMAIN view' :
              i < j /\ view'[i].n \notin apart' /\ view'[j].n \notin apart'
                    /\ says[view'[i].n] = "call" /\ says[view'[j].n] = "call"
              => view'[i].n < view'[j].n
        <4> SUFFICES ASSUME NEW i \in DOMAIN view', NEW j \in DOMAIN view', i < j,
                            view'[i].n \notin apart', view'[j].n \notin apart',
                            says[view'[i].n] = "call", says[view'[j].n] = "call"
                     PROVE  view'[i].n < view'[j].n
          OBVIOUS
        <4>1. CASE j \in DOMAIN view
          <5>1. /\ i \in DOMAIN view /\ view'[i] = view[i] /\ view'[j] = view[j]
                /\ view[i].n \notin apart /\ view[j].n \notin apart
                /\ says[view[i].n] = "call" /\ says[view[j].n] = "call"
            BY <4>1, <3>1, <1>10, <2>3
          <5> QED
            BY <5>1, <4>1, <3>3
        <4>2. CASE j = Len(view) + 1
          <5>1. i \in DOMAIN view
            BY <4>2, <1>10, <2>3
          <5>2. /\ view'[i] = view[i] /\ says[view[i].n] = "call" /\ view[i].n \notin apart
                /\ view'[j].n = e.n /\ e.type = "call"
            BY <5>1, <4>2, <3>1, <1>10, <2>3
          <5> QED
            BY <5>1, <5>2, <3>2, <1>8
        <4> QED
          BY <4>1, <4>2, <1>10, <2>3
      <3>5. \A i \in DOMAIN view', m \in Made' \ apart' :
               On("call", m)' /\ says[view'[i].n] = "call" /\ view'[i].n \notin apart' => view'[i].n < m
        BY <3>1, <2>1, <1>1 DEF CallsAreNews, IsCall
      <3> QED
        BY <3>4, <3>5, <2>2, <1>0 DEF CallsAreNews, IsCall
    <2>4. CASE Kept
      <3>1. \A i, j \in DOMAIN view' :
              /\ i < j /\ {view'[i].n, view'[j].n} \cap apart' = {}
              /\ says[view'[i].n] = "call" /\ says[view'[j].n] = "call"
              => view'[i].n < view'[j].n
        BY <2>4, <1>1, <1>8, <1>11 DEF CallsAreNews, IsCall
      <3>2. \A i \in DOMAIN view', m \in Made' \ apart' :
               On("call", m)' /\ says[view'[i].n] = "call" /\ view'[i].n \notin apart' => view'[i].n < m
        BY <2>1, <2>4, <1>1, <1>8, <1>11 DEF CallsAreNews, IsCall
      <3> QED
        BY <3>1, <3>2, <2>2, <1>0 DEF CallsAreNews, IsCall
    <2> QED
      BY <2>3, <2>4, <1>9
  <1>k. ResultsFollow'
    <2>1. \A j \in DOMAIN wire' : wire'[j].type = "result" /\ wire'[j].n \notin apart' =>
             wire'[j].n \in ShownIds' \/ \E i \in 1 .. j - 1 : wire'[i] = Event("call", wire'[j].n)
      <3> SUFFICES ASSUME NEW j \in DOMAIN wire', NEW m, wire'[j].type = "result", wire'[j].n = m, m \notin apart'
                   PROVE  m \in ShownIds' \/ \E i \in 1 .. j - 1 : wire'[i] = Event("call", m)
        OBVIOUS
      <3>1. /\ j + 1 \in DOMAIN wire /\ (j + 1) - 1 = j /\ j \in Nat
            /\ wire[j + 1].type = "result" /\ wire[j + 1].n = m
        BY <1>4
      <3>2. m \in ShownIds \/ \E i \in 1 .. j : wire[i] = Event("call", m)
        BY <3>1, <1>1, <1>8 DEF ResultsFollow
      <3>3. CASE m \in ShownIds
        BY <3>3, <1>13
      <3>4. CASE \E i \in 1 .. j : wire[i] = Event("call", m)
        <4>1. PICK i \in 1 .. j : wire[i] = Event("call", m)
          BY <3>4
        <4>2. CASE i = 1
          <5>1. e.type = "call" /\ e.n = m
            BY <4>1, <4>2, <1>4 DEF Event
          <5> QED
            BY <5>1, <1>9, <1>10, <1>12
        <4>3. CASE i # 1
          <5>1. i \in DOMAIN wire /\ i - 1 \in 1 .. j - 1
            BY <4>3, <3>1, <1>4
          <5> QED
            BY <5>1, <4>1, <4>3, <1>4
        <4> QED
          BY <4>2, <4>3
      <3> QED
        BY <3>2, <3>3, <3>4
    <2>2. \A m \in results' \ apart' :
             On("result", m)' \/ (~On("call", m)' /\ \A i \in Places(m)' : view'[i].done)
      <3> SUFFICES ASSUME NEW m \in results, m \notin apart', ~On("result", m)'
                   PROVE  ~On("call", m)' /\ \A i \in Places(m)' : view'[i].done
        BY <1>0
      <3>0. m \notin apart /\ m \in Made
        BY <1>1, <1>8 DEF AllWereMade
      <3>1. CASE ~On("result", m)
        <4>1. ~On("call", m) /\ \A i \in Places(m) : view[i].done
          BY <3>0, <3>1, <1>1 DEF ResultsFollow
        <4>2. ~On("call", m)'
          BY <4>1, <1>6
        <4>3. CASE Added
          <5>1. m # e.n
            BY <4>1, <4>3, <1>1, <1>5, <1>12 DEF KindsAgree
          <5>2. Places(m)' = Places(m) /\ \A i \in Places(m) : i \in DOMAIN view
            BY <5>1, <4>3, <1>10 DEF Places
          <5> QED
            BY <4>1, <4>2, <4>3, <5>2, <1>10
        <4>4. CASE Kept
          <5>1. Places(m)' = Places(m) /\ \A i \in Places(m) : i \in DOMAIN view
            BY <4>4, <1>11 DEF Places
          <5> QED
            BY <4>1, <4>2, <4>4, <5>1, <1>11
        <4> QED
          BY <4>3, <4>4, <1>9
      <3>2. CASE On("result", m)
        <4>1. e.type = "result" /\ e.n = m
          BY <3>2, <1>6
        <4>2. m \in ShownIds \/ \E k \in 1 .. 1 - 1 : wire[k] = Event("call", m)
          BY <4>1, <3>0, <1>1, <1>4 DEF ResultsFollow
        <4>3. ~On("call", m)'
          BY <4>2, <3>0, <1>1, <1>6 DEF CallsAreNews
        <4>4. Kept
          BY <4>1, <1>9, <1>12
        <4>5. Places(m)' = Places(m) /\ \A i \in Places(m) : i \in DOMAIN view /\ view[i].n = m
          BY <4>4, <1>11 DEF Places
        <4>6. \A i \in Places(m) : view[i].done \/ i \in LastOpen({e.n})
          <5> TAKE i \in Places(m)
          <5>1. \A j \in i + 1 .. Len(view) : j \in DOMAIN view /\ i # j
            BY <4>5, <1>0
          <5>2. \A j \in i + 1 .. Len(view) : view[j].n # m
            BY <4>5, <5>1, <3>0, <1>1 DEF ShownAreUnique
          <5> QED
            BY <4>1, <4>5, <5>2 DEF LastOpen, OpenAmong, Open
        <4> QED
          BY <4>1, <4>3, <4>4, <4>5, <4>6, <1>11
      <3> QED
        BY <3>1, <3>2
    <2> QED
      BY <2>1, <2>2 DEF ResultsFollow, Event
  <1>l. SpinnerWaits'
    <2>1. ~connected' => losses' > 0
      BY <1>0, <1>1 DEF SpinnerWaits
    <2>2. \A i \in DOMAIN wire' : wire'[i].type = "start" =>
             \/ phase' = "running" \/ losses' > 0
             \/ \E j \in i + 1 .. Len(wire') : wire'[j].type = "complete"
      <3> SUFFICES ASSUME NEW i \in DOMAIN wire', wire'[i].type = "start", phase # "running", ~(losses > 0)
                   PROVE  \E j \in i + 1 .. Len(wire') : wire'[j].type = "complete"
        BY <1>0
      <3>1. PICK j \in i + 1 + 1 .. Len(wire) : wire[j].type = "complete"
        BY <1>1, <1>4 DEF SpinnerWaits
      <3>2. j \in DOMAIN wire /\ j # 1 /\ j - 1 \in i + 1 .. Len(wire')
        BY <3>1, <1>4
      <3> QED
        BY <3>1, <3>2, <1>4
    <2>3. On("complete", 0) /\ e.type # "complete" => On("complete", 0)'
      BY <1>6
    <2>4. e.type = "start" => phase = "running" \/ losses > 0 \/ On("complete", 0)'
      <3> SUFFICES ASSUME e.type = "start", phase # "running", ~(losses > 0) PROVE On("complete", 0)'
        OBVIOUS
      <3>1. PICK j \in 1 + 1 .. Len(wire) : wire[j].type = "complete"
        BY <1>1, <1>4 DEF SpinnerWaits
      <3>2. j \in DOMAIN wire /\ wire[j].n = 0
        BY <3>1, <1>4, <1>w
      <3>3. On("complete", 0)
        BY <3>1, <3>2 DEF On
      <3> QED
        BY <3>3, <2>3
    <2>5. loading' => \/ Fetching \/ phase = "running" \/ On("complete", 0)' \/ losses > 0
                      \/ \E m \in ShownIds' : ~IsCall(m) /\ m \notin Members(log)
      <3>1. CASE e.type = "start"
        BY <3>1, <2>4
      <3>2. CASE e.type # "start"
        <4>1. loading' => loading /\ e.type # "complete"
          BY <3>2, <1>3
        <4>2. loading => \/ Fetching \/ phase = "running" \/ On("complete", 0) \/ losses > 0
                         \/ \E m \in ShownIds : ~IsCall(m) /\ m \notin Members(log)
          BY <1>1 DEF SpinnerWaits
        <4> QED
          BY <4>1, <4>2, <2>3, <1>13
      <3> QED
        BY <3>1, <3>2
    <2> QED
      BY <2>1, <2>2, <2>5, <1>0, <1>7 DEF SpinnerWaits, Members
  <1> QED
    BY <1>t, <1>a, <1>b, <1>c, <1>d, <1>e, <1>f, <1>g, <1>h, <1>i, <1>j, <1>k, <1>l DEF ViewInv

(* The queries: of this tab, and of another.                               *)
LEMMA ReceiveQueryKeeps ==
    ASSUME ViewInv, ReceiveQuery
    PROVE  ViewInv'
  <1>1. /\ uplink # <<>> /\ uplink' = Tail(uplink) /\ HandleQuery(Head(uplink)) /\ says' = says
        /\ uplink \in Seq(Shown) /\ says \in Seq(Writings \cup {"call"}) /\ Len(says) <= MaxShown
    BY DEF ReceiveQuery, ViewInv, ViewTypeOK
  <1>2. AllWereMade /\ KindsAgree /\ QueriesAreApart
    BY DEF ViewInv
  <1>3. PICK n : n = Head(uplink)
    OBVIOUS
  <1>4. /\ n = uplink[1] /\ n \in Shown /\ Tail(uplink) \in Seq(Shown) /\ 1 \in DOMAIN uplink
        /\ Members(uplink) = {n} \cup Members(Tail(uplink))
        /\ \A i \in DOMAIN Tail(uplink) :
              i + 1 \in DOMAIN uplink /\ Tail(uplink)[i] = uplink[i + 1] /\ i \in Nat /\ i >= 1
    BY <1>1, <1>3, MembersTail
  <1>5. n \in Members(uplink)
    BY <1>4
  <1>6. n \notin Members(log) /\ ~On("user", n) /\ n \notin Members(called) /\ n \in Made /\ ~IsCall(n)
    BY <1>2, <1>5 DEF QueriesAreApart, KindsAgree, AllWereMade
  <1>7. n \notin Members(uplink')
    <2> SUFFICES ASSUME NEW i \in DOMAIN Tail(uplink), Tail(uplink)[i] = n PROVE FALSE
      BY <1>1 DEF Members
    <2>1. i + 1 = 1
      BY <1>2, <1>4 DEF QueriesAreApart
    <2> QED
      BY <2>1, <1>4
  <1>8. \A i, j \in DOMAIN uplink' : uplink'[i] = uplink'[j] => i = j
    <2> SUFFICES ASSUME NEW i \in DOMAIN Tail(uplink), NEW j \in DOMAIN Tail(uplink),
                        Tail(uplink)[i] = Tail(uplink)[j]
                 PROVE  i = j
      BY <1>1
    <2>1. i + 1 = j + 1
      BY <1>2, <1>4 DEF QueriesAreApart
    <2> QED
      BY <2>1, <1>4
  <1>9. Made' = Made /\ says'[n] # "call" /\ Members(uplink') \subseteq Members(uplink)
    BY <1>1, <1>4, <1>6 DEF Made, IsCall
  <1> QED
    BY <1>1, <1>3, <1>4, <1>5, <1>6, <1>7, <1>8, <1>9, HandleQueryKeeps

LEMMA SentElsewhereKeeps ==
    ASSUME ViewInv, SentElsewhere
    PROVE  ViewInv'
  <1>1. /\ HandleQuery(New) /\ uplink' = uplink /\ ViewTypeOK /\ uplink \in Seq(Shown)
        /\ AllWereMade /\ QueriesAreApart
    BY DEF SentElsewhere, ViewInv, ViewTypeOK
  <1>2. PICK t \in Writings : Make(t)
    BY DEF SentElsewhere
  <1>3. PICK n : n = New
    OBVIOUS
  <1>4. /\ says' \in Seq(Writings \cup {"call"}) /\ Len(says') <= MaxShown
        /\ n \in Shown /\ n \notin Made /\ Made' = Made \cup {n} /\ n # 0
        /\ \A m \in Made : says'[m] = says[m]
        /\ says'[n] # "call"
    BY <1>1, <1>2, <1>3, Making, ViewAssumption
  <1>5. /\ n \notin Members(log) /\ n \notin Members(called) /\ n \notin Members(uplink) /\ n \notin ShownIds
    BY <1>1, <1>4 DEF AllWereMade
  <1>6. ~On("user", n)
    BY <1>1, <1>4 DEF AllWereMade, On
  <1>7. \A i, j \in DOMAIN uplink' : uplink'[i] = uplink'[j] => i = j
    BY <1>1 DEF QueriesAreApart
  <1> QED
    BY <1>1, <1>3, <1>4, <1>5, <1>6, <1>7, HandleQueryKeeps

(* The invariant holds at first, and every step keeps it.                  *)
LEMMA ViewInvStarts == ViewInit => ViewInv
  <1> SUFFICES ASSUME ViewInit PROVE ViewInv
    OBVIOUS
  <1>0. /\ log = [i \in DOMAIN says |-> i] /\ fetchable = Len(log)
        /\ phase = "idle" /\ called = <<>> /\ results = {}
        /\ wire = <<>> /\ uplink = <<>> /\ connected = TRUE /\ fetch = [f \in Fetches |-> NoFetch]
        /\ viewing = FALSE /\ view = <<>> /\ loading = FALSE /\ losses = 0 /\ apart = {}
    BY DEF ViewInit
  <1>1. /\ says \in Seq(Writings \cup {"call"}) /\ Len(says) \in 0 .. 1 /\ DOMAIN says = 1 .. Len(says)
        /\ \A n \in DOMAIN says : says[n] \in Writings
    <2>1. CASE says = <<>>
      BY <2>1
    <2>2. CASE \E t \in Writings : says = <<t>>
      BY <2>2
    <2> QED
      BY <2>1, <2>2 DEF ViewInit
  <1>2. /\ DOMAIN called = {} /\ DOMAIN wire = {} /\ DOMAIN uplink = {} /\ DOMAIN view = {}
        /\ called \in Seq(Shown) /\ wire \in Seq(WireEvents) /\ uplink \in Seq(Shown)
        /\ view \in Seq([n : Shown, done : BOOLEAN])
    BY <1>0
  <1>3. /\ log \in Seq(Shown) /\ Len(log) = Len(says) /\ DOMAIN log = DOMAIN says
        /\ \A i \in DOMAIN log : log[i] = i
        /\ fetchable \in 0 .. Len(log)
    BY <1>0, <1>1, ViewAssumption DEF Shown
  <1>4. /\ Members(called) = {} /\ Members(wire) = {} /\ Members(uplink) = {} /\ ShownIds = {}
        /\ Members(log) \subseteq Made /\ Announced = {} /\ Pending = {} /\ \A ty, n : ~On(ty, n)
    <2>1. /\ Members(called) = {} /\ Members(wire) = {} /\ Members(uplink) = {} /\ ShownIds = {}
      BY <1>2 DEF Members, ShownIds
    <2>2. Members(log) \subseteq Made
      BY <1>3 DEF Members, Made
    <2>3. \A ty, n : ~On(ty, n)
      BY <1>2 DEF On
    <2> QED
      BY <2>1, <2>2, <2>3 DEF Announced, Pending
  <1>5. /\ ~Fetching /\ \A f \in Fetches : fetch[f] = [at |-> "none", upto |-> 0]
        /\ fetch \in [Fetches -> [at : {"none", "asked", "failed", "found"}, upto : 0 .. Len(log)]]
    <2>1. 0 \in 0 .. Len(log)
      BY <1>1, <1>3
    <2> QED
      BY <2>1, <1>0 DEF NoFetch, Fetching
  <1>t. ViewTypeOK
    <2>1. Len(says) <= MaxShown /\ losses \in 0 .. MaxLosses
      BY <1>0, <1>1, ViewAssumption
    <2>2. phase \in {"idle", "running", "closing"} /\ results \subseteq Shown /\ apart \subseteq Shown
      BY <1>0
    <2>3. {connected, viewing, loading} \subseteq BOOLEAN
      BY <1>0
    <2> QED
      BY <2>1, <2>2, <2>3, <1>1, <1>2, <1>3, <1>5 DEF ViewTypeOK
  <1>a. AllWereMade
    BY <1>0, <1>2, <1>4 DEF AllWereMade
  <1>b. KindsAgree
    BY <1>0, <1>2, <1>4 DEF KindsAgree
  <1>c. QueriesAreApart
    BY <1>2, <1>3, <1>4 DEF QueriesAreApart
  <1>d. CallsRise
    <2>1. \A i \in DOMAIN log : says[log[i]] # "call"
      BY <1>1, <1>3, ViewAssumption
    <2> QED
      BY <2>1, <1>2 DEF CallsRise, IsCall
  <1>e. FetchKnowsTheRest
    BY <1>3, <1>5 DEF FetchKnowsTheRest
  <1>f. FetchWouldKnow
    <2>1. \A i \in DOMAIN log : ~(i > fetchable)
      <3>1. fetchable = Len(log)
        BY <1>0
      <3>2. DOMAIN log = 1 .. Len(says)
        BY <1>1, <1>3
      <3>3. Len(says) \in Nat
        BY <1>1
      <3>4. Len(log) = Len(says)
        BY <1>3
      <3> QED
        BY <3>1, <3>2, <3>3, <3>4
    <2> QED
      BY <2>1, <1>4 DEF FetchWouldKnow
  <1>g. TabFollows
    BY <1>0 DEF TabFollows
  <1>h. ShownAreUnique
    BY <1>2 DEF ShownAreUnique
  <1>i. EchoWillBeKnown
    BY <1>4 DEF EchoWillBeKnown
  <1>j. CallsAreNews
    BY <1>2, <1>4 DEF CallsAreNews
  <1>k. ResultsFollow
    BY <1>0, <1>2 DEF ResultsFollow
  <1>l. SpinnerWaits
    BY <1>0, <1>2 DEF SpinnerWaits
  <1> QED
    BY <1>t, <1>a, <1>b, <1>c, <1>d, <1>e, <1>f, <1>g, <1>h, <1>i, <1>j, <1>k, <1>l DEF ViewInv

LEMMA ViewInvKeeps == ViewInv /\ [ViewNext]_chatVars => ViewInv'
  <1> SUFFICES ASSUME ViewInv, [ViewNext]_chatVars PROVE ViewInv'
    OBVIOUS
  <1>1. CASE UNCHANGED chatVars
    <2>2. /\ says' = says /\ log' = log /\ fetchable' = fetchable /\ phase' = phase /\ called' = called
          /\ results' = results /\ wire' = wire /\ uplink' = uplink /\ connected' = connected
          /\ fetch' = fetch /\ viewing' = viewing /\ view' = view /\ loading' = loading
          /\ losses' = losses /\ apart' = apart
      BY <1>1 DEF chatVars
    <2>1. ViewTypeOK /\ FetchKnowsTheRest /\ FetchWouldKnow /\ TabFollows /\ SpinnerWaits
      BY DEF ViewInv
    <2>3. /\ ShownIds' = ShownIds /\ Announced' = Announced /\ Fetching' = Fetching
          /\ \A ty, m : On(ty, m)' <=> On(ty, m)
          /\ \A m : (IsCall(m)' <=> IsCall(m))
      BY <2>2, SameSight DEF Fetching
    <2>6. ViewTypeOK'
      BY <2>1, <2>2 DEF ViewTypeOK
    <2>7. FetchKnowsTheRest'
      BY <2>1, <2>2, <2>3 DEF FetchKnowsTheRest, Members
    <2>8. FetchWouldKnow'
      BY <2>1, <2>2, <2>3 DEF FetchWouldKnow, Members
    <2>9. TabFollows'
      BY <2>1, <2>2, <2>3 DEF TabFollows, Members
    <2>10. SpinnerWaits'
      BY <2>1, <2>2, <2>3 DEF SpinnerWaits, Members
    <2>4. apart' \subseteq Made
      BY <2>2 DEF ViewInv, AllWereMade
    <2>5. /\ AllWereMade' /\ KindsAgree' /\ QueriesAreApart' /\ CallsRise'
          /\ ShownAreUnique' /\ EchoWillBeKnown' /\ CallsAreNews' /\ ResultsFollow'
      BY <2>2, <2>4, QuietKeeps
    <2> QED
      BY <2>5, <2>6, <2>7, <2>8, <2>9, <2>10 DEF ViewInv
  <1>2. CASE ViewStep
    BY <1>2, ReceiveQueryKeeps, SentElsewhereKeeps, CallToolKeeps, ToolAnswersKeeps, StepEndsKeeps,
       ServerStepsKeep, RunCompletesKeeps, LoadSessionKeeps, FetchAnsweredKeeps, InstallFetchKeeps,
       SendMessageKeeps, SendInterruptKeeps, HearKeeps, SocketBreaksKeeps
       DEF ViewStep
  <1> QED
    BY <1>1, <1>2 DEF ViewNext

(* At rest nothing is on its way, so what the tab has is what there is.    *)
LEMMA ViewInvIsWhole == ViewInv => ViewIsWhole
  <1> SUFFICES ASSUME ViewInv, SessionAtRest, view # <<>>
               PROVE  /\ \A n \in Members(log) \ apart : ShownOnce(n) \/ HasTwin(n)
                      /\ \A i, j \in DOMAIN view :
                            i < j /\ {view[i].n, view[j].n} \subseteq { n \in DOMAIN says \ apart : IsCall(n) }
                            => view[i].n < view[j].n
                      /\ loading => losses > 0 \/ \E n \in ShownIds : ~IsCall(n) /\ n \notin Members(log)
    BY DEF ViewIsWhole
  <1>1. TabFollows /\ ShownAreUnique /\ CallsAreNews /\ ResultsFollow /\ SpinnerWaits
    BY DEF ViewInv
  <1>2. phase = "idle" /\ ~Fetching /\ \A ty, n : ~On(ty, n)
    BY DEF SessionAtRest, On
  <1>3. \A n : n \notin Announced
    BY <1>2, AnnouncedIs
  <1>4. \A n \in Members(log) \ apart : ShownOnce(n) \/ HasTwin(n)
    <2> TAKE n \in Members(log) \ apart
    <2>1. CASE n \in ShownIds
      <3>1. PICK i \in DOMAIN view : view[i].n = n
        BY <2>1 DEF ShownIds
      <3>2. Places(n) = {i}
        BY <3>1, <1>1 DEF Places, ShownAreUnique
      <3>3. n \in results => view[i].done
        BY <3>2, <1>1, <1>2 DEF ResultsFollow
      <3> QED
        BY <3>2, <3>3 DEF ShownOnce
    <2>2. CASE n \notin ShownIds
      <3>1. ~IsCall(n) /\ \E k \in ShownIds : k # n /\ says[k] = says[n]
        BY <2>2, <1>1, <1>2, <1>3 DEF TabFollows
      <3>2. Places(n) = {}
        BY <2>2 DEF Places, ShownIds
      <3> QED
        BY <3>1, <3>2 DEF HasTwin
    <2> QED
      BY <2>1, <2>2
  <1>5. \A i, j \in DOMAIN view :
           i < j /\ {view[i].n, view[j].n} \subseteq { n \in DOMAIN says \ apart : IsCall(n) }
           => view[i].n < view[j].n
    BY <1>1 DEF CallsAreNews
  <1>6. loading => losses > 0 \/ \E n \in ShownIds : ~IsCall(n) /\ n \notin Members(log)
    BY <1>1, <1>2 DEF SpinnerWaits
  <1> QED
    BY <1>4, <1>5, <1>6

(* A tab's lists stay lists of messages and events (web-ui, stores/chat.ts *)
(* and api/websocket.ts).                                                  *)
THEOREM ViewTypesHold == ViewSpec => []ViewTypeOK
  <1>1. ViewInv => ViewTypeOK
    BY DEF ViewInv
  <1> QED
    BY <1>1, ViewInvStarts, ViewInvKeeps, PTL DEF ViewSpec

(* At rest a tab shows each message of its session once, in order and with *)
(* its results, or one of a user that reads the same; but for the messages *)
(* that history names apart, and however many messages, fetches and losses *)
(* there are (chat.ts: the handlers, loadSession and sendMessage).         *)
THEOREM TheViewIsWhole == ViewSpec => []ViewIsWhole
  BY ViewInvStarts, ViewInvKeeps, ViewInvIsWhole, PTL DEF ViewSpec
=============================================================================
