-------------------------- MODULE BuildClientProofs --------------------------
(***************************************************************************)
(* Proofs about BuildClient, for one process at a time over a journal with *)
(* room for every command: types, that the journal and the bridge agree,   *)
(* and that no request becomes a second job.                               *)
(***************************************************************************)
EXTENDS BuildClient, SequenceTheorems, WellFoundedInduction, TLAPS

\* One client process over the journal file, which never has to drop an entry.
OneProcess == \A p, q \in Processes : p = q
RoomForAll == MaxCommands <= MaxEntries

-----------------------------------------------------------------------------
(* The inductive invariant.                                                *)

Entries == [what : Requests, id : Ids, status : States \cup {"pending"}]
Places == {"append", "submit", "update", "wait", "conclude"}
Commands == [at : Places, what : Requests, id : Ids,
             read : {None} \cup Seq(Entries), answer : {None} \cup States]

Typed ==
  /\ journal \in Seq(Entries)
  /\ ledger \in [Ids -> {None} \cup Jobs]
  /\ command \in [Processes -> {None} \cup Commands]
  /\ commands \in 0 .. MaxCommands

\* Every entry was written by a command of its own.
HasRoom ==
  /\ Len(journal) <= commands
  /\ \A p \in Processes : At(p, "append") => Len(journal) < commands

\* The newest entry of a request is the one at k.
IsNewest(entries, what, k) ==
  k \in Exact(entries, what) /\ \A j \in Exact(entries, what) : j <= k

\* Entries under one id are for one request, the one the bridge knows it by; and
\* what an entry calls settled is.
EntriesAreTrue ==
  /\ \A j, k \in DOMAIN journal : journal[j].id = journal[k].id => journal[j].what = journal[k].what
  /\ \A k \in DOMAIN journal :
       LET job == ledger[journal[k].id]
       IN  /\ job # None => job.what = journal[k].what
           /\ journal[k].status \in Settled => job # None /\ job.state = journal[k].status

\* Every job has an entry; one that is not settled has the newest of its request.
JobsAreKnown ==
  \A id \in Ids : ledger[id] # None =>
    /\ \E k \in DOMAIN journal : journal[k].id = id
    /\ ledger[id].state \notin Settled =>
         \E k \in DOMAIN journal : IsNewest(journal, ledger[id].what, k) /\ journal[k].id = id

\* What a command carries: the journal as it is, an id that is its own request's, and
\* until it has submitted the only id under which that request may be unsettled.
Carries(c) ==
  /\ c.read # None => c.read = journal
  /\ \A k \in DOMAIN journal : journal[k].id = c.id => journal[k].what = c.what
  /\ ledger[c.id] # None => ledger[c.id].what = c.what
  /\ c.at \in {"append", "submit"} =>
       \A id \in Ids : ledger[id] # None /\ ledger[id].what = c.what
                         /\ ledger[id].state \notin Settled => id = c.id
  /\ c.at = "submit" => \E k \in DOMAIN journal : IsNewest(journal, c.what, k) /\ journal[k].id = c.id
  /\ c.at \in {"update", "wait", "conclude"} => ledger[c.id] # None
  /\ c.at \in {"update", "conclude"} =>
       /\ c.answer \in States
       /\ c.answer \in Settled => ledger[c.id].state = c.answer

CommandsAreRight == \A p \in Processes : command[p] # None => Carries(command[p])

IInv == Typed /\ HasRoom /\ EntriesAreTrue /\ JobsAreKnown /\ CommandsAreRight

-----------------------------------------------------------------------------
(* Positions and entries.                                                  *)

\* A set of naturals that is not empty has a least element.
LEMMA LeastNat ==
  ASSUME NEW T \in SUBSET Nat, T # {}
  PROVE  \E m \in T : \A k \in T : m <= k
<1>1. \E m \in T : \A k \in T : ~ (<<k, m>> \in OpToRel(<, Nat))
  BY NatLessThanWellFounded, WFMin
<1>2. PICK m \in T : \A k \in T : ~ (<<k, m>> \in OpToRel(<, Nat))
  BY <1>1
<1>3. ASSUME NEW k \in T
      PROVE  m <= k
  <2>1. m \in Nat /\ k \in Nat
    OBVIOUS
  <2>2. k < m => <<k, m>> \in OpToRel(<, Nat)
    BY <2>1 DEF OpToRel
  <2>3. ~ (k < m)
    BY <1>2, <2>2
  <2> QED
    BY <2>1, <2>3
<1> QED
  BY <1>2, <1>3

\* A set of positions that is not empty has a last one: the least of its bounds.
LEMMA HasLast ==
  ASSUME NEW n \in Nat, NEW S \in SUBSET (1 .. n), S # {}
  PROVE  \E k \in S : \A j \in S : j <= k
<1> DEFINE T == {m \in Nat : \A j \in S : j <= m}
<1>1. n \in T
  OBVIOUS
<1>2. PICK m \in T : \A k \in T : m <= k
  <2>1. T \in SUBSET Nat /\ T # {}
    BY <1>1
  <2> HIDE DEF T
  <2> QED
    BY <2>1, LeastNat
<1>3. m \in Nat /\ \A j \in S : j <= m
  BY <1>2
<1>4. CASE m \in S
  BY <1>3, <1>4
<1>5. CASE m \notin S
  <2>1. \A j \in S : j \in 1 .. n /\ j <= m - 1
    BY <1>3, <1>5
  <2>2. PICK s \in S : TRUE
    OBVIOUS
  <2>3. m - 1 \in Nat
    BY <1>3, <2>1, <2>2
  <2>4. m - 1 \in T
    BY <2>1, <2>3
  <2>5. m <= m - 1
    BY <1>2, <2>4
  <2> QED
    BY <1>3, <2>5
<1> QED
  BY <1>4, <1>5

\* Newest is the last of a set of positions.
LEMMA NewestIsLast ==
  ASSUME NEW n \in Nat, NEW S \in SUBSET (1 .. n), S # {}
  PROVE  Newest(S) \in S /\ \A k \in S : k <= Newest(S)
  BY HasLast DEF Newest

\* A journal with room loses no entry.
LEMMA BoundedKeepsAll ==
  ASSUME NEW entries \in Seq(Entries), Len(entries) <= MaxEntries
  PROVE  Bounded(entries) = entries
<1>1. Len(entries) \in Nat
  OBVIOUS
<1>2. ~ (Len(entries) > MaxEntries)
  BY <1>1, ClientAssumption
<1>3. Bounded(entries) = SubSeq(entries, 1, Len(entries))
  BY <1>2 DEF Bounded
<1>4. \A i \in 1 .. Len(entries) : entries[i] \in Entries
  OBVIOUS
<1> QED
  BY <1>1, <1>3, <1>4, SubSeqProperties

\* The file is a sequence of entries, numbered from 1.
LEMMA EntryTypes ==
  ASSUME Typed
  PROVE  /\ Len(journal) \in Nat /\ DOMAIN journal = 1 .. Len(journal)
         /\ \A k \in DOMAIN journal : journal[k] \in Entries
  BY LenProperties, ElementOfSeq DEF Typed

-----------------------------------------------------------------------------
(* What a step of the bridge keeps.                                        *)

\* The jobs may go on, but each stays the job it is and a settled one stays as it is.
JobsGoOn ==
  /\ ledger' \in [Ids -> {None} \cup Jobs]
  /\ \A id \in Ids :
       /\ ledger'[id] # None <=> ledger[id] # None
       /\ ledger[id] # None => /\ ledger'[id].what = ledger[id].what
                               /\ ledger[id].state \in Settled => ledger'[id].state = ledger[id].state

\* What the journal and a command say of the jobs stays true while they go on.
LEMMA JobsGoingOnKeep ==
  ASSUME IInv, JobsGoOn, UNCHANGED <<journal, command, commands>>
  PROVE  IInv'
<1>1. Typed'
  BY DEF IInv, Typed, JobsGoOn
<1>2. HasRoom'
  BY DEF IInv, HasRoom, At, Free
<1>3. \A k \in DOMAIN journal : journal[k].id \in Ids
  BY EntryTypes DEF IInv, Entries
<1>4. EntriesAreTrue'
  BY <1>3 DEF IInv, EntriesAreTrue, JobsGoOn
<1>5. JobsAreKnown'
  <2> SUFFICES ASSUME NEW id \in Ids, ledger'[id] # None
               PROVE  /\ \E k \in DOMAIN journal : journal[k].id = id
                      /\ ledger'[id].state \notin Settled =>
                           \E k \in DOMAIN journal :
                             IsNewest(journal, ledger'[id].what, k) /\ journal[k].id = id
    BY DEF JobsAreKnown, IsNewest, Exact
  <2>1. /\ ledger[id] # None /\ ledger'[id].what = ledger[id].what
        /\ ledger'[id].state \notin Settled => ledger[id].state \notin Settled
    BY DEF JobsGoOn
  <2> QED
    BY <2>1 DEF IInv, JobsAreKnown
<1>6. CommandsAreRight'
  <2> SUFFICES ASSUME NEW p \in Processes, command[p] # None
               PROVE  Carries(command[p])'
    BY DEF CommandsAreRight
  <2>1. Carries(command[p]) /\ command[p].id \in Ids
    BY DEF IInv, CommandsAreRight, Typed, Commands
  <2>2. \A id \in Ids : ledger'[id] # None /\ ledger'[id].state \notin Settled =>
                          /\ ledger[id] # None /\ ledger'[id].what = ledger[id].what
                          /\ ledger[id].state \notin Settled
    BY DEF JobsGoOn
  <2> QED
    BY <2>1, <2>2 DEF Carries, JobsGoOn, IsNewest, Exact
<1> QED
  BY <1>1, <1>2, <1>4, <1>5, <1>6 DEF IInv

\* One build goes on.
LEMMA BridgeStepKeeps ==
  ASSUME IInv, NEW id \in Ids, NEW from, from \cap Settled = {}, NEW to \in States,
         BridgeStep(id, from, to)
  PROVE  IInv'
<1>1. ledger[id] \in Jobs /\ ledger[id].state \notin Settled
  BY DEF IInv, Typed, BridgeStep
<1>2. [ledger[id] EXCEPT !.state = to] \in Jobs /\ [ledger[id] EXCEPT !.state = to].what = ledger[id].what
  BY <1>1 DEF Jobs
<1>3. ledger' = [ledger EXCEPT ![id] = [ledger[id] EXCEPT !.state = to]]
  BY DEF BridgeStep
<1>4. JobsGoOn
  BY <1>1, <1>2, <1>3, NoJobAssumption DEF IInv, Typed, JobsGoOn
<1> QED
  BY <1>4, JobsGoingOnKeep DEF BridgeStep

\* The bridge restarts: what was open is settled as recovery settles it.
LEMMA BridgeRestartsKeeps ==
  ASSUME IInv, BridgeRestarts
  PROVE  IInv'
<1>1. ASSUME NEW job \in Jobs
      PROVE  /\ Recovered(job) \in Jobs /\ Recovered(job).what = job.what
             /\ job.state \in Settled => Recovered(job).state = job.state
  BY NoJobAssumption DEF Recovered, Jobs, States, Settled, Ended, Held
<1>2. \A id \in Ids : ledger'[id] = Recovered(ledger[id])
  BY DEF BridgeRestarts
<1>3. ASSUME NEW id \in Ids
      PROVE  /\ ledger'[id] \in {None} \cup Jobs
             /\ ledger'[id] # None <=> ledger[id] # None
             /\ ledger[id] # None =>
                  /\ ledger'[id].what = ledger[id].what
                  /\ ledger[id].state \in Settled => ledger'[id].state = ledger[id].state
  <2>1. CASE ledger[id] = None
    BY <1>2, <2>1 DEF Recovered
  <2>2. CASE ledger[id] # None
    <3>1. ledger[id] \in Jobs
      BY <2>2 DEF IInv, Typed
    <3> QED
      BY <1>1, <1>2, <2>2, <3>1, NoJobAssumption
  <2> QED
    BY <2>1, <2>2
<1>4. JobsGoOn
  BY <1>3 DEF JobsGoOn, BridgeRestarts
<1> QED
  BY <1>4, JobsGoingOnKeep DEF BridgeRestarts

\* Every step of the bridge.
LEMMA BridgeKeeps ==
  ASSUME IInv, Bridge
  PROVE  IInv'
<1>1. CASE BridgeRestarts
  BY <1>1, BridgeRestartsKeeps
<1>2. ASSUME NEW id \in Ids, BuildStarts(id)
      PROVE  IInv'
  BY <1>2, BridgeStepKeeps DEF BuildStarts, Settled, States, Held
<1>3. ASSUME NEW id \in Ids, BuildEnds(id)
      PROVE  IInv'
  BY <1>3, BridgeStepKeeps DEF BuildEnds, Settled, States, Ended
<1>4. ASSUME NEW id \in Ids, BuildCancelled(id)
      PROVE  IInv'
  BY <1>4, BridgeStepKeeps DEF BuildCancelled, Settled, States, Ended
<1>5. ASSUME NEW id \in Ids, BuildLost(id)
      PROVE  IInv'
  BY <1>5, BridgeStepKeeps DEF BuildLost, Settled, States, Ended
<1>6. ASSUME NEW id \in Ids, BuildReconciled(id)
      PROVE  IInv'
  BY <1>6, BridgeStepKeeps DEF BuildReconciled, Settled, States, Ended
<1> QED
  BY <1>1, <1>2, <1>3, <1>4, <1>5, <1>6 DEF Bridge

-----------------------------------------------------------------------------
(* The steps of the one command.                                           *)

\* The only process is the one that steps: what holds of it holds of every command.
LEMMA OneCommand ==
  ASSUME OneProcess, NEW p \in Processes, command'[p] # None => Carries(command[p])'
  PROVE  CommandsAreRight'
<1>1. \A q \in Processes : q = p
  BY DEF OneProcess
<1> QED
  BY <1>1 DEF CommandsAreRight

\* What is known of the command that runs.
LEMMA RunningCommand ==
  ASSUME IInv, NEW p \in Processes, ~ Free(p)
  PROVE  /\ command[p] \in Commands /\ Carries(command[p])
         /\ command[p].id \in Ids /\ command[p].what \in Requests
         /\ command \in [Processes -> {None} \cup Commands]
  BY DEF IInv, Typed, CommandsAreRight, Free, Commands

\* A command that leaves takes nothing with it.
LEMMA LeavingKeeps ==
  ASSUME OneProcess, IInv, NEW p \in Processes, Leave(p), UNCHANGED <<journal, ledger, commands>>
  PROVE  IInv'
<1>1. command' \in [Processes -> {None} \cup Commands] /\ command'[p] = None
  BY DEF IInv, Typed, Leave
<1>2. Typed'
  BY <1>1 DEF IInv, Typed
<1>3. \A q \in Processes : command'[q] = None
  BY <1>1 DEF OneProcess
<1>4. HasRoom'
  BY <1>3 DEF IInv, HasRoom, At, Free
<1>5. CommandsAreRight'
  BY <1>3 DEF CommandsAreRight
<1>6. EntriesAreTrue' /\ JobsAreKnown'
  BY DEF IInv, EntriesAreTrue, JobsAreKnown, IsNewest, Exact
<1> QED
  BY <1>2, <1>4, <1>5, <1>6 DEF IInv

\* The id a command begins with is its request's own, and the only one under which
\* that request may be unsettled.
LEMMA RequestIdIsRight ==
  ASSUME IInv, NEW what \in Requests, NEW id \in RequestId(journal, what)
  PROVE  /\ id \in Ids
         /\ \A k \in DOMAIN journal : journal[k].id = id => journal[k].what = what
         /\ ledger[id] # None => ledger[id].what = what
         /\ \A other \in Ids : ledger[other] # None /\ ledger[other].what = what
                               /\ ledger[other].state \notin Settled => other = id
<1> DEFINE found == Exact(journal, what)
           newest == journal[Newest(found)]
<1>1. /\ Len(journal) \in Nat /\ DOMAIN journal = 1 .. Len(journal)
      /\ \A k \in DOMAIN journal : journal[k] \in Entries
  BY EntryTypes DEF IInv
<1>2. found \in SUBSET (1 .. Len(journal))
  BY <1>1 DEF Exact
<1>3. found # {} => Newest(found) \in found /\ \A k \in found : k <= Newest(found)
  <2> HIDE DEF found
  <2> QED
    BY <1>1, <1>2, NewestIsLast
<1>4. ASSUME NEW other \in Ids, ledger[other] # None, ledger[other].what = what,
             ledger[other].state \notin Settled
      PROVE  found # {} /\ newest.id = other /\ newest.status \in Unfinished
  <2>1. PICK k \in DOMAIN journal : IsNewest(journal, what, k) /\ journal[k].id = other
    BY <1>4 DEF IInv, JobsAreKnown
  <2>2. k \in found /\ \A j \in found : j <= k
    BY <2>1 DEF IsNewest
  <2>3. k \in Nat /\ Newest(found) \in Nat /\ k <= Newest(found) /\ Newest(found) <= k
    BY <1>1, <1>2, <1>3, <2>2
  <2>4. Newest(found) = k
    BY <2>3
  <2>5. journal[k].status \notin Settled
    BY <1>4, <2>1 DEF IInv, EntriesAreTrue
  <2>6. journal[k].status \in States \cup {"pending"}
    BY <1>1 DEF Entries
  <2> QED
    BY <2>1, <2>2, <2>4, <2>5, <2>6 DEF Unfinished, States, Ended, Held
<1>5. CASE found # {} /\ newest.status \in Unfinished
  <2>1. id = newest.id
    BY <1>5 DEF RequestId
  <2>2. Newest(found) \in DOMAIN journal /\ newest.what = what /\ newest.id \in Ids
    BY <1>1, <1>3, <1>5 DEF Exact, Entries
  <2> HIDE DEF found, newest
  <2>3. \A k \in DOMAIN journal : journal[k].id = id => journal[k].what = what
    BY <2>1, <2>2 DEF IInv, EntriesAreTrue, newest
  <2>4. ledger[id] # None => ledger[id].what = what
    BY <2>1, <2>2 DEF IInv, EntriesAreTrue, newest
  <2> QED
    BY <1>4, <2>1, <2>2, <2>3, <2>4
<1>6. CASE ~ (found # {} /\ newest.status \in Unfinished)
  <2>1. id \in Ids \ UsedIds
    BY <1>6 DEF RequestId
  <2>2. ledger[id] = None /\ \A k \in DOMAIN journal : journal[k].id # id
    BY <2>1 DEF UsedIds
  <2> QED
    BY <1>4, <1>6, <2>1, <2>2
<1> QED
  BY <1>5, <1>6

\* A command begins.
LEMMA BeginKeeps ==
  ASSUME OneProcess, IInv, NEW p \in Processes, NEW what \in Requests, Begin(p, what)
  PROVE  IInv'
<1>1. PICK id \in RequestId(journal, what) :
        GoTo(p, [at |-> "append", what |-> what, id |-> id, read |-> None, answer |-> None])
  BY DEF Begin
<1> DEFINE c == [at |-> "append", what |-> what, id |-> id, read |-> None, answer |-> None]
<1>2. /\ id \in Ids
      /\ \A k \in DOMAIN journal : journal[k].id = id => journal[k].what = what
      /\ ledger[id] # None => ledger[id].what = what
      /\ \A other \in Ids : ledger[other] # None /\ ledger[other].what = what
                            /\ ledger[other].state \notin Settled => other = id
  BY <1>1, RequestIdIsRight
<1>3. c \in Commands
  BY <1>2 DEF Commands, Places
<1>4. command' \in [Processes -> {None} \cup Commands] /\ command'[p] = c
  BY <1>1, <1>3 DEF IInv, Typed, GoTo
<1>5. commands' \in 0 .. MaxCommands /\ commands' = commands + 1 /\ commands \in Nat
  BY ClientAssumption DEF IInv, Typed, Begin
<1>6. Typed'
  BY <1>4, <1>5 DEF IInv, Typed, Begin
<1>7. HasRoom'
  <2>1. Len(journal) \in Nat /\ Len(journal) <= commands /\ journal' = journal
    BY EntryTypes DEF IInv, HasRoom, Begin
  <2> QED
    BY <1>5, <2>1 DEF HasRoom
<1>8. EntriesAreTrue' /\ JobsAreKnown'
  BY DEF IInv, EntriesAreTrue, JobsAreKnown, IsNewest, Exact, Begin
<1>9. Carries(command[p])'
  BY <1>2, <1>4 DEF Carries, Begin
<1> QED
  BY <1>6, <1>7, <1>8, <1>9, OneCommand DEF IInv

\* The file is read.
LEMMA ReadJournalKeeps ==
  ASSUME OneProcess, IInv, NEW p \in Processes, ReadJournal(p)
  PROVE  IInv'
<1>1. /\ command[p] \in Commands /\ Carries(command[p])
      /\ command \in [Processes -> {None} \cup Commands]
  BY RunningCommand DEF ReadJournal, At
<1> DEFINE c == [command[p] EXCEPT !.read = journal]
<1>2. c \in Commands /\ c.at = command[p].at /\ c.what = command[p].what /\ c.id = command[p].id
      /\ c.read = journal /\ c.answer = command[p].answer
  BY <1>1 DEF Commands, IInv, Typed
<1> HIDE DEF c
<1>3. command' \in [Processes -> {None} \cup Commands] /\ command'[p] = c
  BY <1>1, <1>2 DEF GoTo, ReadJournal, c
<1>4. Typed'
  BY <1>3 DEF IInv, Typed, ReadJournal
<1>5. HasRoom'
  <2>1. \A q \in Processes : At(q, "append")' => At(p, "append") /\ q = p
    BY <1>2, <1>3 DEF OneProcess, At, Free, ReadJournal
  <2> QED
    BY <2>1 DEF IInv, HasRoom, ReadJournal
<1>6. EntriesAreTrue' /\ JobsAreKnown'
  BY DEF IInv, EntriesAreTrue, JobsAreKnown, IsNewest, Exact, ReadJournal
<1>7. Carries(command[p])'
  BY <1>1, <1>2, <1>3 DEF Carries, IsNewest, Exact, ReadJournal
<1> QED
  BY <1>4, <1>5, <1>6, <1>7, OneCommand DEF IInv

\* The new file, with the intent as its newest entry.
LEMMA WriteIntentKeeps ==
  ASSUME OneProcess, RoomForAll, IInv, NEW p \in Processes, WriteIntent(p)
  PROVE  IInv'
<1>1. /\ command[p] \in Commands /\ Carries(command[p])
      /\ command[p].id \in Ids /\ command[p].what \in Requests
      /\ command \in [Processes -> {None} \cup Commands]
  BY RunningCommand DEF WriteIntent, At
<1>2. /\ Len(journal) \in Nat /\ DOMAIN journal = 1 .. Len(journal)
      /\ \A k \in DOMAIN journal : journal[k] \in Entries
  BY EntryTypes DEF IInv
<1> DEFINE c == [command[p] EXCEPT !.at = "submit", !.read = None]
           e == Entry(command[p].what, command[p].id, "pending")
           n == Len(journal)
<1>3. c \in Commands /\ c.at = "submit" /\ c.what = command[p].what /\ c.id = command[p].id
      /\ c.read = None
  BY <1>1 DEF Commands, Places
<1>4. e \in Entries /\ e.what = c.what /\ e.id = c.id /\ e.status = "pending"
  BY <1>1, <1>3 DEF Entries, Entry
<1>5. n < commands /\ commands \in Nat /\ commands <= MaxCommands
  BY ClientAssumption DEF IInv, Typed, HasRoom, WriteIntent
<1>6. journal' = Append(journal, e)
  <2>1. journal' = Appended(journal, command[p])
    BY <1>1 DEF WriteIntent, Carries
  <2>2. Append(journal, e) \in Seq(Entries) /\ Len(Append(journal, e)) = n + 1
    BY <1>4, AppendProperties DEF IInv, Typed
  <2>3. n + 1 <= MaxEntries
    BY <1>2, <1>5, ClientAssumption DEF RoomForAll
  <2>4. Bounded(Append(journal, e)) = Append(journal, e)
    BY <2>2, <2>3, BoundedKeepsAll
  <2> QED
    BY <2>1, <2>4 DEF Appended
<1> HIDE DEF c, e
<1>7. /\ journal' \in Seq(Entries) /\ Len(journal') = n + 1 /\ DOMAIN journal' = 1 .. n + 1
      /\ \A k \in 1 .. n : journal'[k] = journal[k]
      /\ journal'[n + 1] = e
  BY <1>4, <1>6, AppendProperties, LenProperties DEF IInv, Typed
<1>8. command' \in [Processes -> {None} \cup Commands] /\ command'[p] = c /\ UNCHANGED <<ledger, commands>>
  BY <1>1, <1>3 DEF GoTo, WriteIntent, c
<1>9. Typed'
  BY <1>7, <1>8 DEF IInv, Typed
<1>10. HasRoom'
  <2>1. \A q \in Processes : ~ At(q, "append")'
    BY <1>3, <1>8 DEF OneProcess, At, Free
  <2> QED
    BY <2>1, <1>2, <1>5, <1>7, <1>8 DEF HasRoom
<1> HIDE DEF n
<1>11. n \in Nat /\ 1 .. n = DOMAIN journal
  BY <1>2 DEF n
<1>12. \A k \in DOMAIN journal' : k \in DOMAIN journal \/ k = n + 1
  BY <1>7, <1>11
<1>13. DOMAIN journal \subseteq DOMAIN journal' /\ n + 1 \in DOMAIN journal'
       /\ \A k \in DOMAIN journal' : k <= n + 1
  BY <1>7, <1>11
<1>14. EntriesAreTrue'
  <2>1. ASSUME NEW j \in DOMAIN journal', NEW k \in DOMAIN journal', journal'[j].id = journal'[k].id
        PROVE  journal'[j].what = journal'[k].what
    BY <2>1, <1>1, <1>3, <1>4, <1>7, <1>11, <1>12 DEF IInv, EntriesAreTrue, Carries
  <2>2. ASSUME NEW k \in DOMAIN journal'
        PROVE  LET job == ledger'[journal'[k].id]
               IN  /\ job # None => job.what = journal'[k].what
                   /\ journal'[k].status \in Settled => job # None /\ job.state = journal'[k].status
    <3>1. CASE k \in DOMAIN journal
      BY <3>1, <1>7, <1>8, <1>11 DEF IInv, EntriesAreTrue
    <3>2. CASE k = n + 1
      BY <3>2, <1>1, <1>3, <1>4, <1>7, <1>8 DEF Carries, Settled
    <3> QED
      BY <3>1, <3>2, <1>12
  <2> QED
    BY <2>1, <2>2 DEF EntriesAreTrue
<1>15. IsNewest(journal', c.what, n + 1)
  BY <1>3, <1>4, <1>7, <1>8, <1>13 DEF IsNewest, Exact
<1>16. JobsAreKnown'
  <2> SUFFICES ASSUME NEW id \in Ids, ledger[id] # None
               PROVE  /\ \E k \in DOMAIN journal' : journal'[k].id = id
                      /\ ledger[id].state \notin Settled =>
                           \E k \in DOMAIN journal' :
                             IsNewest(journal', ledger[id].what, k) /\ journal'[k].id = id
    BY <1>8 DEF JobsAreKnown, IsNewest, Exact
  <2>1. \E k \in DOMAIN journal' : journal'[k].id = id
    BY <1>7, <1>11, <1>13 DEF IInv, JobsAreKnown
  <2>2. CASE ledger[id].state \notin Settled /\ ledger[id].what = c.what
    <3>1. id = c.id
      BY <2>2, <1>1, <1>3 DEF Carries, WriteIntent, At
    <3> QED
      BY <2>1, <2>2, <3>1, <1>4, <1>7, <1>8, <1>13, <1>15 DEF IsNewest, Exact
  <2>3. CASE ledger[id].state \notin Settled /\ ledger[id].what # c.what
    <3>1. PICK k \in DOMAIN journal : IsNewest(journal, ledger[id].what, k) /\ journal[k].id = id
      BY <2>3 DEF IInv, JobsAreKnown
    <3>2. IsNewest(journal', ledger[id].what, k)
      BY <2>3, <3>1, <1>4, <1>7, <1>8, <1>11, <1>12, <1>13 DEF IsNewest, Exact
    <3> QED
      BY <2>1, <3>1, <3>2, <1>7, <1>11, <1>13
  <2> QED
    BY <2>1, <2>2, <2>3
<1>17. Carries(command[p])'
  <2>1. \A k \in DOMAIN journal' : journal'[k].id = c.id => journal'[k].what = c.what
    BY <1>1, <1>3, <1>4, <1>7, <1>11, <1>12 DEF Carries
  <2>2. \E k \in DOMAIN journal' : IsNewest(journal', c.what, k) /\ journal'[k].id = c.id
    BY <1>4, <1>7, <1>13, <1>15
  <2>3. \A id \in Ids : ledger[id] # None /\ ledger[id].what = c.what
                         /\ ledger[id].state \notin Settled => id = c.id
    BY <1>1, <1>3 DEF Carries, WriteIntent, At
  <2>4. ledger[c.id] # None => ledger[c.id].what = c.what
    BY <1>1, <1>3 DEF Carries
  <2> QED
    BY <1>3, <1>8, <2>1, <2>2, <2>3, <2>4 DEF Carries, IsNewest, Exact
<1> QED
  BY <1>9, <1>10, <1>14, <1>16, <1>17, OneCommand DEF IInv

\* The bridge admits the build of a command that submits.
LEMMA AdmittedKeeps ==
  ASSUME IInv, NEW p \in Processes, At(p, "submit"), Admissible(command[p].id),
         ledger' = Admitted(command[p]), journal' = journal
  PROVE  /\ ledger' \in [Ids -> {None} \cup Jobs]
         /\ ledger'[command[p].id] = [what |-> command[p].what, state |-> "queued"]
         /\ ledger'[command[p].id] # None
         /\ EntriesAreTrue' /\ JobsAreKnown'
<1>1. /\ command[p] \in Commands /\ Carries(command[p])
      /\ command[p].id \in Ids /\ command[p].what \in Requests
  BY RunningCommand DEF At
<1> DEFINE id == command[p].id
           job == [what |-> command[p].what, state |-> "queued"]
<1>2. job \in Jobs /\ job # None /\ job.what = command[p].what /\ job.state \notin Settled
  BY <1>1, NoJobAssumption DEF Jobs, States, Held, Settled
<1> HIDE DEF job
<1>3. /\ ledger \in [Ids -> {None} \cup Jobs]
      /\ ledger' = [ledger EXCEPT ![id] = job]
      /\ ledger[id] = None
  BY DEF IInv, Typed, Admitted, Admissible, job
<1>4. ledger' \in [Ids -> {None} \cup Jobs] /\ ledger'[id] = job
      /\ \A other \in Ids : other # id => ledger'[other] = ledger[other]
  BY <1>1, <1>2, <1>3
<1>5. \A k \in DOMAIN journal : journal[k].id \in Ids
  BY EntryTypes DEF IInv, Entries
<1> HIDE DEF id
<1>6. EntriesAreTrue'
  <2>1. ASSUME NEW k \in DOMAIN journal
        PROVE  LET j == ledger'[journal[k].id]
               IN  /\ j # None => j.what = journal[k].what
                   /\ journal[k].status \in Settled => j # None /\ j.state = journal[k].status
    <3>1. CASE journal[k].id = id
      BY <3>1, <1>1, <1>2, <1>3, <1>4 DEF IInv, EntriesAreTrue, Carries, id
    <3>2. CASE journal[k].id # id
      BY <3>2, <1>4, <1>5 DEF IInv, EntriesAreTrue
    <3> QED
      BY <3>1, <3>2
  <2> QED
    BY <2>1 DEF IInv, EntriesAreTrue
<1>7. JobsAreKnown'
  <2> SUFFICES ASSUME NEW other \in Ids, ledger'[other] # None
               PROVE  /\ \E k \in DOMAIN journal : journal[k].id = other
                      /\ ledger'[other].state \notin Settled =>
                           \E k \in DOMAIN journal :
                             IsNewest(journal, ledger'[other].what, k) /\ journal[k].id = other
    BY DEF JobsAreKnown, IsNewest, Exact
  <2>1. CASE other = id
    <3>1. \E k \in DOMAIN journal : IsNewest(journal, command[p].what, k) /\ journal[k].id = id
      BY <1>1 DEF Carries, At, id
    <3> QED
      BY <2>1, <3>1, <1>2, <1>4
  <2>2. CASE other # id
    BY <2>2, <1>4 DEF IInv, JobsAreKnown
  <2> QED
    BY <2>1, <2>2
<1> QED
  BY <1>2, <1>4, <1>6, <1>7 DEF id, job

\* The request reaches the bridge.
LEMMA SubmitKeeps ==
  ASSUME OneProcess, IInv, NEW p \in Processes, Submit(p)
  PROVE  IInv'
<1>1. /\ command[p] \in Commands /\ Carries(command[p])
      /\ command[p].id \in Ids /\ command[p].what \in Requests
      /\ command \in [Processes -> {None} \cup Commands] /\ At(p, "submit")
  BY RunningCommand DEF Submit, At
<1>2. UNCHANGED <<journal, commands>>
  BY DEF Submit
<1>3. ASSUME NEW answer \in States, GoTo(p, [command[p] EXCEPT !.at = "update", !.answer = answer]),
             ledger' \in [Ids -> {None} \cup Jobs], EntriesAreTrue', JobsAreKnown',
             ledger'[command[p].id] # None, ledger'[command[p].id].what = command[p].what,
             ledger'[command[p].id].state = answer
      PROVE  IInv'
  <2> DEFINE c == [command[p] EXCEPT !.at = "update", !.answer = answer]
  <2>1. c \in Commands /\ c.at = "update" /\ c.what = command[p].what /\ c.id = command[p].id
        /\ c.read = command[p].read /\ c.answer = answer
    BY <1>1 DEF Commands, Places
  <2> HIDE DEF c
  <2>2. command' \in [Processes -> {None} \cup Commands] /\ command'[p] = c
    BY <1>1, <1>3, <2>1 DEF GoTo, c
  <2>3. Typed'
    BY <1>2, <1>3, <2>2 DEF IInv, Typed
  <2>4. HasRoom'
    <3>1. \A q \in Processes : ~ At(q, "append")'
      BY <2>1, <2>2 DEF OneProcess, At, Free
    <3> QED
      BY <3>1, <1>2 DEF IInv, HasRoom
  <2>5. Carries(command[p])'
    BY <1>1, <1>2, <1>3, <2>1, <2>2 DEF Carries
  <2> QED
    BY <1>3, <2>3, <2>4, <2>5, OneCommand DEF IInv
<1>4. CASE /\ ledger[command[p].id] # None
           /\ GoTo(p, [command[p] EXCEPT !.at = "update", !.answer = ledger[command[p].id].state])
           /\ UNCHANGED ledger
  <2>1. ledger[command[p].id] \in Jobs
    BY <1>1, <1>4 DEF IInv, Typed
  <2>2. ledger[command[p].id].state \in States
    BY <2>1 DEF Jobs
  <2>3. EntriesAreTrue' /\ JobsAreKnown' /\ ledger' \in [Ids -> {None} \cup Jobs]
    BY <1>2, <1>4 DEF IInv, Typed, EntriesAreTrue, JobsAreKnown, IsNewest, Exact
  <2> QED
    BY <1>1, <1>3, <1>4, <2>2, <2>3 DEF Carries
<1>5. CASE /\ Admissible(command[p].id)
           /\ ledger' = Admitted(command[p])
           /\ GoTo(p, [command[p] EXCEPT !.at = "update", !.answer = "queued"])
  <2>1. "queued" \in States
    BY DEF States, Held
  <2>2. /\ ledger' \in [Ids -> {None} \cup Jobs]
        /\ ledger'[command[p].id] = [what |-> command[p].what, state |-> "queued"]
        /\ ledger'[command[p].id] # None
        /\ EntriesAreTrue' /\ JobsAreKnown'
    BY <1>1, <1>2, <1>5, AdmittedKeeps
  <2>3. [what |-> command[p].what, state |-> "queued"].what = command[p].what
        /\ [what |-> command[p].what, state |-> "queued"].state = "queued"
    OBVIOUS
  <2> QED
    BY <1>3, <1>5, <2>1, <2>2, <2>3
<1>6. CASE Leave(p) /\ UNCHANGED ledger
  BY <1>2, <1>6, LeavingKeeps
<1> QED
  BY <1>4, <1>5, <1>6 DEF Submit

\* The answer is lost, and perhaps the request.
LEMMA SubmitLostKeeps ==
  ASSUME OneProcess, IInv, NEW p \in Processes, SubmitLost(p)
  PROVE  IInv'
<1>1. CASE ledger' = ledger
  BY <1>1, LeavingKeeps DEF SubmitLost
<1>2. CASE Admissible(command[p].id) /\ ledger' = Admitted(command[p])
  <2>1. ledger' \in [Ids -> {None} \cup Jobs] /\ EntriesAreTrue' /\ JobsAreKnown'
    BY <1>2, AdmittedKeeps DEF SubmitLost
  <2>2. command' \in [Processes -> {None} \cup Commands] /\ command'[p] = None
    BY RunningCommand DEF Leave, SubmitLost, At
  <2>3. \A q \in Processes : command'[q] = None
    BY <2>2 DEF OneProcess
  <2>4. Typed'
    BY <2>1, <2>2 DEF IInv, Typed, SubmitLost
  <2>5. HasRoom'
    BY <2>3 DEF IInv, HasRoom, At, Free, SubmitLost
  <2>6. CommandsAreRight'
    BY <2>3 DEF CommandsAreRight
  <2> QED
    BY <2>1, <2>4, <2>5, <2>6 DEF IInv
<1> QED
  BY <1>1, <1>2 DEF SubmitLost

\* The new file, with what the command was last told as the status of its entry.
LEMMA WriteStatusKeeps ==
  ASSUME OneProcess, IInv, NEW p \in Processes, WriteStatus(p)
  PROVE  IInv'
<1>1. /\ command[p] \in Commands /\ Carries(command[p])
      /\ command[p].id \in Ids /\ command[p].what \in Requests
      /\ command \in [Processes -> {None} \cup Commands]
  BY RunningCommand DEF WriteStatus, At
<1>2. /\ Len(journal) \in Nat /\ DOMAIN journal = 1 .. Len(journal)
      /\ \A k \in DOMAIN journal : journal[k] \in Entries
  BY EntryTypes DEF IInv
<1> DEFINE own == {k \in DOMAIN journal : journal[k].id = command[p].id}
           answer == command[p].answer
<1>3. answer \in States /\ (answer \in Settled => ledger[command[p].id].state = answer)
      /\ ledger[command[p].id] # None
  BY <1>1 DEF Carries, WriteStatus, At
<1>4. journal' = Updated(journal, command[p], answer) /\ UNCHANGED <<ledger, commands>>
  BY <1>1 DEF WriteStatus, Carries
<1> HIDE DEF answer
<1>5. own # {} => Newest(own) \in own
  <2>1. own \in SUBSET (1 .. Len(journal))
    BY <1>2
  <2> HIDE DEF own
  <2> QED
    BY <1>2, <2>1, NewestIsLast
<1>6. /\ journal' \in Seq(Entries) /\ Len(journal') = Len(journal) /\ DOMAIN journal' = DOMAIN journal
      /\ \A k \in DOMAIN journal :
           /\ journal'[k].id = journal[k].id /\ journal'[k].what = journal[k].what
           /\ journal'[k].status # journal[k].status =>
                journal[k].id = command[p].id /\ journal'[k].status = answer
  <2>1. CASE own = {}
    BY <2>1, <1>4 DEF IInv, Typed, Updated
  <2>2. CASE own # {}
    <3> DEFINE n == Newest(own)
               e == [journal[n] EXCEPT !.status = answer]
    <3>1. n \in DOMAIN journal /\ journal[n].id = command[p].id
      BY <1>5, <2>2
    <3>2. journal' = [journal EXCEPT ![n] = e]
      BY <1>4, <2>2 DEF Updated
    <3>3. e \in Entries /\ e.id = journal[n].id /\ e.what = journal[n].what /\ e.status = answer
      BY <1>2, <1>3, <3>1 DEF Entries
    <3> HIDE DEF n, e
    <3>4. journal' \in Seq(Entries) /\ Len(journal') = Len(journal)
      BY <3>1, <3>2, <3>3, ExceptSeq DEF IInv, Typed
    <3>5. DOMAIN journal' = DOMAIN journal
          /\ \A k \in DOMAIN journal : journal'[k] = IF k = n THEN e ELSE journal[k]
      BY <3>2
    <3> QED
      BY <3>1, <3>3, <3>4, <3>5
  <2> QED
    BY <2>1, <2>2
<1> DEFINE c == [command[p] EXCEPT !.at = "wait", !.read = None]
<1>7. c \in Commands /\ c.at = "wait" /\ c.what = command[p].what /\ c.id = command[p].id
      /\ c.read = None
  BY <1>1 DEF Commands, Places
<1> HIDE DEF c
<1>8. command' \in [Processes -> {None} \cup Commands]
      /\ (command'[p] = None \/ command'[p] = c)
  BY <1>1, <1>7 DEF GoTo, Leave, WriteStatus, c
<1>9. Typed'
  BY <1>4, <1>6, <1>8 DEF IInv, Typed
<1>10. HasRoom'
  <2>1. \A q \in Processes : ~ At(q, "append")'
    BY <1>7, <1>8 DEF OneProcess, At, Free
  <2> QED
    BY <2>1, <1>4, <1>6 DEF IInv, HasRoom
<1>11. \A k \in DOMAIN journal : journal[k].id \in Ids
  BY <1>2 DEF Entries
<1>12. EntriesAreTrue'
  <2>1. ASSUME NEW k \in DOMAIN journal
        PROVE  LET job == ledger[journal'[k].id]
               IN  /\ job # None => job.what = journal'[k].what
                   /\ journal'[k].status \in Settled => job # None /\ job.state = journal'[k].status
    BY <1>3, <1>6 DEF IInv, EntriesAreTrue
  <2>2. \A j, k \in DOMAIN journal : journal'[j].id = journal'[k].id => journal'[j].what = journal'[k].what
    BY <1>6 DEF IInv, EntriesAreTrue
  <2> QED
    BY <1>4, <1>6, <2>1, <2>2 DEF EntriesAreTrue
<1>13. \A what, k : IsNewest(journal, what, k) => IsNewest(journal', what, k)
  BY <1>6 DEF IsNewest, Exact
<1>14. JobsAreKnown'
  <2> SUFFICES ASSUME NEW id \in Ids, ledger[id] # None
               PROVE  /\ \E k \in DOMAIN journal' : journal'[k].id = id
                      /\ ledger[id].state \notin Settled =>
                           \E k \in DOMAIN journal' :
                             IsNewest(journal', ledger[id].what, k) /\ journal'[k].id = id
    BY <1>4 DEF JobsAreKnown
  <2> QED
    BY <1>6, <1>13 DEF IInv, JobsAreKnown
<1>15. CASE command'[p] = None
  BY <1>9, <1>10, <1>12, <1>14, <1>15, OneCommand DEF IInv
<1>16. CASE command'[p] = c
  <2>1. Carries(command[p])'
    BY <1>1, <1>3, <1>4, <1>6, <1>7, <1>16 DEF Carries
  <2> QED
    BY <1>9, <1>10, <1>12, <1>14, <2>1, OneCommand DEF IInv
<1> QED
  BY <1>8, <1>15, <1>16

\* A poll finds the build ended.
LEMMA PollEndedKeeps ==
  ASSUME OneProcess, IInv, NEW p \in Processes, PollEnded(p)
  PROVE  IInv'
<1>1. /\ command[p] \in Commands /\ Carries(command[p])
      /\ command[p].id \in Ids
      /\ command \in [Processes -> {None} \cup Commands] /\ At(p, "wait")
  BY RunningCommand DEF PollEnded, At
<1>2. UNCHANGED <<journal, ledger, commands>>
  BY DEF PollEnded
<1>3. ledger[command[p].id] # None /\ ledger[command[p].id].state \in States
  BY <1>1 DEF PollEnded, Carries, At, States
<1> DEFINE c == [command[p] EXCEPT !.at = "conclude", !.answer = ledger[command[p].id].state]
<1>4. c \in Commands /\ c.at = "conclude" /\ c.what = command[p].what /\ c.id = command[p].id
      /\ c.read = command[p].read /\ c.answer = ledger[c.id].state
  BY <1>1, <1>3 DEF Commands, Places
<1> HIDE DEF c
<1>5. command' \in [Processes -> {None} \cup Commands] /\ command'[p] = c
  BY <1>1, <1>4 DEF GoTo, PollEnded, c
<1>6. Typed'
  BY <1>2, <1>5 DEF IInv, Typed
<1>7. HasRoom'
  <2>1. \A q \in Processes : ~ At(q, "append")'
    BY <1>4, <1>5 DEF OneProcess, At, Free
  <2> QED
    BY <2>1, <1>2 DEF IInv, HasRoom
<1>8. EntriesAreTrue' /\ JobsAreKnown'
  BY <1>2 DEF IInv, EntriesAreTrue, JobsAreKnown, IsNewest, Exact
<1>9. Carries(command[p])'
  BY <1>1, <1>2, <1>3, <1>4, <1>5 DEF Carries
<1> QED
  BY <1>6, <1>7, <1>8, <1>9, OneCommand DEF IInv

-----------------------------------------------------------------------------
(* The theorems.                                                           *)

\* The invariant holds in every state: initially, and after every step.
LEMMA IInvHolds ==
  ASSUME OneProcess, RoomForAll
  PROVE  Spec => []IInv
<1>1. Init => IInv
  <2> SUFFICES ASSUME Init PROVE IInv
    OBVIOUS
  <2>1. Typed
    BY ClientAssumption DEF Init, Typed
  <2> QED
    BY <2>1 DEF Init, IInv, HasRoom, EntriesAreTrue, JobsAreKnown, CommandsAreRight, At, Free
<1>2. IInv /\ [Next]_vars => IInv'
  <2> SUFFICES ASSUME IInv, [Next]_vars
               PROVE  IInv'
    OBVIOUS
  <2>1. CASE UNCHANGED vars
    BY <2>1, JobsGoingOnKeep DEF vars, JobsGoOn, IInv, Typed
  <2>2. CASE Bridge
    BY <2>2, BridgeKeeps
  <2>3. ASSUME NEW p \in Processes, NEW what \in Requests, Begin(p, what)
        PROVE  IInv'
    BY <2>3, BeginKeeps
  <2>4. ASSUME NEW p \in Processes, Proceed(p)
        PROVE  IInv'
    <3>1. CASE GiveUp(p)
      BY <3>1, LeavingKeeps DEF GiveUp
    <3> QED
      BY <2>4, <3>1, ReadJournalKeeps, WriteIntentKeeps, SubmitKeeps, SubmitLostKeeps,
         WriteStatusKeeps, PollEndedKeeps DEF Proceed
  <2>5. ASSUME NEW p \in Processes, Dies(p)
        PROVE  IInv'
    BY <2>5, LeavingKeeps DEF Dies
  <2> QED
    BY <2>1, <2>2, <2>3, <2>4, <2>5 DEF Next
<1> QED
  BY <1>1, <1>2, PTL DEF Spec

\* The types: the journal holds well-formed entries within its bound, the ledger
\* jobs, and a command is at one of its places.
THEOREM TypesHold ==
  ASSUME OneProcess, RoomForAll
  PROVE  Spec => []TypeOK
<1>1. IInv => TypeOK
  <2> SUFFICES ASSUME IInv PROVE TypeOK
    OBVIOUS
  <2>1. Len(journal) <= MaxEntries
    <3>1. Len(journal) \in Nat /\ commands \in Nat /\ commands <= MaxCommands /\ Len(journal) <= commands
      BY EntryTypes, ClientAssumption DEF IInv, Typed, HasRoom
    <3> QED
      BY <3>1, ClientAssumption DEF RoomForAll
  <2>2. \A k \in DOMAIN journal :
          journal[k] \in [what : Requests, id : Ids, status : States \cup {"pending"}]
    BY EntryTypes DEF IInv, Entries
  <2>3. \A p \in Processes : command[p] # None => command[p].at \in Places
    BY RunningCommand DEF Commands, Free
  <2> QED
    BY <2>1, <2>2, <2>3 DEF IInv, Typed, TypeOK, Places
<1> QED
  BY <1>1, IInvHolds, PTL

\* JournalAgrees of the specification: every job at the bridge is found in the
\* journal by its request id, and what the journal calls settled is settled at the
\* bridge in that very way, whatever was lost and wherever a command died.  For one
\* process and a journal that drops no entry.
THEOREM JournalAgreesHolds ==
  ASSUME OneProcess, RoomForAll
  PROVE  Spec => []JournalAgrees
<1>1. IInv => JournalAgrees
  <2> SUFFICES ASSUME IInv PROVE JournalAgrees
    OBVIOUS
  <2>1. \A id \in Ids : ledger[id] # None =>
          \E k \in DOMAIN journal : journal[k].id = id /\ journal[k].what = ledger[id].what
    BY DEF IInv, JobsAreKnown, EntriesAreTrue
  <2>2. ASSUME NEW k \in DOMAIN journal, journal[k].status \in Settled
        PROVE  ledger[journal[k].id] = [what |-> journal[k].what, state |-> journal[k].status]
    <3>1. /\ ledger[journal[k].id] # None
          /\ ledger[journal[k].id].what = journal[k].what
          /\ ledger[journal[k].id].state = journal[k].status
      BY <2>2 DEF IInv, EntriesAreTrue
    <3>2. ledger[journal[k].id] \in Jobs
      BY <3>1, EntryTypes DEF IInv, Typed, Entries
    <3> QED
      BY <3>1, <3>2 DEF Jobs
  <2> QED
    BY <2>1, <2>2 DEF JournalAgrees
<1> QED
  BY <1>1, IInvHolds, PTL

\* A job is made only of a command's request, and only where the bridge holds nothing.
LEMMA JobsAreMadeBySubmitting ==
  ASSUME IInv, [Next]_vars, NEW id \in Ids, ledger[id] = None, ledger'[id] # None
  PROVE  \E p \in Processes : /\ At(p, "submit") /\ command[p].id = id /\ Admissible(id)
                              /\ ledger'[id].what = command[p].what
<1>1. ledger \in [Ids -> {None} \cup Jobs]
  BY DEF IInv, Typed
<1>2. ASSUME NEW p \in Processes, Submit(p) \/ SubmitLost(p)
      PROVE  At(p, "submit") /\ command[p].id = id /\ Admissible(id)
             /\ ledger'[id].what = command[p].what
  <2>1. At(p, "submit") /\ Admissible(command[p].id) /\ ledger' = Admitted(command[p])
    <3>1. CASE Submit(p)
      BY <3>1 DEF Submit
    <3>2. CASE SubmitLost(p)
      <4>1. ledger' # ledger
        OBVIOUS
      <4> QED
        BY <3>2, <4>1 DEF SubmitLost
    <3> QED
      BY <1>2, <3>1, <3>2
  <2>2. command[p].id \in Ids
    BY <2>1, RunningCommand DEF At
  <2> QED
    BY <1>1, <2>1, <2>2 DEF Admitted
<1>3. Bridge => ledger'[id] = None
  <2>1. ASSUME NEW other \in Ids, NEW from, NEW to, BridgeStep(other, from, to)
        PROVE  ledger'[id] = None
    BY <2>1, <1>1 DEF BridgeStep
  <2>2. BridgeRestarts => ledger'[id] = None
    BY DEF BridgeRestarts, Recovered
  <2> QED
    BY <2>1, <2>2 DEF Bridge, BuildStarts, BuildEnds, BuildCancelled, BuildLost, BuildReconciled
<1>4. ASSUME NEW p \in Processes, NEW what \in Requests, Begin(p, what)
      PROVE  ledger' = ledger
  BY <1>4 DEF Begin
<1>5. ASSUME NEW p \in Processes, \/ ReadJournal(p) \/ WriteIntent(p) \/ WriteStatus(p)
                                  \/ PollEnded(p) \/ GiveUp(p) \/ Dies(p)
      PROVE  ledger' = ledger
  BY <1>5 DEF ReadJournal, WriteIntent, WriteStatus, PollEnded, GiveUp, Dies
<1> QED
  BY <1>2, <1>3, <1>4, <1>5 DEF Next, Proceed, vars

\* NoSecondJob of the specification: a job is created for a request only when every
\* earlier job of that request succeeded, failed or was cancelled.  For one process
\* and a journal that drops no entry.
THEOREM NoSecondJobHolds ==
  ASSUME OneProcess, RoomForAll
  PROVE  Spec => NoSecondJob
<1>1. IInv /\ [Next]_vars =>
        [\A id \in Ids : ledger[id] = None /\ ledger'[id] # None =>
           \A other \in Ids : ledger[other] # None /\ ledger[other].what = ledger'[id].what
                              => ledger[other].state \in Settled]_vars
  <2> SUFFICES ASSUME IInv, [Next]_vars, NEW id \in Ids, ledger[id] = None, ledger'[id] # None,
                      NEW other \in Ids, ledger[other] # None,
                      ledger[other].what = ledger'[id].what
               PROVE  ledger[other].state \in Settled
    OBVIOUS
  <2>1. PICK p \in Processes : /\ At(p, "submit") /\ command[p].id = id /\ Admissible(id)
                               /\ ledger'[id].what = command[p].what
    BY JobsAreMadeBySubmitting
  <2>2. Carries(command[p])
    BY <2>1, RunningCommand DEF At
  <2>3. other # id
    OBVIOUS
  <2> QED
    BY <2>1, <2>2, <2>3 DEF Carries, At
<1> QED
  BY <1>1, IInvHolds, PTL DEF Spec, NoSecondJob
=============================================================================
