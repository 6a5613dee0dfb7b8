----------------------------- MODULE BuildClient -----------------------------
(***************************************************************************)
(* The build command of kala_agent_solidedge (cli.py, client.py) with the  *)
(* journal file it keeps (journal.py), against the ledger of a bridge.     *)
(* A command may die anywhere, its submission and the answer may be lost,  *)
(* the bridge may restart, and the operator runs the command again.  The   *)
(* journal is read and replaced as a whole: append and update read the     *)
(* file and rename a new one over it.                                      *)
(***************************************************************************)
EXTENDS Integers, Sequences, FiniteSets

CONSTANTS
  Processes,       \* commands that may run at the same time
  Requests,        \* script, request digest and bridge target: what is to be built
  Ids,             \* request ids new_request_id may draw
  MaxEntries,      \* MAX_ENTRIES of the journal
  MaxCommands,     \* bound: build commands run in all
  None

ASSUME ClientAssumption ==
  /\ MaxEntries \in Nat \ {0}
  /\ MaxCommands \in Nat

VARIABLES
  journal,         \* the file: a sequence of entries, newest last
  ledger,          \* the bridge: request id -> its job, or None
  command,         \* process -> the build command it runs, or None
  commands         \* how many were started

vars == <<journal, ledger, command, commands>>

Settled == {"succeeded", "failed", "cancelled"}
Held == {"queued", "running", "indeterminate"}

\* Mutant: a build whose outcome is unknown is over.
UnfinishedIsKnown == {"pending", "queued", "running"}

Unfinished == Held \cup {"pending", "interrupted"}
Ended == Settled \cup {"indeterminate", "interrupted"}
States == Ended \cup Held

\* What the ledger of the bridge says of a build.
Jobs == [what : Requests, state : States]

ASSUME NoJobAssumption == None \notin Jobs

Entry(what, id, status) == [what |-> what, id |-> id, status |-> status]

\* find_exact: the newest entry of this very request.
Exact(entries, what) == {k \in DOMAIN entries : entries[k].what = what}
Newest(indices) == CHOOSE k \in indices : \A other \in indices : other <= k

\* _reusable_request_id: the id of the newest entry while it is unfinished, else
\* one nobody has used.
UsedIds == {id \in Ids : \/ ledger[id] # None
                         \/ \E k \in DOMAIN journal : journal[k].id = id
                         \/ \E p \in Processes : command[p] # None /\ command[p].id = id}
RequestId(entries, what) ==
  LET found == Exact(entries, what)
      newest == entries[Newest(found)]
  IN  IF found # {} /\ newest.status \in Unfinished THEN {newest.id} ELSE Ids \ UsedIds

\* What append and update make of the entries they read.
Bounded(entries) ==
  SubSeq(entries, IF Len(entries) > MaxEntries THEN Len(entries) - MaxEntries + 1 ELSE 1,
         Len(entries))
Appended(entries, c) == Bounded(Append(entries, Entry(c.what, c.id, "pending")))
Updated(entries, c, status) ==
  LET own == {k \in DOMAIN entries : entries[k].id = c.id}
  IN  IF own = {} THEN entries ELSE [entries EXCEPT ![Newest(own)].status = status]

-----------------------------------------------------------------------------
(* The bridge: one build at a time, and none beside an unknown one.        *)

Busy == \E id \in Ids : ledger[id] # None /\ ledger[id].state \in Held

\* What submit makes of a request: an id it knows keeps its job.
Admissible(id) == ledger[id] = None /\ ~ Busy

\* Mutant: the bridge keeps the client's word for a job it has just admitted.
AdmittedPending(c) == [ledger EXCEPT ![c.id] = [what |-> c.what, state |-> "pending"]]

Admitted(c) == [ledger EXCEPT ![c.id] = [what |-> c.what, state |-> "queued"]]

BridgeStep(id, from, to) ==
  /\ ledger[id] # None /\ ledger[id].state \in from
  /\ ledger' = [ledger EXCEPT ![id].state = to]
  /\ UNCHANGED <<journal, command, commands>>

BuildStarts(id) == BridgeStep(id, {"queued"}, "running")
BuildEnds(id) == \E verdict \in Settled : BridgeStep(id, {"running"}, verdict)
BuildCancelled(id) == BridgeStep(id, {"queued"}, "cancelled")
BuildLost(id) == BridgeStep(id, {"running"}, "indeterminate")
BuildReconciled(id) == BridgeStep(id, {"indeterminate"}, "interrupted")

Recovered(job) ==
  IF job = None THEN None
  ELSE CASE job.state = "queued"  -> [job EXCEPT !.state = "interrupted"]
         [] job.state = "running" -> [job EXCEPT !.state = "indeterminate"]
         [] OTHER                 -> job

BridgeRestarts ==
  /\ ledger' = [id \in Ids |-> Recovered(ledger[id])]
  /\ UNCHANGED <<journal, command, commands>>

-----------------------------------------------------------------------------
(* The command.                                                            *)

Free(p) == command[p] = None
At(p, place) == ~ Free(p) /\ command[p].at = place
GoTo(p, c) == command' = [command EXCEPT ![p] = c]
Leave(p) == command' = [command EXCEPT ![p] = None]

\* _require_ready asks the bridge, and then the journal is searched.
Begin(p, what) ==
  /\ Free(p)
  /\ commands < MaxCommands
  /\ ~ Busy
  /\ \E id \in RequestId(journal, what) :
       GoTo(p, [at |-> "append", what |-> what, id |-> id, read |-> None, answer |-> None])
  /\ commands' = commands + 1
  /\ UNCHANGED <<journal, ledger>>

\* append and update start by reading the file ...
ReadJournal(p) ==
  /\ At(p, "append") \/ At(p, "update") \/ At(p, "conclude")
  /\ command[p].read = None
  /\ GoTo(p, [command[p] EXCEPT !.read = journal])
  /\ UNCHANGED <<journal, ledger, commands>>

\* Mutant: the entry is made once the bridge has answered.
WriteIntentLater(p) ==
  /\ At(p, "append") /\ command[p].read # None
  /\ GoTo(p, [command[p] EXCEPT !.at = "submit", !.read = None])
  /\ UNCHANGED <<journal, ledger, commands>>

\* ... and end by replacing it.
WriteIntent(p) ==
  /\ At(p, "append") /\ command[p].read # None
  /\ journal' = Appended(command[p].read, command[p])
  /\ GoTo(p, [command[p] EXCEPT !.at = "submit", !.read = None])
  /\ UNCHANGED <<ledger, commands>>

\* The request reaches the bridge, which knows it, admits it or refuses it.
Submit(p) ==
  /\ At(p, "submit")
  /\ LET c == command[p]
     IN  \/ /\ ledger[c.id] # None
            /\ GoTo(p, [c EXCEPT !.at = "update", !.answer = ledger[c.id].state])
            /\ UNCHANGED ledger
         \/ /\ Admissible(c.id)
            /\ ledger' = Admitted(c)
            /\ GoTo(p, [c EXCEPT !.at = "update", !.answer = "queued"])
         \/ /\ ledger[c.id] = None /\ Busy
            /\ Leave(p)
            /\ UNCHANGED ledger
  /\ UNCHANGED <<journal, commands>>

\* The answer is lost, and so may be the request: the command ends.
SubmitLost(p) ==
  /\ At(p, "submit")
  /\ ledger' \in {ledger} \cup {Admitted(c) : c \in {d \in {command[p]} : Admissible(d.id)}}
  /\ Leave(p)
  /\ UNCHANGED <<journal, commands>>

WriteStatus(p) ==
  /\ At(p, "update") \/ At(p, "conclude")
  /\ command[p].read # None
  /\ journal' = Updated(command[p].read, command[p], command[p].answer)
  /\ IF At(p, "update") THEN GoTo(p, [command[p] EXCEPT !.at = "wait", !.read = None])
     ELSE Leave(p)
  /\ UNCHANGED <<ledger, commands>>

\* wait: a poll finds the build ended ...
PollEnded(p) ==
  /\ At(p, "wait")
  /\ ledger[command[p].id].state \in Ended
  /\ GoTo(p, [command[p] EXCEPT !.at = "conclude", !.answer = ledger[command[p].id].state])
  /\ UNCHANGED <<journal, ledger, commands>>

\* Mutant: no deadline at all.
GiveUpNever(p) == FALSE

\* ... or the deadline passes, or the bridge does not answer.
GiveUp(p) ==
  /\ At(p, "wait")
  /\ Leave(p)
  /\ UNCHANGED <<journal, ledger, commands>>

Dies(p) == ~ Free(p) /\ Leave(p) /\ UNCHANGED <<journal, ledger, commands>>

Proceed(p) == \/ ReadJournal(p) \/ WriteIntent(p) \/ Submit(p) \/ SubmitLost(p)
              \/ WriteStatus(p) \/ PollEnded(p) \/ GiveUp(p)

-----------------------------------------------------------------------------
Init ==
  /\ journal = <<>>
  /\ ledger = [id \in Ids |-> None]
  /\ command = [p \in Processes |-> None]
  /\ commands = 0

Bridge ==
  \/ BridgeRestarts
  \/ \E id \in Ids : \/ BuildStarts(id) \/ BuildEnds(id) \/ BuildCancelled(id)
                     \/ BuildLost(id) \/ BuildReconciled(id)

Next ==
  \/ Bridge
  \/ \E p \in Processes : \/ \E what \in Requests : Begin(p, what)
                          \/ Proceed(p)
                          \/ Dies(p)

Spec == Init /\ [][Next]_vars

\* A command that can go on does; nothing is assumed of the bridge.
FairSpec == Spec /\ \A p \in Processes : WF_vars(Proceed(p))

-----------------------------------------------------------------------------
\* Types: entries, jobs and commands.
TypeOK ==
  /\ Len(journal) <= MaxEntries
  /\ \A k \in DOMAIN journal :
       journal[k] \in [what : Requests, id : Ids, status : States \cup {"pending"}]
  /\ ledger \in [Ids -> {None} \cup Jobs]
  /\ \A p \in Processes : command[p] # None =>
       command[p].at \in {"append", "submit", "update", "wait", "conclude"}
  /\ commands \in 0 .. MaxCommands

\* One request never becomes two jobs: a job is created for a request only when
\* every earlier job of that request has succeeded, failed or was cancelled,
\* whatever answer was lost and wherever the command died in between.  For one
\* process over a journal with room for every command (MaxCommands <= MaxEntries).
NoSecondJob ==
  [][\A id \in Ids : ledger[id] = None /\ ledger'[id] # None =>
       \A other \in Ids : ledger[other] # None /\ ledger[other].what = ledger'[id].what
                          => ledger[other].state \in Settled]_vars

\* The journal and the bridge agree, wherever a command dies and whatever answer is
\* lost: the intent is on disk before the socket, so every job at the bridge is found
\* by its request id; and what the journal calls settled is settled there, in that
\* very way.  For one process over a journal with room for every command (MaxCommands
\* <= MaxEntries): no entry is dropped, and no other process writes over one.
JournalAgrees ==
  /\ \A id \in Ids : ledger[id] # None =>
       \E k \in DOMAIN journal : journal[k].id = id /\ journal[k].what = ledger[id].what
  /\ \A k \in DOMAIN journal : journal[k].status \in Settled =>
       ledger[journal[k].id] = [what |-> journal[k].what, state |-> journal[k].status]

\* A build command ends, whatever the bridge does with the build.
EveryCommandEnds == \A p \in Processes : ~ Free(p) ~> Free(p)

=============================================================================
