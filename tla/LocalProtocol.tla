---------------------------- MODULE LocalProtocol ----------------------------
(***************************************************************************)
(* The request journal of the harness daemon (harness/local_protocol.py):  *)
(* every mutation carries a request_id, is journalled as started before it *)
(* executes and is answered from the journal when it is sent again.        *)
(*                                                                         *)
(* dispatch makes three transactions (_begin, the mutation, _finish) and   *)
(* the daemon may die or run into an unexpected error between any two.     *)
(* The Unix server handles one message at a time.                          *)
(*                                                                         *)
(* The specification is ProtocolSpec: the proofs extend this module and    *)
(* Harness together.                                                       *)
(***************************************************************************)
EXTENDS Naturals, FiniteSets

CONSTANTS
  Requests,    \* request ids
  Payloads,    \* action and args, by fingerprint
  Malformed,   \* the payloads that _validate_action_args refuses
  MaxMessages, \* bound on the messages received
  Absent

VARIABLES
  row,       \* row[r] of protocol_requests, or Absent
  server,    \* the message being dispatched and its next step, or Absent
  executed,  \* executed[r][p]: how often the mutation committed (history)
  heard,     \* the answers that reached a client (history)
  messages   \* messages received (bound)

protocolVars == <<row, server, executed, heard, messages>>

Terminal == {"completed", "failed"}
Steps == {"begin", "execute", "finish", "refuse"}
Answers == {"ok", "error", "conflict", "indeterminate", "internal"}

Row == [payload : Payloads, status : Terminal \cup {"started"},
        response : {"ok", "error", "conflict", Absent}]
Message == [id : Requests, payload : Payloads, step : Steps,
            response : {"ok", "error", "conflict", Absent}]

ASSUME PayloadsAssumption ==
  /\ Malformed \subseteq Payloads
  /\ Absent \notin Payloads \cup Row \cup Message
  /\ MaxMessages \in Nat

ProtocolTypeOK ==
  /\ row \in [Requests -> Row \cup {Absent}]
  /\ server \in Message \cup {Absent}
  /\ executed \in [Requests -> [Payloads -> Nat]]
  /\ heard \subseteq [id : Requests, payload : Payloads, answer : Answers]
  /\ messages \in 0..MaxMessages

ProtocolInit ==
  /\ row = [r \in Requests |-> Absent]
  /\ server = Absent
  /\ executed = [r \in Requests |-> [p \in Payloads |-> 0]]
  /\ heard = {}
  /\ messages = 0

IsStarted(r) == row[r] # Absent /\ row[r].status = "started"
IsClosed(r) == row[r] # Absent /\ row[r].status \in Terminal

At(step) == server # Absent /\ server.step = step
Goto(step, response) == server' = [server EXCEPT !.step = step, !.response = response]

\* The answer is written to the socket; the client may have gone.
Answer(answer) ==
  /\ server' = Absent
  /\ \/ heard' = heard \cup {[id |-> server.id, payload |-> server.payload, answer |-> answer]}
     \/ UNCHANGED heard
-----------------------------------------------------------------------------
\* Arguments that are not valid are refused before anything is journalled.
Receive(r, p) ==
  /\ server = Absent /\ messages < MaxMessages
  /\ messages' = messages + 1
  /\ server' = [id |-> r, payload |-> p,
                step |-> IF p \in Malformed THEN "refuse" ELSE "begin",
                response |-> IF p \in Malformed THEN "error" ELSE Absent]
  /\ UNCHANGED <<row, executed, heard>>

\* Variant: a request found started is executed again.
BeginRetry ==
  /\ At("begin")
  /\ LET r == server.id IN
       \/ /\ ~IsClosed(r)
          /\ row' = [row EXCEPT ![r] = [payload |-> server.payload, status |-> "started",
                                        response |-> Absent]]
          /\ Goto("execute", Absent) /\ UNCHANGED heard
       \/ /\ IsClosed(r)
          /\ Answer(row[r].response) /\ UNCHANGED row
  /\ UNCHANGED <<executed, messages>>

\* _begin: the first transaction.
Begin ==
  /\ At("begin")
  /\ LET r == server.id IN
       \/ /\ row[r] = Absent
          /\ row' = [row EXCEPT ![r] = [payload |-> server.payload, status |-> "started",
                                        response |-> Absent]]
          /\ Goto("execute", Absent) /\ UNCHANGED heard
       \/ /\ row[r] # Absent /\ row[r].payload # server.payload
          /\ Goto("refuse", "conflict") /\ UNCHANGED <<row, heard>>
       \/ /\ row[r] # Absent /\ row[r].payload = server.payload
          /\ Answer(IF IsStarted(r) THEN "indeterminate" ELSE row[r].response)
          /\ UNCHANGED row
  /\ UNCHANGED <<executed, messages>>

\* The service's own transaction commits, or raises a HarnessError and leaves nothing.
Execute ==
  /\ At("execute")
  /\ \/ /\ executed' = [executed EXCEPT ![server.id][server.payload] = @ + 1]
        /\ Goto("finish", "ok")
     \/ Goto("refuse", "error") /\ UNCHANGED executed
  /\ UNCHANGED <<row, heard, messages>>

\* _finish closes the row of this request_id if it is still started.
Close(status) ==
  LET r == server.id IN
    row' = IF IsStarted(r)
           THEN [row EXCEPT ![r].status = status, ![r].response = server.response]
           ELSE row

Finish ==
  /\ At("finish")
  /\ Close("completed") /\ Answer("ok")
  /\ UNCHANGED <<executed, messages>>

\* A HarnessError, wherever it was raised.
Refuse ==
  /\ At("refuse")
  /\ Close("failed") /\ Answer(server.response)
  /\ UNCHANGED <<executed, messages>>

\* Any other exception in a transaction (the database is locked, the disk is
\* full): its effects are rolled back and nothing more is journalled.
InternalError ==
  /\ server # Absent
  /\ IF At("refuse") THEN server' = Absent /\ UNCHANGED heard ELSE Answer("internal")
  /\ UNCHANGED <<row, executed, messages>>

\* Variant: a restart clears what it finds started.
CrashForgets ==
  /\ server # Absent /\ server' = Absent
  /\ row' = [r \in Requests |->
              IF IsStarted(r) THEN Absent ELSE row[r]]
  /\ UNCHANGED <<executed, heard, messages>>

\* The daemon dies; the database keeps what was committed.
Crash ==
  /\ server # Absent /\ server' = Absent
  /\ UNCHANGED <<row, executed, heard, messages>>

ProtocolNext ==
  \/ \E r \in Requests, p \in Payloads : Receive(r, p)
  \/ Begin \/ Execute \/ Finish \/ Refuse \/ InternalError \/ Crash

ProtocolSpec == ProtocolInit /\ [][ProtocolNext]_protocolVars
-----------------------------------------------------------------------------
Ran(r) == {p \in Payloads : executed[r][p] > 0}

\* "at-most-once mutation semantics" (local_protocol.py:1): whatever is sent
\* under a request_id, however often, at most one mutation commits, once.
ExecutedOnce ==
  \A r \in Requests :
    /\ \A p \in Payloads : executed[r][p] <= 1
    /\ Cardinality(Ran(r)) <= 1

\* A client told ok, at once or from the journal, was told of its own
\* mutation, which has committed (_begin, _finish).
OkIsItsOwn ==
  \A h \in heard : h.answer = "ok" => executed[h.id][h.payload] = 1

\* A client told indeterminate is right to reconcile: the mutation may have
\* committed, but the request never completes any more (_begin, _finish).
IndeterminateNeverCompletes ==
  \A h \in heard :
    h.answer = "indeterminate" => row[h.id] # Absent /\ row[h.id].status # "completed"

\* "a request journalled as started remains indeterminate, which is safer than
\* pretending the mutation did not happen" (local_protocol.py:182-183).  (False: a refused
\* message of the same request_id closes it as failed.)
FailedNeverRan ==
  \A r \in Requests :
    (row[r] # Absent /\ row[r].status = "failed") => Ran(r) = {}
=============================================================================
