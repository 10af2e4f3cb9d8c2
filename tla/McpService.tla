----------------------------- MODULE McpService -----------------------------
(***************************************************************************)
(* The MCP server and its tools: mcpserver/server.go bounds how many calls *)
(* run and for how long, tools/service.go keeps checkpoints and audits in  *)
(* memory for each connected client.                                       *)
(*                                                                         *)
(* A call takes a slot, is checked, computes outside the lock, then reads  *)
(* or changes the state of its session under the lock, and is answered.    *)
(* When its context ends, by timeout, cancellation or disconnect, it still *)
(* runs to its end, fails where it looks at the context, and is answered   *)
(* with an error.                                                          *)
(* A session is keyed by its address, which a later one may get once the   *)
(* session is gone: its state may still be there.                          *)
(***************************************************************************)
EXTENDS Naturals, Sequences, FiniteSets, Functions

CONSTANTS
  Sessions,       \* session keys: addresses of ServerSession objects
  Calls,          \* bound: tool calls at any one time
  None,           \* the absence of a value
  References,     \* audit references
  Hashes,         \* revision hashes
  RefOf,          \* revision hash -> the reference it was computed for
  Requests,       \* the requests clients may make
  ConfiguredPolicy, AllowedSources, ProcessEnabled,   \* Configuration
  MaxConcurrent,  \* DefaultMaxConcurrent
  MaxStates,      \* sessions with state
  MaxAudits       \* maxProjectAuditsPerSession

CompileTools == {"improve_prompt", "create_goal_prompt", "create_review_fix_prompt", "lint_prompt"}
AuditTools   == {"audit_session", "audit_project"}
Policies     == 1 .. 3     \* executionPolicyRank
Texts        == {"line", "lines", "tabbed"}

\* One line, several lines, and a line with a control character in it.
CompileRequests    == [tool : CompileTools, text : Texts, policy : Policies]
CheckpointRequests == [tool : {"get_checkpoint"}, latest : BOOLEAN]
AuditRequests      == [tool : AuditTools, ref : References,
                       consent : {"granted", "denied", "unknown"},
                       sources : SUBSET (AllowedSources \cup {"process", "other"})]
RenderRequests     == [tool : {"render_governance_report"}, ref : References,
                       hash : Hashes \cup {None}]
Malformed          == [tool |-> "malformed"]

ASSUME McpAssumption ==
  /\ Requests \subseteq CompileRequests \cup CheckpointRequests \cup AuditRequests
                          \cup RenderRequests \cup {Malformed}
  /\ RefOf \in [Hashes -> References]
  /\ None \notin Hashes
  /\ ConfiguredPolicy \in Policies
  /\ MaxConcurrent \in Nat \ {0} /\ MaxStates \in Nat \ {0} /\ MaxAudits \in Nat \ {0}

VARIABLES
  connected,  \* sessions of the SDK server
  state,      \* Service.state: session -> its state
  call,       \* the calls under way
  limit       \* slots taken in Server.limit

vars == <<connected, state, call, limit>>

Error == [ok |-> FALSE]
Ok(x) == [ok |-> TRUE, of |-> x]

NewCall  == [pc |-> "none", session |-> None, req |-> Malformed,
             result |-> None, answer |-> Error]

\* A checkpoint, a session audit, and the project audits, which a request names by
\* their hash.
NewState == [checkpoint |-> None, audit |-> None, order |-> <<>>, projects |-> {}]

Init ==
  /\ connected = {}
  /\ state = [s \in {} |-> NewState]
  /\ call = [c \in Calls |-> NewCall]
  /\ limit = 0

Running(c) == call[c].pc \in {"compute", "save", "read", "reply"}

-----------------------------------------------------------------------------
(* Connections *)

\* A session object stays as long as a call of it runs; then its address is free,
\* whatever the state still keeps under it.
Connect(s) ==
  /\ s \notin connected
  /\ \A c \in Calls : call[c].session # s
  /\ connected' = connected \cup {s}
  /\ UNCHANGED <<state, call, limit>>

\* The client leaves, or sends a message that is too large; its calls go on.
Disconnect(s) ==
  /\ s \in connected
  /\ connected' = connected \ {s}
  /\ UNCHANGED <<state, call, limit>>

-----------------------------------------------------------------------------
(* What a request is refused for *)

SourcesConfigured(req) ==
  \A src \in req.sources :
    src \in AllowedSources /\ (src = "process" => ProcessEnabled)

Refused(req) ==
  \/ req.tool = "malformed"
  \/ req.tool = "improve_prompt" /\ req.policy > ConfiguredPolicy
  \/ req.tool = "get_checkpoint" /\ ~req.latest
  \/ req.tool \in AuditTools /\ (req.consent # "granted" \/ req.sources = {} \/ ~SourcesConfigured(req))

HasSlot == limit < MaxConcurrent

\* The call takes a slot.
CallTool(c, s, req) ==
  /\ call[c].pc = "none" /\ s \in connected
  /\ HasSlot
  /\ limit' = limit + 1
  /\ call' = [call EXCEPT ![c] =
       [NewCall EXCEPT !.session = s, !.req = req,
          !.pc = IF Refused(req) THEN "reply"
                 ELSE IF req.tool \in CompileTools \cup AuditTools THEN "compute" ELSE "read"]]
  /\ UNCHANGED <<connected, state>>

\* All slots are taken: the call is answered at once, with ErrBusy.
Busy(c, s) ==
  /\ call[c].pc = "none" /\ s \in connected
  /\ ~HasSlot
  /\ UNCHANGED vars

\* The compiler or the audit store, without the lock; a project audit names the
\* revision it made.  Either may fail, and fails when the context has ended.
Compute(c) ==
  /\ call[c].pc = "compute"
  /\ \/ call' = [call EXCEPT ![c].pc = "reply"]
     \/ /\ call[c].req.tool # "audit_project"
        /\ call' = [call EXCEPT ![c].pc = "save"]
     \/ /\ call[c].req.tool = "audit_project"
        /\ \E h \in Hashes :
             /\ RefOf[h] = call[c].req.ref
             /\ call' = [call EXCEPT ![c].pc = "save", ![c].result = h]
  /\ UNCHANGED <<connected, state, limit>>

-----------------------------------------------------------------------------
(* The state of sessions, under the lock *)

\* Mutant: only the session at hand is looked at.
pruneDisconnectedLocked_Never == state

\* State of clients that left is dropped, unless none is connected at all.
pruneDisconnectedLocked ==
  IF connected = {} THEN state ELSE Restrict(state, DOMAIN state \cap connected)

\* A new session finds room, or all the others lose their state.
sessionStateLocked(s) ==
  LET kept == pruneDisconnectedLocked
      room == IF s \in DOMAIN kept \/ Cardinality(DOMAIN kept) < MaxStates
              THEN kept ELSE Restrict(kept, {})
  IN  [x \in DOMAIN room \cup {s} |-> IF x \in DOMAIN room THEN room[x] ELSE NewState]

\* Mutant: the result of an evicted revision stays.
RememberAudit_Keep(st, h) ==
  LET order == IF h \in st.projects THEN st.order ELSE Append(st.order, h)
  IN  [st EXCEPT !.order    = IF Len(order) > MaxAudits THEN Tail(order) ELSE order,
                 !.projects = @ \cup {h}]

\* Revisions are evicted in the order in which they were first cached.
RememberAudit(st, h) ==
  LET order == IF h \in st.projects THEN st.order ELSE Append(st.order, h)
      full  == Len(order) > MaxAudits
  IN  [st EXCEPT !.order    = IF full THEN Tail(order) ELSE order,
                 !.projects = (@ \cup {h}) \ (IF full THEN {Head(order)} ELSE {})]

\* The objective, or the failure classes, a checkpoint is made of.
CheckpointText(req) ==
  CASE req.tool \in {"improve_prompt", "create_goal_prompt"} -> req.text
    [] req.tool = "create_review_fix_prompt" -> IF req.text = "tabbed" THEN "tabbed" ELSE "line"
    [] req.tool = "lint_prompt" -> "line"

Saved(st, c) ==
  LET req == call[c].req
  IN  CASE req.tool \in CompileTools  -> [st EXCEPT !.checkpoint = [text |-> CheckpointText(req)]]
        [] req.tool = "audit_session" -> [st EXCEPT !.audit = [ref |-> req.ref]]
        [] req.tool = "audit_project" -> RememberAudit(st, call[c].result)

Save(c) ==
  LET s == call[c].session
      found == sessionStateLocked(s)
  IN  /\ call[c].pc = "save"
      /\ state' = [found EXCEPT ![s] = Saved(@, c)]
      /\ call' = [call EXCEPT ![c].pc = "reply", ![c].answer = Ok(None)]
      /\ UNCHANGED <<connected, limit>>

\* checkpoint.Render accepts no control characters.
Renderable(checkpoint) == checkpoint.text = "line"

FindCheckpoint(st, s) ==
  {st[x].checkpoint : x \in DOMAIN st \cap {s}} \ {None}

getCheckpoint(st, s) ==
  LET found == {c \in FindCheckpoint(st, s) : Renderable(c)}
  IN  IF found = {} THEN Error ELSE Ok(CHOOSE c \in found : TRUE)

\* A session report needs the very reference.
FindAudit(st, s, req) ==
  {a \in {st[x].audit : x \in DOMAIN st \cap {s}} \ {None} : a.ref = req.ref}

\* A project report needs the very reference and the very hash.
FindProject(st, s, req) ==
  {[ref |-> RefOf[req.hash]] :
     x \in {y \in DOMAIN st \cap {s} : req.hash \in st[y].projects /\ RefOf[req.hash] = req.ref}}

renderGovernanceReport(st, s, req) ==
  LET found == IF req.hash = None THEN FindAudit(st, s, req) ELSE FindProject(st, s, req)
  IN  IF found = {} THEN Error ELSE Ok(CHOOSE a \in found : TRUE)

Read(c) ==
  LET s == call[c].session
      st == pruneDisconnectedLocked
      req == call[c].req
  IN  /\ call[c].pc = "read"
      /\ state' = st
      /\ call' = [call EXCEPT ![c].pc = "reply",
           ![c].answer = IF req.tool = "get_checkpoint" THEN getCheckpoint(st, s)
                         ELSE renderGovernanceReport(st, s, req)]
      /\ UNCHANGED <<connected, limit>>

\* Mutant: a failed call keeps its slot.
Release_Answered(c) == limit' = IF call[c].answer.ok THEN limit - 1 ELSE limit

Release(c) == limit' = limit - 1

\* The answer is an error too when the call ended too late or its result is too
\* large; what it saved stays saved.
Reply(c) ==
  /\ call[c].pc = "reply"
  /\ call' = [call EXCEPT ![c] = NewCall]
  /\ Release(c)
  /\ UNCHANGED <<connected, state>>

-----------------------------------------------------------------------------

Step(c) == Compute(c) \/ Save(c) \/ Read(c) \/ Reply(c)

Next ==
  \/ \E s \in Sessions : Connect(s) \/ Disconnect(s)
  \/ \E c \in Calls : \/ \E s \in Sessions, req \in Requests : CallTool(c, s, req)
                      \/ \E s \in Sessions : Busy(c, s)
                      \/ Step(c)

Spec == Init /\ [][Next]_vars

-----------------------------------------------------------------------------
(* Properties *)

TypeOK ==
  /\ connected \subseteq Sessions
  /\ DOMAIN state \subseteq Sessions
  /\ limit \in 0 .. MaxConcurrent
  /\ \A s \in DOMAIN state :
       /\ state[s].checkpoint \in [text : Texts] \cup {None}
       /\ state[s].audit \in [ref : References] \cup {None}
       /\ state[s].order \in Seq(Hashes) /\ state[s].projects \subseteq Hashes
  /\ \A c \in Calls :
       /\ call[c].req \in Requests \cup {Malformed}
       /\ call[c].pc \in {"none", "compute", "save", "read", "reply"}

\* Server memory stays bounded although handlers of clients that left still save, and
\* the cache of project audits lists each revision it holds once, however often a
\* revision is audited again.
CachesBounded ==
  /\ Cardinality(DOMAIN state) <= MaxStates
  /\ \A s \in DOMAIN state :
       LET st == state[s]
       IN  /\ Range(st.order) = st.projects
           /\ Len(st.order) = Cardinality(st.projects)
           /\ Len(st.order) <= MaxAudits

\* A connected client loses its state only when there are more clients than the
\* server has room for, counting those that left with a call still running.
StateKept ==
  [][ \A s \in DOMAIN state \ DOMAIN state' :
        s \in connected =>
          Cardinality(connected \cup {call[c].session : c \in {d \in Calls : Running(d)}})
            > MaxStates ]_state

\* Slots are taken by running calls and by nothing else, whichever way calls end:
\* a slot that is not given back is lost for good.
SlotsMatchCalls == limit = Cardinality({c \in Calls : Running(c)})
=============================================================================
