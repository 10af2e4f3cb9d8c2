-------------------------- MODULE McpServiceProofs --------------------------
(***************************************************************************)
(* Proofs about McpService for any clients, calls, requests and limits.    *)
(* The bounds of the caches need the order of a cache to list each         *)
(* revision once; those of the server count the calls and the clients, of  *)
(* which there are finitely many at any time.                              *)
(***************************************************************************)
EXTENDS McpService, FiniteSetTheorems, SequenceTheorems, TLAPS

Checkpoints == [text : Texts]
SessionAudits == [ref : References]

Caches == [ checkpoint : Checkpoints \cup {None}, audit : SessionAudits \cup {None},
            order : Seq(Hashes), projects : SUBSET Hashes ]

\* A cache lists each revision it holds once.
CacheInv(st) ==
  /\ \A i, j \in 1 .. Len(st.order) : st.order[i] = st.order[j] => i = j
  /\ Range(st.order) = st.projects
  /\ IsFiniteSet(st.projects) /\ Cardinality(st.projects) = Len(st.order)
  /\ Len(st.order) <= MaxAudits

\* What a client may be shown.
Answers ==
  {Error} \cup {Ok(x) : x \in {None} \cup Checkpoints \cup SessionAudits}

CallRecords ==
  [ pc : {"none", "compute", "save", "read", "reply"}, session : Sessions \cup {None},
    req : Requests \cup {Malformed}, result : Hashes \cup {None}, answer : Answers ]

CallOK(r) ==
  /\ r.pc # "none" => r.session \in Sessions /\ r.req \in Requests
  /\ r.pc \in {"compute", "save"} => r.req.tool \in CompileTools \cup AuditTools
  /\ r.pc = "save" /\ r.req.tool = "audit_project" => r.result \in Hashes
  /\ r.pc = "read" => r.req.tool \in {"get_checkpoint", "render_governance_report"}

CallsInv == call \in [Calls -> CallRecords] /\ \A c \in Calls : CallOK(call[c])

RunningCalls == {c \in Calls : Running(c)}

CountInv ==
  /\ connected \subseteq Sessions /\ IsFiniteSet(connected)
  /\ IsFiniteSet(RunningCalls) /\ limit = Cardinality(RunningCalls)

\* A well-formed map of sessions to their caches, within its bound.
StatesOK(st) ==
  /\ DOMAIN st \subseteq Sessions /\ IsFiniteSet(DOMAIN st) /\ Cardinality(DOMAIN st) <= MaxStates
  /\ \A x \in DOMAIN st : st[x] \in Caches /\ CacheInv(st[x])

ServiceInv == CallsInv /\ StatesOK(state) /\ CountInv

-----------------------------------------------------------------------------
(* Requests *)

\* A tool names the shape of its request.
LEMMA RequestShapes ==
  ASSUME NEW req \in Requests
  PROVE  /\ req.tool \in CompileTools => req \in CompileRequests
         /\ req.tool \in AuditTools => req \in AuditRequests
         /\ req.tool = "get_checkpoint" => req \in CheckpointRequests
         /\ req.tool = "render_governance_report" => req \in RenderRequests
         /\ req.tool \notin CompileTools \cup AuditTools /\ ~Refused(req)
              => req.tool \in {"get_checkpoint", "render_governance_report"}
<1>1. \/ req \in CompileRequests \/ req \in CheckpointRequests \/ req \in AuditRequests
      \/ req \in RenderRequests \/ req = Malformed
  BY McpAssumption
<1>2. req \in CompileRequests => req.tool \in CompileTools
  BY DEF CompileRequests
<1>3. req \in AuditRequests => req.tool \in AuditTools
  BY DEF AuditRequests
<1>4. req \in CheckpointRequests => req.tool = "get_checkpoint"
  BY DEF CheckpointRequests
<1>5. req \in RenderRequests => req.tool = "render_governance_report"
  BY DEF RenderRequests
<1>6. req = Malformed => req.tool = "malformed"
  BY DEF Malformed
<1>7. req.tool = "malformed" => Refused(req)
  BY DEF Refused
<1> QED
  BY <1>1, <1>2, <1>3, <1>4, <1>5, <1>6, <1>7 DEF CompileTools, AuditTools

\* The call as nobody has made it.
LEMMA NewCallTyped ==
  NewCall \in CallRecords /\ NewCall.pc = "none" /\ CallOK(NewCall)
<1>1. Error \in Answers
  BY DEF Answers
<1>2. NewCall \in CallRecords /\ NewCall.pc = "none"
  BY <1>1 DEF NewCall, CallRecords
<1> QED
  BY <1>2 DEF CallOK

-----------------------------------------------------------------------------
(* The caches *)

\* The state of a session that has none.
LEMMA NewStateInv ==
  NewState \in Caches /\ CacheInv(NewState)
<1>1. NewState \in Caches
  BY DEF NewState, Caches
<1>2. NewState.order = << >> /\ NewState.projects = {}
  BY DEF NewState
<1>3. Len(<< >>) = 0 /\ DOMAIN << >> = {}
  OBVIOUS
<1>4. Range(<< >>) = {}
  BY DEF Range
<1> QED
  BY <1>1, <1>2, <1>3, <1>4, FS_EmptySet, McpAssumption DEF CacheInv

\* The elements of a list, and a list of different ones of which the set holds them all.
Listed(o) == {o[i] : i \in 1 .. Len(o)}

Lists(o, p) ==
  /\ o \in Seq(Hashes) /\ p = Listed(o)
  /\ \A i, j \in 1 .. Len(o) : o[i] = o[j] => i = j
  /\ IsFiniteSet(p) /\ Cardinality(p) = Len(o)

\* A revision that is not in the list is added at its end.
LEMMA AppendListed ==
  ASSUME NEW o, NEW p, Lists(o, p), NEW h \in Hashes, h \notin p
  PROVE  Lists(Append(o, h), p \cup {h}) /\ Len(Append(o, h)) = Len(o) + 1
<1> DEFINE a == Append(o, h)
<1>1. o \in Seq(Hashes) /\ Len(o) \in Nat
  BY DEF Lists
<1>2. /\ a \in Seq(Hashes) /\ Len(a) = Len(o) + 1 /\ a[Len(o) + 1] = h
      /\ \A i \in 1 .. Len(o) : a[i] = o[i]
  BY <1>1
<1> HIDE DEF a
<1>3. \A i \in 1 .. Len(o) : o[i] # h
  BY DEF Lists, Listed
<1>4. \A i, j \in 1 .. Len(a) : a[i] = a[j] => i = j
  <2> SUFFICES ASSUME NEW i \in 1 .. Len(a), NEW j \in 1 .. Len(a), a[i] = a[j], i # j
               PROVE  FALSE
    OBVIOUS
  <2>1. (i \in 1 .. Len(o) \/ i = Len(o) + 1) /\ (j \in 1 .. Len(o) \/ j = Len(o) + 1)
    BY <1>1, <1>2
  <2> QED
    BY <1>2, <1>3, <2>1 DEF Lists
<1>5. p \cup {h} = Listed(a)
  <2>1. p = {o[i] : i \in 1 .. Len(o)}
    BY DEF Lists, Listed
  <2>2. ASSUME NEW i \in 1 .. Len(o)
        PROVE  o[i] \in Listed(a)
    <3>1. i \in 1 .. Len(a) /\ a[i] = o[i]
      BY <1>1, <1>2
    <3> QED
      BY <3>1 DEF Listed
  <2>3. h \in Listed(a)
    <3>1. Len(o) + 1 \in 1 .. Len(a)
      BY <1>1, <1>2
    <3> QED
      BY <1>2, <3>1 DEF Listed
  <2>4. ASSUME NEW i \in 1 .. Len(a)
        PROVE  a[i] \in p \cup {h}
    <3>1. i \in 1 .. Len(o) \/ i = Len(o) + 1
      BY <1>1, <1>2
    <3> QED
      BY <1>2, <2>1, <3>1
  <2>5. Listed(a) \subseteq p \cup {h}
    BY <2>4 DEF Listed
  <2> QED
    BY <2>1, <2>2, <2>3, <2>5
<1>6. IsFiniteSet(p \cup {h}) /\ Cardinality(p \cup {h}) = Len(a)
  <2>1. IsFiniteSet(p) /\ Cardinality(p) = Len(o)
    BY DEF Lists
  <2>2. IsFiniteSet(p \cup {h}) /\ Cardinality(p \cup {h}) = Cardinality(p) + 1
    BY <2>1, FS_AddElement
  <2> QED
    BY <1>2, <2>1, <2>2
<1>7. Lists(a, p \cup {h}) /\ Len(a) = Len(o) + 1
  BY <1>2, <1>4, <1>5, <1>6 DEF Lists
<1> QED
  BY <1>7 DEF a

\* The oldest revision leaves the list.
LEMMA TailListed ==
  ASSUME NEW o, NEW p, Lists(o, p), o # << >>
  PROVE  Lists(Tail(o), p \ {Head(o)}) /\ Len(Tail(o)) = Len(o) - 1
<1> DEFINE t == Tail(o)
           h == Head(o)
<1>1. o \in Seq(Hashes) /\ Len(o) \in Nat \ {0} /\ h = o[1]
  BY DEF Lists
<1>2. /\ t \in Seq(Hashes) /\ Len(t) = Len(o) - 1
      /\ \A i \in 1 .. Len(t) : t[i] = o[i + 1]
  BY <1>1
<1> HIDE DEF t, h
<1>3. \A i \in 1 .. Len(t) : i + 1 \in 1 .. Len(o) /\ i + 1 # 1
  BY <1>1, <1>2
<1>4. \A i, j \in 1 .. Len(t) : t[i] = t[j] => i = j
  <2> SUFFICES ASSUME NEW i \in 1 .. Len(t), NEW j \in 1 .. Len(t), t[i] = t[j]
               PROVE  i = j
    OBVIOUS
  <2>1. i + 1 = j + 1
    BY <1>2, <1>3 DEF Lists
  <2> QED
    BY <2>1
<1>5. 1 \in 1 .. Len(o)
  BY <1>1
<1>6. ASSUME NEW x \in p \ {h}
      PROVE  x \in Listed(t)
  <2>1. PICK k \in 1 .. Len(o) : x = o[k]
    BY <1>6 DEF Lists, Listed
  <2>2. k # 1
    BY <1>1, <1>6, <2>1
  <2>3. k - 1 \in 1 .. Len(t) /\ (k - 1) + 1 = k
    BY <1>1, <1>2, <2>2
  <2>4. t[k - 1] = o[k]
    BY <1>2, <2>3
  <2> QED
    BY <2>1, <2>3, <2>4 DEF Listed
<1>7. ASSUME NEW i \in 1 .. Len(t)
      PROVE  t[i] \in p \ {h}
  <2>1. t[i] = o[i + 1] /\ i + 1 \in 1 .. Len(o) /\ i + 1 # 1
    BY <1>2, <1>3
  <2>2. o[i + 1] # o[1]
    BY <1>5, <2>1 DEF Lists
  <2> QED
    BY <1>1, <2>1, <2>2 DEF Lists, Listed
<1>8. p \ {h} = Listed(t)
  BY <1>6, <1>7 DEF Listed
<1>9. h \in p
  BY <1>1, <1>5 DEF Lists, Listed
<1>10. IsFiniteSet(p \ {h}) /\ Cardinality(p \ {h}) = Len(t)
  BY <1>2, <1>9, FS_RemoveElement DEF Lists
<1>11. Lists(t, p \ {h}) /\ Len(t) = Len(o) - 1
  BY <1>2, <1>4, <1>8, <1>10 DEF Lists
<1> QED
  BY <1>11 DEF t, h

\* A revision that is cached again changes nothing; one that is new takes the place of
\* the oldest when there is no more room.
LEMMA RememberAuditInv ==
  ASSUME NEW st \in Caches, CacheInv(st), NEW h \in Hashes
  PROVE  RememberAudit(st, h) \in Caches /\ CacheInv(RememberAudit(st, h))
<1> DEFINE order == IF h \in st.projects THEN st.order ELSE Append(st.order, h)
           full == Len(order) > MaxAudits
           o == IF full THEN Tail(order) ELSE order
           p == (st.projects \cup {h}) \ (IF full THEN {Head(order)} ELSE {})
           new == RememberAudit(st, h)
<1>1. st.order \in Seq(Hashes) /\ st.projects \in SUBSET Hashes /\ Len(st.order) \in Nat /\ MaxAudits \in Nat \ {0}
  BY McpAssumption DEF Caches
<1>2. Lists(st.order, st.projects) /\ Len(st.order) <= MaxAudits
  BY <1>1 DEF CacheInv, Lists, Listed, Range
<1> HIDE DEF order
<1>3. Lists(order, st.projects \cup {h}) /\ Len(order) <= MaxAudits + 1
  <2>1. CASE h \in st.projects
    <3>1. order = st.order /\ st.projects \cup {h} = st.projects
      BY <2>1 DEF order
    <3>2. Lists(order, st.projects \cup {h})
      BY <1>2, <3>1
    <3> QED
      BY <1>1, <1>2, <3>1, <3>2
  <2>2. CASE h \notin st.projects
    <3>1. order = Append(st.order, h)
      BY <2>2 DEF order
    <3>2. Lists(Append(st.order, h), st.projects \cup {h}) /\ Len(Append(st.order, h)) = Len(st.order) + 1
      BY <1>2, <2>2, AppendListed
    <3> QED
      BY <1>1, <1>2, <3>1, <3>2
  <2> QED
    BY <2>1, <2>2
<1>4. Lists(o, p) /\ Len(o) <= MaxAudits
  <2>1. CASE full
    <3>1. order # << >> /\ Len(order) \in Nat
      BY <1>1, <1>3, <2>1 DEF Lists
    <3>2. Lists(Tail(order), (st.projects \cup {h}) \ {Head(order)}) /\ Len(Tail(order)) = Len(order) - 1
      BY <1>3, <3>1, TailListed
    <3> QED
      BY <1>1, <1>3, <2>1, <3>1, <3>2
  <2>2. CASE ~full
    <3>1. o = order /\ p = st.projects \cup {h} /\ Len(order) \in Nat
      BY <1>3, <2>2 DEF Lists
    <3> QED
      BY <1>1, <1>3, <2>2, <3>1
  <2> QED
    BY <2>1, <2>2
<1>5. new = [st EXCEPT !.order = o, !.projects = p]
  BY DEF RememberAudit, order
<1> HIDE DEF o, p, new
<1>6. o \in Seq(Hashes) /\ p \in SUBSET Hashes
  <2>1. o \in Seq(Hashes) /\ \A i \in 1 .. Len(o) : o[i] \in Hashes
    BY <1>4 DEF Lists
  <2> QED
    BY <1>4, <2>1 DEF Lists, Listed
<1>7. new \in Caches /\ new.order = o /\ new.projects = p
  BY <1>5, <1>6 DEF Caches
<1>8. CacheInv(new)
  <2>1. Range(o) = p
    <3>1. DOMAIN o = 1 .. Len(o)
      BY <1>6
    <3>2. p = {o[i] : i \in 1 .. Len(o)}
      BY <1>4 DEF Lists, Listed
    <3>3. Range(o) = {o[i] : i \in DOMAIN o}
      BY DEF Range
    <3> QED
      BY <3>1, <3>2, <3>3
  <2> QED
    BY <1>4, <1>7, <2>1 DEF CacheInv, Lists
<1> QED
  BY <1>7, <1>8 DEF new

-----------------------------------------------------------------------------
(* The state of sessions *)

\* Pruning only drops sessions.
LEMMA PruneKeeps ==
  ASSUME StatesOK(state)
  PROVE  /\ StatesOK(pruneDisconnectedLocked)
         /\ DOMAIN pruneDisconnectedLocked = IF connected = {} THEN DOMAIN state ELSE DOMAIN state \cap connected
<1> DEFINE p == pruneDisconnectedLocked
<1>1. /\ DOMAIN p = IF connected = {} THEN DOMAIN state ELSE DOMAIN state \cap connected
      /\ \A x \in DOMAIN p : x \in DOMAIN state /\ p[x] = state[x]
  BY DEF pruneDisconnectedLocked, Restrict
<1> HIDE DEF p
<1>2. DOMAIN p \in SUBSET DOMAIN state
  BY <1>1
<1>3. IsFiniteSet(DOMAIN p) /\ Cardinality(DOMAIN p) <= Cardinality(DOMAIN state)
  BY <1>2, FS_Subset DEF StatesOK
<1>4. Cardinality(DOMAIN p) \in Nat /\ Cardinality(DOMAIN state) \in Nat /\ MaxStates \in Nat
  BY <1>3, FS_CardinalityType, McpAssumption DEF StatesOK
<1>5. StatesOK(p)
  BY <1>1, <1>2, <1>3, <1>4 DEF StatesOK
<1> QED
  BY <1>1, <1>5 DEF p

\* A session finds its state, or a new one, and the map keeps its bound.
LEMMA SessionStateInv ==
  ASSUME StatesOK(state), NEW s \in Sessions
  PROVE  StatesOK(sessionStateLocked(s)) /\ s \in DOMAIN sessionStateLocked(s)
<1> DEFINE kept == pruneDisconnectedLocked
           fits == s \in DOMAIN kept \/ Cardinality(DOMAIN kept) < MaxStates
           room == IF fits THEN kept ELSE Restrict(kept, {})
           found == [x \in DOMAIN room \cup {s} |-> IF x \in DOMAIN room THEN room[x] ELSE NewState]
<1>1. StatesOK(kept)
  BY PruneKeeps
<1>2. found = sessionStateLocked(s)
  BY DEF sessionStateLocked
<1> HIDE DEF kept
<1>3. /\ DOMAIN room \subseteq Sessions
      /\ \A x \in DOMAIN room : room[x] \in Caches /\ CacheInv(room[x])
      /\ IsFiniteSet(DOMAIN room) /\ (s \in DOMAIN room \/ Cardinality(DOMAIN room) < MaxStates)
      /\ Cardinality(DOMAIN room) <= MaxStates
  <2>1. CASE fits
    BY <1>1, <2>1 DEF StatesOK
  <2>2. CASE ~fits
    <3>1. DOMAIN room = {}
      BY <2>2 DEF Restrict
    <3>2. IsFiniteSet({}) /\ Cardinality({}) = 0 /\ MaxStates \in Nat \ {0}
      BY FS_EmptySet, McpAssumption
    <3> QED
      BY <3>1, <3>2
  <2> QED
    BY <2>1, <2>2
<1> HIDE DEF room
<1>4. DOMAIN found = DOMAIN room \cup {s}
  OBVIOUS
<1>5. IsFiniteSet(DOMAIN found) /\ Cardinality(DOMAIN found) <= MaxStates
  <2>1. /\ IsFiniteSet(DOMAIN room \cup {s})
        /\ Cardinality(DOMAIN room \cup {s}) =
             IF s \in DOMAIN room THEN Cardinality(DOMAIN room) ELSE Cardinality(DOMAIN room) + 1
    BY <1>3, FS_AddElement
  <2>2. Cardinality(DOMAIN room) \in Nat /\ MaxStates \in Nat
    BY <1>3, FS_CardinalityType, McpAssumption
  <2> QED
    BY <1>3, <1>4, <2>1, <2>2
<1>6. \A x \in DOMAIN found : found[x] \in Caches /\ CacheInv(found[x])
  BY <1>3, <1>4, NewStateInv
<1>7. StatesOK(found) /\ s \in DOMAIN found
  BY <1>3, <1>4, <1>5, <1>6 DEF StatesOK
<1> QED
  BY <1>2, <1>7

\* What a call saves keeps the cache of its session in order.
LEMMA SavedInv ==
  ASSUME CallsInv, CountInv, NEW c \in Calls, call[c].pc = "save",
         NEW st \in Caches, CacheInv(st)
  PROVE  Saved(st, c) \in Caches /\ CacheInv(Saved(st, c))
<1> DEFINE req == call[c].req
<1>1. /\ req \in Requests /\ req.tool \in CompileTools \cup AuditTools
      /\ req.tool = "audit_project" => call[c].result \in Hashes
  BY DEF CallsInv, CallOK, CountInv
<1>2. CASE req.tool \in CompileTools
  <2>1. req \in CompileRequests
    BY <1>1, <1>2, RequestShapes
  <2>2. CheckpointText(req) \in Texts
    BY <1>2, <2>1 DEF CheckpointText, CompileRequests, CompileTools, Texts
  <2>3. Saved(st, c) = [st EXCEPT !.checkpoint = [text |-> CheckpointText(req)]]
    BY <1>2 DEF Saved, CompileTools
  <2>4. [text |-> CheckpointText(req)] \in Checkpoints
    BY <1>1, <2>2 DEF Checkpoints
  <2>5. Saved(st, c) \in Caches /\ Saved(st, c).order = st.order /\ Saved(st, c).projects = st.projects
    BY <2>3, <2>4 DEF Caches
  <2> QED
    BY <2>5 DEF CacheInv
<1>3. CASE req.tool = "audit_session"
  <2>1. req \in AuditRequests
    BY <1>1, <1>3, RequestShapes DEF AuditTools
  <2>2. [ref |-> req.ref] \in SessionAudits
    BY <1>1, <2>1 DEF SessionAudits, AuditRequests
  <2>3. Saved(st, c) = [st EXCEPT !.audit = [ref |-> req.ref]]
    BY <1>3 DEF Saved, CompileTools
  <2>4. Saved(st, c) \in Caches /\ Saved(st, c).order = st.order /\ Saved(st, c).projects = st.projects
    BY <2>2, <2>3 DEF Caches
  <2> QED
    BY <2>4 DEF CacheInv
<1>4. CASE req.tool = "audit_project"
  <2>1. Saved(st, c) = RememberAudit(st, call[c].result)
    BY <1>4 DEF Saved, CompileTools
  <2> QED
    BY <1>1, <1>4, <2>1, RememberAuditInv
<1> QED
  BY <1>1, <1>2, <1>3, <1>4 DEF AuditTools

-----------------------------------------------------------------------------
(* Calls *)

\* What is read is an answer, or none is found.
LEMMA ReadAnswer ==
  ASSUME NEW st, StatesOK(st), NEW s \in Sessions, NEW req \in Requests
  PROVE  /\ getCheckpoint(st, s) \in Answers
         /\ req.tool = "render_governance_report" => renderGovernanceReport(st, s, req) \in Answers
<1>0. ASSUME NEW found, found \subseteq Checkpoints \cup SessionAudits
      PROVE  (IF found = {} THEN Error ELSE Ok(CHOOSE c \in found : TRUE)) \in Answers
  <2>1. CASE found = {}
    BY <2>1 DEF Answers
  <2>2. CASE found # {}
    <3>1. (CHOOSE c \in found : TRUE) \in found
      BY <2>2
    <3>2. (CHOOSE c \in found : TRUE) \in Checkpoints \cup SessionAudits
      BY <1>0, <3>1
    <3> QED
      BY <2>2, <3>2 DEF Answers
  <2> QED
    BY <2>1, <2>2
<1>1. getCheckpoint(st, s) \in Answers
  <2>1. \A x \in DOMAIN st : st[x].checkpoint \in Checkpoints \cup {None}
    BY DEF StatesOK, Caches
  <2>2. {c \in FindCheckpoint(st, s) : Renderable(c)} \subseteq Checkpoints
    BY <2>1 DEF FindCheckpoint
  <2> QED
    BY <1>0, <2>2 DEF getCheckpoint
<1>2. ASSUME req.tool = "render_governance_report"
      PROVE  renderGovernanceReport(st, s, req) \in Answers
  <2>1. req.ref \in References /\ req.hash \in Hashes \cup {None}
    BY <1>2, RequestShapes DEF RenderRequests
  <2>2. \A x \in DOMAIN st : st[x].audit \in SessionAudits \cup {None}
    BY DEF StatesOK, Caches
  <2>3. FindAudit(st, s, req) \subseteq SessionAudits
    BY <2>2 DEF FindAudit
  <2>4. FindProject(st, s, req) \subseteq SessionAudits
    BY <2>1 DEF FindProject, SessionAudits
  <2> QED
    BY <1>0, <2>3, <2>4 DEF renderGovernanceReport
<1> QED
  BY <1>1, <1>2

\* One call changes.
LEMMA OneCall ==
  ASSUME CallsInv, NEW c \in Calls, call'[c] \in CallRecords, CallOK(call'[c]),
         NEW r, call' = [call EXCEPT ![c] = r]
  PROVE  CallsInv'
<1>1. call' \in [Calls -> CallRecords]
  BY DEF CallsInv
<1>2. \A d \in Calls : CallOK(call'[d])
  BY DEF CallsInv
<1> QED
  BY <1>1, <1>2 DEF CallsInv

\* A call that goes on counts as before.
LEMMA StillRunning ==
  ASSUME CallsInv, CountInv, NEW c \in Calls, Running(c), Running(c)',
         \A d \in Calls \ {c} : call'[d] = call[d], UNCHANGED <<connected, limit>>
  PROVE  CountInv'
<1>1. RunningCalls' = RunningCalls
  BY DEF RunningCalls, Running
<1> QED
  BY <1>1 DEF CountInv

\* Checks, limits, results and answers of one call: it goes on, or ends.
LEMMA CallsInvStep ==
  ASSUME ServiceInv, NEW c \in Calls,
         (\E s \in Sessions, req \in Requests : CallTool(c, s, req)) \/ Step(c)
  PROVE  CallsInv'
<1> USE DEF ServiceInv
<1>1. call[c] \in CallRecords /\ CallOK(call[c]) /\ call \in [Calls -> CallRecords]
  BY DEF CallsInv
<1>2. ASSUME NEW s \in Sessions, NEW req \in Requests, CallTool(c, s, req)
      PROVE  CallsInv'
  <2> DEFINE pc == IF Refused(req) THEN "reply"
                   ELSE IF req.tool \in CompileTools \cup AuditTools THEN "compute" ELSE "read"
             new == [NewCall EXCEPT !.session = s, !.req = req, !.pc = pc]
  <2>1. call' = [call EXCEPT ![c] = new]
    BY <1>2 DEF CallTool
  <2>2. Error \in Answers
    BY DEF Answers
  <2>3. pc \in {"compute", "read", "reply"} /\ (pc = "compute" => req.tool \in CompileTools \cup AuditTools)
        /\ (pc = "read" => req.tool \in {"get_checkpoint", "render_governance_report"})
    BY RequestShapes
  <2> HIDE DEF pc
  <2>4. /\ new.pc = pc /\ new.session = s /\ new.req = req /\ new.result = None /\ new.answer = Error
        /\ new \in CallRecords
    BY <2>2, <2>3 DEF NewCall, CallRecords
  <2> HIDE DEF new
  <2>5. CallOK(new)
    BY <2>2, <2>3, <2>4 DEF CallOK
  <2>6. call'[c] = new
    BY <1>1, <2>1
  <2> QED
    BY <2>1, <2>4, <2>5, <2>6, OneCall
<1>3. CASE Compute(c)
  <2>1. CASE call' = [call EXCEPT ![c].pc = "reply"]
    <3>1. /\ call'[c] \in CallRecords /\ call'[c].pc = "reply" /\ call'[c].session = call[c].session
          /\ call'[c].req = call[c].req /\ call'[c].answer = call[c].answer
      BY <1>1, <2>1 DEF CallRecords
    <3>2. CallOK(call'[c])
      BY <1>1, <1>3, <3>1 DEF CallOK, Compute
    <3> QED
      BY <2>1, <3>1, <3>2, OneCall
  <2>2. CASE call[c].req.tool # "audit_project" /\ call' = [call EXCEPT ![c].pc = "save"]
    <3>1. /\ call'[c] \in CallRecords /\ call'[c].pc = "save" /\ call'[c].session = call[c].session
          /\ call'[c].req = call[c].req /\ call'[c].answer = call[c].answer
      BY <1>1, <2>2 DEF CallRecords
    <3>2. CallOK(call'[c])
      BY <1>1, <1>3, <2>2, <3>1 DEF CallOK, Compute
    <3> QED
      BY <2>2, <3>1, <3>2, OneCall
  <2>3. ASSUME NEW h \in Hashes, call' = [call EXCEPT ![c].pc = "save", ![c].result = h]
        PROVE  CallsInv'
    <3>1. /\ call'[c] \in CallRecords /\ call'[c].pc = "save" /\ call'[c].session = call[c].session
          /\ call'[c].req = call[c].req /\ call'[c].answer = call[c].answer /\ call'[c].result = h
      BY <1>1, <2>3 DEF CallRecords
    <3>2. CallOK(call'[c])
      BY <1>1, <1>3, <2>3, <3>1 DEF CallOK, Compute
    <3>3. call' = [call EXCEPT ![c] = call'[c]]
      BY <1>1, <2>3
    <3> QED
      BY <3>1, <3>2, <3>3, OneCall
  <2> QED
    BY <1>3, <2>1, <2>2, <2>3 DEF Compute
<1>4. ASSUME NEW answer \in Answers, call[c].pc # "none",
             call' = [call EXCEPT ![c].pc = "reply", ![c].answer = answer]
      PROVE  CallsInv'
  <2>2. /\ call'[c] \in CallRecords /\ call'[c].pc = "reply" /\ call'[c].session = call[c].session
        /\ call'[c].req = call[c].req /\ call'[c].answer = answer
    BY <1>1, <1>4 DEF CallRecords
  <2>3. CallOK(call'[c])
    BY <1>1, <1>4, <2>2 DEF CallOK
  <2>4. call' = [call EXCEPT ![c] = call'[c]]
    BY <1>1, <1>4
  <2> QED
    BY <2>2, <2>3, <2>4, OneCall
<1>5. CASE Save(c)
  <2>1. Ok(None) \in Answers
    BY DEF Answers
  <2>2. call[c].pc # "none" /\ call' = [call EXCEPT ![c].pc = "reply", ![c].answer = Ok(None)]
    BY <1>5 DEF Save
  <2> QED
    BY <1>4, <2>1, <2>2
<1>6. CASE Read(c)
  <2> DEFINE req == call[c].req
             s == call[c].session
             st == pruneDisconnectedLocked
             answer == IF req.tool = "get_checkpoint" THEN getCheckpoint(st, s) ELSE renderGovernanceReport(st, s, req)
  <2>1. call[c].pc = "read" /\ call' = [call EXCEPT ![c].pc = "reply", ![c].answer = answer]
    BY <1>6 DEF Read
  <2>2. s \in Sessions /\ req \in Requests /\ req.tool \in {"get_checkpoint", "render_governance_report"}
    BY <1>1, <2>1 DEF CallOK
  <2>3. StatesOK(st)
    BY PruneKeeps
  <2>4. answer \in Answers
    BY <2>2, <2>3, ReadAnswer
  <2> QED
    BY <1>4, <2>1, <2>4
<1>7. CASE Reply(c)
  <2>1. call' = [call EXCEPT ![c] = NewCall]
    BY <1>7 DEF Reply
  <2>2. call'[c] = NewCall
    BY <1>1, <2>1
  <2> QED
    BY <2>1, <2>2, NewCallTyped, OneCall
<1> QED
  BY <1>2, <1>3, <1>5, <1>6, <1>7 DEF Step

\* Saving and reading keep the map within its bound and every cache in order.
LEMMA StatesStep ==
  ASSUME ServiceInv, NEW c \in Calls, Save(c) \/ Read(c)
  PROVE  StatesOK(state')
<1> USE DEF ServiceInv
<1>1. CASE Read(c)
  BY <1>1, PruneKeeps DEF Read
<1>2. CASE Save(c)
  <2> DEFINE s == call[c].session
             found == sessionStateLocked(s)
  <2>1. call[c].pc = "save" /\ state' = [found EXCEPT ![s] = Saved(found[s], c)]
    BY <1>2 DEF Save
  <2>2. s \in Sessions
    BY <2>1 DEF CallsInv, CallOK
  <2>3. StatesOK(found) /\ s \in DOMAIN found
    BY <2>2, SessionStateInv
  <2>4. Saved(found[s], c) \in Caches /\ CacheInv(Saved(found[s], c))
    BY <2>1, <2>3, SavedInv DEF StatesOK
  <2> HIDE DEF found
  <2>5. DOMAIN state' = DOMAIN found /\ \A x \in DOMAIN found : state'[x] = IF x = s THEN Saved(found[s], c) ELSE found[x]
    BY <2>1
  <2> QED
    BY <2>3, <2>4, <2>5 DEF StatesOK
<1> QED
  BY <1>1, <1>2

\* Every call is counted from its slot to its answer.
LEMMA CountStep ==
  ASSUME ServiceInv, Next
  PROVE  CountInv'
<1> USE DEF ServiceInv
<1>1. ASSUME NEW s \in Sessions, Connect(s) \/ Disconnect(s)
      PROVE  CountInv'
  <2>1. RunningCalls' = RunningCalls /\ limit' = limit /\ connected' \in {connected \cup {s}, connected \ {s}}
    BY <1>1 DEF Connect, Disconnect, RunningCalls, Running
  <2>2. IsFiniteSet(connected')
    BY <2>1, FS_AddElement, FS_RemoveElement DEF CountInv
  <2> QED
    BY <2>1, <2>2 DEF CountInv
<1>2. ASSUME NEW c \in Calls, NEW s \in Sessions, NEW req \in Requests, CallTool(c, s, req)
      PROVE  CountInv'
  <2>1. call[c].pc = "none" /\ call'[c].pc \in {"compute", "read", "reply"} /\ \A d \in Calls \ {c} : call'[d] = call[d]
    BY <1>2 DEF CallTool, NewCall, CallsInv
  <2>2. RunningCalls' = RunningCalls \cup {c} /\ c \notin RunningCalls
    BY <2>1 DEF RunningCalls, Running
  <2>3. IsFiniteSet(RunningCalls') /\ Cardinality(RunningCalls') = Cardinality(RunningCalls) + 1
    BY <2>2, FS_AddElement DEF CountInv
  <2>4. limit' = limit + 1 /\ UNCHANGED connected
    BY <1>2 DEF CallTool
  <2> QED
    BY <2>3, <2>4 DEF CountInv
<1>3. ASSUME NEW c \in Calls, Compute(c) \/ Save(c) \/ Read(c)
      PROVE  CountInv'
  <2>1. /\ call[c].pc \in {"compute", "save", "read"} /\ call'[c].pc \in {"save", "reply"}
        /\ \A d \in Calls \ {c} : call'[d] = call[d]
        /\ UNCHANGED <<connected, limit>>
    BY <1>3 DEF Compute, Save, Read, CallsInv, CallRecords
  <2> QED
    BY <2>1, StillRunning DEF Running
<1>4. ASSUME NEW c \in Calls, Reply(c)
      PROVE  CountInv'
  <2>1. call[c].pc = "reply" /\ call'[c].pc = "none" /\ \A d \in Calls \ {c} : call'[d] = call[d]
    BY <1>4, NewCallTyped DEF Reply, CallsInv
  <2>2. RunningCalls' = RunningCalls \ {c} /\ c \in RunningCalls
    BY <2>1 DEF RunningCalls, Running
  <2>3. IsFiniteSet(RunningCalls') /\ Cardinality(RunningCalls') = Cardinality(RunningCalls) - 1
    BY <2>2, FS_RemoveElement DEF CountInv
  <2>4. limit' = limit - 1 /\ UNCHANGED connected
    BY <1>4 DEF Reply, Release
  <2> QED
    BY <2>3, <2>4 DEF CountInv
<1>5. ASSUME UNCHANGED vars
      PROVE  CountInv'
  BY <1>5 DEF vars, CountInv, RunningCalls, Running
<1> QED
  BY <1>1, <1>2, <1>3, <1>4, <1>5 DEF Next, Step, Busy

-----------------------------------------------------------------------------
(* The theorems *)

\* Calls, caches and counts together, for clients that come, call and leave at any time.
THEOREM McpServiceInvariant == Spec => []ServiceInv
<1>1. Init => ServiceInv
  <2> SUFFICES ASSUME Init
               PROVE  ServiceInv
    OBVIOUS
  <2>1. \A c \in Calls : call[c] = NewCall
    BY DEF Init
  <2>2. CallsInv
    BY <2>1, NewCallTyped DEF Init, CallsInv
  <2>3. RunningCalls = {}
    BY <2>1, NewCallTyped DEF RunningCalls, Running
  <2>4. CountInv
    BY <2>3, FS_EmptySet DEF Init, CountInv
  <2>5. StatesOK(state)
    <3>1. DOMAIN state = {}
      BY DEF Init
    <3> QED
      BY <3>1, FS_EmptySet, McpAssumption DEF StatesOK
  <2> QED
    BY <2>2, <2>4, <2>5 DEF ServiceInv
<1>2. ServiceInv /\ [Next]_vars => ServiceInv'
  <2> SUFFICES ASSUME ServiceInv, [Next]_vars
               PROVE  ServiceInv'
    OBVIOUS
  <2>1. CASE UNCHANGED vars
    BY <2>1 DEF vars, ServiceInv, CallsInv, CountInv, RunningCalls, Running
  <2>2. CASE Next
    <3>1. CallsInv'
      <4>1. ASSUME UNCHANGED call
            PROVE  CallsInv'
        BY <4>1 DEF ServiceInv, CallsInv
      <4> QED
        BY <2>2, <4>1, CallsInvStep DEF Next, Connect, Disconnect, Busy, vars
    <3>2. StatesOK(state')
      <4>1. \A c \in Calls : Compute(c) \/ Reply(c) => state' = state
        BY DEF Compute, Reply
      <4>2. ASSUME UNCHANGED state
            PROVE  StatesOK(state')
        BY <4>2 DEF ServiceInv
      <4> QED
        BY <2>2, <4>1, <4>2, StatesStep DEF Next, Step, Connect, Disconnect, CallTool, Busy, vars
    <3> QED
      BY <2>2, <3>1, <3>2, CountStep DEF ServiceInv
  <2> QED
    BY <2>1, <2>2
<1> QED
  BY <1>1, <1>2, PTL DEF Spec

\* The memory of the server is bounded, and its caches name what they hold.
THEOREM McpCachesBounded == Spec => []CachesBounded
<1>1. ServiceInv => CachesBounded
  BY DEF ServiceInv, StatesOK, CacheInv, CachesBounded
<1> QED
  BY <1>1, McpServiceInvariant, PTL

\* No slot is lost, whichever way calls end.
THEOREM McpSlotsMatchCalls == Spec => []SlotsMatchCalls
<1>1. ServiceInv => SlotsMatchCalls
  BY DEF ServiceInv, CountInv, SlotsMatchCalls, RunningCalls
<1> QED
  BY <1>1, McpServiceInvariant, PTL

\* A session that loses its state to a save of another one.
LEMMA DroppedByOthers ==
  ASSUME ServiceInv, NEW c \in Calls, Save(c), NEW s \in DOMAIN state \ DOMAIN state', s \in connected
  PROVE  Cardinality(connected \cup {call[d].session : d \in RunningCalls}) > MaxStates
<1> DEFINE x == call[c].session
           kept == pruneDisconnectedLocked
           fits == x \in DOMAIN kept \/ Cardinality(DOMAIN kept) < MaxStates
           others == {call[d].session : d \in RunningCalls}
           all == connected \cup others
<1>1. call[c].pc = "save" /\ DOMAIN state' = DOMAIN sessionStateLocked(x)
  BY DEF Save
<1>2. StatesOK(kept) /\ DOMAIN kept = DOMAIN state \cap connected
  BY PruneKeeps DEF ServiceInv
<1>3. s \in DOMAIN kept
  BY <1>2
<1>4. fits => DOMAIN kept \subseteq DOMAIN sessionStateLocked(x)
  BY DEF sessionStateLocked
<1>5. x \notin DOMAIN kept /\ ~(Cardinality(DOMAIN kept) < MaxStates)
  BY <1>1, <1>3, <1>4
<1>6. IsFiniteSet(others)
  <2> DEFINE f == [d \in RunningCalls |-> call[d].session]
  <2>1. f \in Surjection(RunningCalls, others)
    BY DEF Surjection
  <2> QED
    BY <2>1, FS_Surjection DEF ServiceInv, CountInv
<1>7. IsFiniteSet(all)
  BY <1>6, FS_Union DEF ServiceInv, CountInv
<1>8. c \in RunningCalls /\ x \in others
  BY <1>1 DEF RunningCalls, Running
<1> HIDE DEF kept, others
<1>9. DOMAIN kept \cup {x} \in SUBSET all
  BY <1>2, <1>8
<1>10. Cardinality(DOMAIN kept \cup {x}) = Cardinality(DOMAIN kept) + 1
  BY <1>2, <1>5, FS_AddElement DEF StatesOK
<1>11. Cardinality(DOMAIN kept \cup {x}) <= Cardinality(all)
  BY <1>7, <1>9, FS_Subset
<1>12. Cardinality(DOMAIN kept) \in Nat /\ Cardinality(all) \in Nat /\ MaxStates \in Nat
  BY <1>2, <1>7, FS_CardinalityType, McpAssumption DEF StatesOK
<1> QED
  BY <1>5, <1>10, <1>11, <1>12 DEF others

\* A connected client loses its state only to more clients than there is room for.
THEOREM McpStateKept == Spec => StateKept
<1> DEFINE Kept == \A s \in DOMAIN state \ DOMAIN state' :
                     s \in connected =>
                       Cardinality(connected \cup {call[c].session : c \in {d \in Calls : Running(d)}}) > MaxStates
<1>1. ServiceInv /\ [Next]_vars => [Kept]_state
  <2> SUFFICES ASSUME ServiceInv, Next, NEW s \in DOMAIN state \ DOMAIN state', s \in connected
               PROVE  Cardinality(connected \cup {call[c].session : c \in RunningCalls}) > MaxStates
    BY DEF vars, RunningCalls
  <2>1. state' # state
    OBVIOUS
  <2>2. PICK c \in Calls : Save(c) \/ Read(c)
    BY <2>1 DEF Next, Step, Connect, Disconnect, CallTool, Busy, Compute, Reply, vars
  <2>3. CASE Read(c)
    <3>1. DOMAIN state' = DOMAIN state \cap connected
      BY <2>3, PruneKeeps DEF Read, ServiceInv
    <3> QED
      BY <3>1
  <2>4. CASE Save(c)
    BY <2>4, DroppedByOthers
  <2> QED
    BY <2>2, <2>3, <2>4
<1> QED
  BY <1>1, McpServiceInvariant, PTL DEF Spec, StateKept
=============================================================================
