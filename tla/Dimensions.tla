----------------------------- MODULE Dimensions -----------------------------
(***************************************************************************)
(* Versioned dimensions: PutProject and PutSource of repository.go, the    *)
(* reads of a version by time, and the outcomes dimensions.go reports.     *)
(* Both dimensions have the same statements: an identity row, the open     *)
(* version FOR UPDATE, and nothing, a refusal, or a closed and a new row.  *)
(* A serializable transaction that wins is one step; one that loses three  *)
(* times against others, or whose context ends, changes nothing.           *)
(***************************************************************************)
EXTENDS Naturals

CONSTANTS
  Identities,  \* ids of the projects or of the sources
  VersionIDs,  \* version ids callers choose: primary keys
  States,      \* what version_hash covers
  MaxTime,     \* bound: event times
  Open         \* valid_to IS NULL

Times == 0 .. MaxTime

ASSUME DimensionsAssumption == MaxTime \in Nat /\ Open \notin Nat

Versions == [ of : Identities, num : Nat \ {0}, id : VersionIDs, state : States,
              from : Times, to : Times \cup {Open} ]

VARIABLE versions    \* rows of project_versions and source_versions

DimensionsInit == versions = {}

Current(i) == {v \in versions : v.of = i /\ v.to = Open}

\* Mutant: a range includes its end.
Covers_Closed(v, t) == v.from <= t /\ (v.to = Open \/ t <= v.to)

\* Half-open ranges.
Covers(v, t) == v.from <= t /\ (v.to = Open \/ t < v.to)

\* CurrentProject, CurrentSource, ProjectAsOf, SourceAsOf: {} is ErrNotFound.
AsOf(i, t) == {v \in versions : v.of = i /\ Covers(v, t)}

-----------------------------------------------------------------------------
(* Writes *)

Row(i, num, id, state, at) ==
  [of |-> i, num |-> num, id |-> id, state |-> state, from |-> at, to |-> Open]

\* source_version_id and project_version_id are primary keys.
KeyFree(id) == \A v \in versions : v.id # id

FirstVersion(i, id, state, at) ==
  /\ Current(i) = {} /\ KeyFree(id)
  /\ versions' = versions \cup {Row(i, 1, id, state, at)}

SameVersion(i, state) ==
  /\ \E v \in Current(i) : v.state = state
  /\ UNCHANGED versions

LaterThan(at, v) == at > v.from

\* Mutant: the current version is changed in place.
NextVersion_Overwrite(i, id, state, at) ==
  /\ KeyFree(id)
  /\ \E v \in Current(i) :
       /\ v.state # state /\ LaterThan(at, v)
       /\ versions' = (versions \ {v}) \cup {[v EXCEPT !.state = state]}

NextVersion(i, id, state, at) ==
  /\ KeyFree(id)
  /\ \E v \in Current(i) :
       /\ v.state # state /\ LaterThan(at, v)
       /\ versions' = (versions \ {v}) \cup {[v EXCEPT !.to = at], Row(i, v.num + 1, id, state, at)}

\* ErrInvalidEffectiveTime, reported as late_or_out_of_order.
LateVersion(i, state, at) ==
  /\ \E v \in Current(i) : v.state # state /\ ~LaterThan(at, v)
  /\ UNCHANGED versions

\* repository_failure: the key is taken, or the transaction failed.
PutFails == UNCHANGED versions

PutVersion(i, id, state, at) ==
  \/ FirstVersion(i, id, state, at)
  \/ SameVersion(i, state)
  \/ NextVersion(i, id, state, at)
  \/ LateVersion(i, state, at)
  \/ PutFails

\* The specification of the dimension alone; an observation without event time is
\* quarantined before it gets here.
DimensionsNext == \E i \in Identities, id \in VersionIDs, s \in States, t \in Times : PutVersion(i, id, s, t)
DimensionsSpec == DimensionsInit /\ [][DimensionsNext]_versions

-----------------------------------------------------------------------------
(* Properties *)

DimensionsTypeOK == versions \in SUBSET Versions

\* docs/collector.md: ranges cannot overlap or produce several current rows.  Rows of
\* an identity are told apart by number, a range is not empty, the open one has the
\* highest number, and a later version starts no earlier than an earlier one ends.
RangesOrdered ==
  \A v, w \in versions :
    /\ v.to # Open => v.from < v.to
    /\ v.of = w.of /\ v.num = w.num => v = w
    /\ v.of = w.of /\ v.num < w.num => v.to # Open /\ v.to <= w.from

\* An identity that has versions has an open one: the next write starts from it.
HasCurrent == \A v \in versions : Current(v.of) # {}

\* A read of any time finds one version at most, and every time since the first
\* version has one: no write leaves a gap or an overlap.
AsOfDetermined ==
  \A i \in Identities, t \in Times :
    /\ \A v, w \in AsOf(i, t) : v = w
    /\ (\E v \in versions : v.of = i /\ v.from <= t) => AsOf(i, t) # {}

\* The inductive invariant.
DimensionsInv == DimensionsTypeOK /\ RangesOrdered /\ HasCurrent /\ AsOfDetermined

\* docs/collector.md: observations never rewrite history.  What a read of a time
\* found is found ever after, unless a version that starts at or before that time
\* came to replace the open one.
HistoryKept ==
  [][ \A i \in Identities, t \in Times :
        \A v \in AsOf(i, t) :
          \/ \E w \in AsOf(i, t)' : w = [v EXCEPT !.to = w.to]
          \/ /\ v.to = Open
             /\ \E w \in AsOf(i, t)' : w.num = v.num + 1 /\ w.from > v.from ]_versions
=============================================================================
