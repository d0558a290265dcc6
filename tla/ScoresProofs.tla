----------------------------- MODULE ScoresProofs -----------------------------
(***************************************************************************)
(* Proofs about the Deal Score pass, for any number of sessions, listings, *)
(* versions and days: a stored score has one decomposition, a version      *)
(* keeps its weights, an earlier day keeps its scores, and a score is the  *)
(* number its factors give while sessions do not overlap.                  *)
(***************************************************************************)
EXTENDS Scores, TLAPS

(***************************************************************************)
(* The inductive invariant.  A session that is past ensure_weights works   *)
(* with the weights on record for its version, or holds the insertion of   *)
(* that version, which no other session holds and nobody has committed;    *)
(* what it has staged is of that version.                                  *)
(***************************************************************************)
TypesInv ==
    /\ release \in Release
    /\ score_weights \in [Versions -> Weightings \cup {Null}]
    /\ pc \in [Workers -> Places]
    /\ code \in [Workers -> Release \cup {Null}]
    /\ new_version \in [Workers -> BOOLEAN]
    /\ staged = [w \in Workers |-> staged[w]]

Version(w) == code[w].version

CodeInv(w) == pc[w] # "idle" => code[w] \in Release

FreshInv(w) ==
    pc[w] \in {"idle", "ensure", "insert"} => ~new_version[w] /\ DOMAIN staged[w] = {}

GuardInv(w) ==
    pc[w] \in {"list", "read", "find", "write"} =>
        new_version[w] \/ score_weights[Version(w)] = code[w].weights

NewInv(w) ==
    new_version[w] =>
        /\ score_weights[Version(w)] = Null
        /\ \A u \in Workers \ {w} : ~(new_version[u] /\ Version(u) = Version(w))

StagedInv(w) == \A k \in DOMAIN staged[w] : k[2] = Version(w)

SessionInv(w) == CodeInv(w) /\ FreshInv(w) /\ GuardInv(w) /\ NewInv(w) /\ StagedInv(w)

Inv == /\ TypesInv
       /\ \A w \in Workers : SessionInv(w)
       /\ OneDecomposition

-------------------------------------------------------------------------------
(***************************************************************************)
(* The tables of a freshly migrated database.                              *)
(***************************************************************************)
LEMMA InitInv == Init => Inv
  <1> SUFFICES ASSUME Init
               PROVE  Inv
    OBVIOUS
  <1>1. release \in Release
    BY ScoresAssumption DEF Init, Release, Versions
  <1>2. score_weights \in [Versions -> Weightings \cup {Null}]
    BY ScoresAssumption DEF Init
  <1>3. TypesInv
    BY <1>1, <1>2 DEF Init, TypesInv, Places
  <1>4. \A w \in Workers : DOMAIN staged[w] = {}
    BY DEF Init, None
  <1>5. \A w \in Workers : SessionInv(w)
    BY <1>4 DEF Init, SessionInv, CodeInv, FreshInv, GuardInv, NewInv, StagedInv
  <1>6. OneDecomposition
    BY DEF Init, OneDecomposition, Stored, None
  <1> QED
    BY <1>3, <1>5, <1>6 DEF Inv

(***************************************************************************)
(* A step of one session that leaves the tables alone, and neither begins  *)
(* nor ends it nor inserts the version, needs only be looked at for what   *)
(* it stages and where it goes.                                            *)
(***************************************************************************)
LEMMA WorkKeepsInv ==
    ASSUME Inv, NEW w \in Workers,
           NEW to \in {"list", "read", "find", "write"},
           pc[w] \in {"list", "read", "find", "write"},
           pc' = [pc EXCEPT ![w] = to],
           UNCHANGED <<release, tables, code, new_version>>,
           staged' = [staged EXCEPT ![w] = staged'[w]],
           StagedInv(w)'
    PROVE  Inv'
  <1>1. TypesInv'
    BY DEF Inv, TypesInv, tables, Places
  <1>2. ASSUME NEW u \in Workers
        PROVE  SessionInv(u)'
    <2>1. SessionInv(u)
      BY DEF Inv
    <2>2. CASE u = w
      BY <2>1, <2>2 DEF Inv, TypesInv, SessionInv, CodeInv, FreshInv, GuardInv, NewInv,
                        Version, tables
    <2>3. CASE u # w
      <3>1. pc'[u] = pc[u] /\ staged'[u] = staged[u]
        BY <2>3 DEF Inv, TypesInv
      <3> QED
        BY <2>1, <3>1 DEF SessionInv, CodeInv, FreshInv, GuardInv, NewInv, StagedInv,
                          Version, tables
    <2> QED
      BY <2>2, <2>3
  <1>3. OneDecomposition'
    BY DEF Inv, OneDecomposition, Stored, tables
  <1> QED
    BY <1>1, <1>2, <1>3 DEF Inv

(***************************************************************************)
(* A session that ends, in a commit or not, gives up what it held.         *)
(***************************************************************************)
LEMMA EndsKeepsSessions ==
    ASSUME Inv, NEW w \in Workers, Ends(w),
           \A u \in Workers \ {w} : GuardInv(u)' /\ NewInv(u)'
    PROVE  \A u \in Workers : SessionInv(u)'
  <1> SUFFICES ASSUME NEW u \in Workers
               PROVE  SessionInv(u)'
    OBVIOUS
  <1>1. SessionInv(u)
    BY DEF Inv
  <1>2. CASE u = w
    <2>1. pc'[u] = "idle" /\ ~new_version'[u] /\ staged'[u] = None
      BY <1>2 DEF Inv, TypesInv, Ends
    <2>2. DOMAIN staged'[u] = {}
      BY <2>1 DEF None
    <2> QED
      BY <2>1, <2>2 DEF SessionInv, CodeInv, FreshInv, GuardInv, NewInv, StagedInv
  <1>3. CASE u # w
    <2>1. /\ pc'[u] = pc[u]
          /\ code'[u] = code[u]
          /\ new_version'[u] = new_version[u]
          /\ staged'[u] = staged[u]
      BY <1>3 DEF Inv, TypesInv, Ends
    <2> QED
      BY <1>1, <1>3, <2>1 DEF SessionInv, CodeInv, FreshInv, StagedInv, Version
  <1> QED
    BY <1>2, <1>3

(***************************************************************************)
(* A session that ends leaves every variable in its set.                   *)
(***************************************************************************)
LEMMA EndsKeepsTypes ==
    ASSUME Inv, NEW w \in Workers, Ends(w),
           UNCHANGED release,
           score_weights' \in [Versions -> Weightings \cup {Null}]
    PROVE  TypesInv'
  BY DEF Inv, TypesInv, Ends, Places

(***************************************************************************)
(* A rollback, raised or by a crash, keeps the invariant.                  *)
(***************************************************************************)
LEMMA RollbackKeepsInv ==
    ASSUME Inv, NEW w \in Workers, Ends(w), UNCHANGED <<release, tables>>
    PROVE  Inv'
  <1>1. TypesInv'
    BY EndsKeepsTypes DEF Inv, TypesInv, tables
  <1>2. ASSUME NEW u \in Workers \ {w}
        PROVE  GuardInv(u)' /\ NewInv(u)'
    <2>1. /\ pc'[u] = pc[u]
          /\ code'[u] = code[u]
          /\ \A v \in Workers : new_version'[v] => new_version[v] /\ code'[v] = code[v]
          /\ new_version'[u] = new_version[u]
      BY DEF Inv, TypesInv, Ends
    <2>2. GuardInv(u) /\ NewInv(u)
      BY DEF Inv, SessionInv
    <2> QED
      BY <2>1, <2>2 DEF GuardInv, NewInv, Version, tables
  <1>3. \A u \in Workers : SessionInv(u)'
    BY <1>2, EndsKeepsSessions
  <1>4. OneDecomposition'
    BY DEF Inv, OneDecomposition, Stored, tables
  <1> QED
    BY <1>1, <1>3, <1>4 DEF Inv

-------------------------------------------------------------------------------
(***************************************************************************)
(* The commit publishes what is staged.                                    *)
(***************************************************************************)
LEMMA CommitVersions ==
    ASSUME Inv, NEW w \in Workers, Commit(w)
    PROVE  /\ score_weights' \in [Versions -> Weightings \cup {Null}]
           /\ score_weights'[Version(w)] = code[w].weights
           /\ code[w] \in Release
           /\ \A v \in Versions : score_weights[v] # Null
                => score_weights'[v] = score_weights[v]
           /\ \A v \in Versions : v # Version(w) => score_weights'[v] = score_weights[v]
           /\ ~new_version[w] => score_weights' = score_weights
  <1>1. code[w] \in Release
    BY DEF Commit, Inv, SessionInv, CodeInv
  <1>2. code[w].version \in Versions /\ code[w].weights \in Weightings
    BY <1>1 DEF Release
  <1>3. CASE new_version[w]
    <2>1. score_weights' = [score_weights EXCEPT ![code[w].version] = code[w].weights]
      BY <1>3 DEF Commit
    <2>2. score_weights[Version(w)] = Null
      BY <1>3 DEF Inv, SessionInv, NewInv
    <2> QED
      BY <1>1, <1>2, <1>3, <2>1, <2>2 DEF Inv, TypesInv, Version
  <1>4. CASE ~new_version[w]
    <2>1. score_weights' = score_weights
      BY <1>4 DEF Commit
    <2>2. score_weights[Version(w)] = code[w].weights
      BY <1>4 DEF Inv, SessionInv, GuardInv, Commit
    <2> QED
      BY <1>1, <1>4, <2>1, <2>2 DEF Inv, TypesInv
  <1> QED
    BY <1>3, <1>4

(***************************************************************************)
(* The commit keeps the invariant: nobody else holds the version it        *)
(* inserts, and nobody else's guard read another set of weights.           *)
(***************************************************************************)
LEMMA CommitKeepsInv ==
    ASSUME Inv, NEW w \in Workers, Commit(w)
    PROVE  Inv'
  <1>1. Ends(w) /\ UNCHANGED release
    BY DEF Commit, world
  <1>2. TypesInv'
    BY <1>1, CommitVersions, EndsKeepsTypes
  <1>3. ASSUME NEW u \in Workers \ {w}
        PROVE  GuardInv(u)' /\ NewInv(u)'
    <2>1. /\ pc'[u] = pc[u]
          /\ code'[u] = code[u]
          /\ \A v \in Workers : new_version'[v] => new_version[v] /\ code'[v] = code[v]
          /\ new_version'[u] = new_version[u]
      BY <1>1 DEF Inv, TypesInv, Ends
    <2>2. GuardInv(u) /\ NewInv(u) /\ NewInv(w) /\ CodeInv(u)
      BY DEF Inv, SessionInv
    <2>3. GuardInv(u)'
      <3> SUFFICES ASSUME pc[u] \in {"list", "read", "find", "write"}, ~new_version[u]
                   PROVE  score_weights'[Version(u)] = code[u].weights
        BY <2>1 DEF GuardInv, Version
      <3>1. score_weights[Version(u)] = code[u].weights
        BY <2>2 DEF GuardInv
      <3>2. code[u] \in Release
        BY <2>2 DEF CodeInv
      <3>3. Version(u) \in Versions /\ code[u].weights # Null
        BY <3>2, ScoresAssumption DEF Release, Version
      <3> QED
        BY <3>1, <3>3, CommitVersions
    <2>4. NewInv(u)'
      <3> SUFFICES ASSUME new_version[u]
                   PROVE  score_weights'[Version(u)] = Null
        BY <2>1, <2>2 DEF NewInv, Version
      <3>1. score_weights[Version(u)] = Null
        BY <2>2 DEF NewInv
      <3>2. CASE new_version[w]
        <4>1. Version(u) # Version(w)
          BY <2>2, <3>2 DEF NewInv
        <4>2. pc[u] # "idle"
          BY DEF Inv, SessionInv, FreshInv
        <4>3. Version(u) \in Versions
          BY <2>2, <4>2 DEF CodeInv, Release, Version
        <4> QED
          BY <3>1, <4>1, <4>3, CommitVersions
      <3>3. CASE ~new_version[w]
        BY <3>1, <3>3, CommitVersions
      <3> QED
        BY <3>2, <3>3
    <2> QED
      BY <2>3, <2>4
  <1>4. \A u \in Workers : SessionInv(u)'
    BY <1>1, <1>3, EndsKeepsSessions
  <1>5. OneDecomposition'
    <2> SUFFICES ASSUME NEW k \in Keys
                 PROVE  /\ Len(score_factors'[k]) = IF k \in Stored' THEN 1 ELSE 0
                        /\ k \in Stored' => score_weights'[k[2]] # Null
      BY DEF OneDecomposition
    <2>1. Stored' = Stored \cup DOMAIN staged[w]
      BY DEF Commit, Stored
    <2>2. CASE k \in DOMAIN staged[w]
      <3>1. score_factors'[k] = Append(<<>>, staged[w][k].factors)
        BY <2>2 DEF Commit, Holds, Kept
      <3>2. Len(score_factors'[k]) = 1
        BY <3>1
      <3>3. k[2] = Version(w)
        BY <2>2 DEF Inv, SessionInv, StagedInv
      <3>4. code[w].weights # Null
        BY CommitVersions, ScoresAssumption DEF Release
      <3> QED
        BY <2>1, <2>2, <3>2, <3>3, <3>4, CommitVersions
    <2>3. CASE k \notin DOMAIN staged[w]
      <3>1. score_factors'[k] = score_factors[k]
        BY <2>3 DEF Commit, Holds, Kept
      <3>2. k[2] \in Versions
        BY DEF Keys
      <3> QED
        BY <2>1, <2>3, <3>1, <3>2, CommitVersions DEF Inv, OneDecomposition
    <2> QED
      BY <2>2, <2>3
  <1> QED
    BY <1>2, <1>4, <1>5 DEF Inv

-------------------------------------------------------------------------------
(***************************************************************************)
(* Every step keeps the invariant.                                         *)
(***************************************************************************)
LEMMA StartKeepsInv ==
    ASSUME Inv, NEW w \in Workers, Start(w)
    PROVE  Inv'
  <1>1. /\ pc' = [pc EXCEPT ![w] = "ensure"]
        /\ code' = [code EXCEPT ![w] = release]
        /\ UNCHANGED <<release, tables, staged, new_version>>
    BY DEF Start, world
  <1>2. TypesInv'
    BY <1>1 DEF Inv, TypesInv, Places, tables
  <1>3. ~new_version[w] /\ DOMAIN staged[w] = {}
    BY DEF Start, Inv, SessionInv, FreshInv
  <1>4. ASSUME NEW u \in Workers
        PROVE  SessionInv(u)'
    <2>1. SessionInv(u)
      BY DEF Inv
    <2>2. CASE u = w
      BY <1>1, <1>3, <2>2 DEF Inv, TypesInv, SessionInv, CodeInv, FreshInv, GuardInv,
                              NewInv, StagedInv
    <2>3. CASE u # w
      <3>1. pc'[u] = pc[u] /\ code'[u] = code[u]
        BY <1>1, <2>3 DEF Inv, TypesInv
      <3>2. \A v \in Workers : new_version[v] => code'[v] = code[v]
        BY <1>1, <1>3 DEF Inv, TypesInv
      <3> QED
        BY <1>1, <2>1, <3>1, <3>2 DEF SessionInv, CodeInv, FreshInv, GuardInv, NewInv,
                                      StagedInv, Version, tables
    <2> QED
      BY <2>2, <2>3
  <1>5. OneDecomposition'
    BY <1>1 DEF Inv, OneDecomposition, Stored, tables
  <1> QED
    BY <1>2, <1>4, <1>5 DEF Inv

(***************************************************************************)
(* ensure_weights either raises, or finds the weights of its own release,  *)
(* or goes on to insert them.                                              *)
(***************************************************************************)
LEMMA EnsureKeepsInv ==
    ASSUME Inv, NEW w \in Workers, Ensure(w)
    PROVE  Inv'
  <1>1. CASE Raise(w)
    BY <1>1, RollbackKeepsInv DEF Raise, world
  <1>2. CASE /\ pc' \in {[pc EXCEPT ![w] = "insert"], [pc EXCEPT ![w] = "list"]}
             /\ pc'[w] = "list" => score_weights[code[w].version] = code[w].weights
             /\ UNCHANGED <<world, tables, code, staged, new_version>>
    <2>1. TypesInv'
      BY <1>2 DEF Inv, TypesInv, Places, tables, world
    <2>2. ASSUME NEW u \in Workers
          PROVE  SessionInv(u)'
      <3>1. SessionInv(u)
        BY DEF Inv
      <3>2. CASE u = w
        BY <1>2, <3>1, <3>2 DEF Ensure, Inv, TypesInv, SessionInv, CodeInv, FreshInv, GuardInv,
                                NewInv, StagedInv, Version, tables
      <3>3. CASE u # w
        <4>1. pc'[u] = pc[u]
          BY <1>2, <3>3 DEF Inv, TypesInv
        <4> QED
          BY <1>2, <3>1, <4>1 DEF SessionInv, CodeInv, FreshInv, GuardInv, NewInv,
                                  StagedInv, Version, tables
      <3> QED
        BY <3>2, <3>3
    <2>3. OneDecomposition'
      BY <1>2 DEF Inv, OneDecomposition, Stored, tables
    <2> QED
      BY <2>1, <2>2, <2>3 DEF Inv
  <1>3. pc[w] = "ensure" /\ pc \in [Workers -> Places]
    BY DEF Ensure, Inv, TypesInv
  <1> QED
    BY <1>1, <1>2, <1>3 DEF Ensure, Drifts

(***************************************************************************)
(* The insertion goes through only where nobody else has inserted.         *)
(***************************************************************************)
LEMMA InsertKeepsInv ==
    ASSUME Inv, NEW w \in Workers, InsertVersion(w)
    PROVE  Inv'
  <1>1. CASE Raise(w)
    BY <1>1, RollbackKeepsInv DEF Raise, world
  <1>2. CASE /\ score_weights[code[w].version] = Null
             /\ new_version' = [new_version EXCEPT ![w] = TRUE]
             /\ pc' = [pc EXCEPT ![w] = "list"]
             /\ UNCHANGED <<world, tables, code, staged>>
    <2>1. TypesInv'
      BY <1>2 DEF Inv, TypesInv, Places, tables, world
    <2>2. \A u \in Workers \ {w} : ~(new_version[u] /\ Version(u) = Version(w))
      BY DEF InsertVersion, Version
    <2>3. ASSUME NEW u \in Workers
          PROVE  SessionInv(u)'
      <3>1. SessionInv(u)
        BY DEF Inv
      <3>2. CASE u = w
        <4>1. \A v \in Workers \ {w} : new_version'[v] = new_version[v]
          BY <1>2 DEF Inv, TypesInv
        <4> QED
          BY <1>2, <2>2, <3>1, <3>2, <4>1
             DEF InsertVersion, Inv, TypesInv, SessionInv, CodeInv, FreshInv, GuardInv, NewInv,
                 StagedInv, Version, tables
      <3>3. CASE u # w
        <4>1. /\ pc'[u] = pc[u]
              /\ \A v \in Workers \ {w} : new_version'[v] = new_version[v]
          BY <1>2, <3>3 DEF Inv, TypesInv
        <4>2. CodeInv(u)' /\ FreshInv(u)' /\ GuardInv(u)' /\ StagedInv(u)'
          BY <1>2, <3>1, <3>3, <4>1 DEF SessionInv, CodeInv, FreshInv, GuardInv,
                                        StagedInv, Version, tables
        <4>3. NewInv(u)'
          BY <1>2, <2>2, <3>1, <3>3, <4>1 DEF SessionInv, NewInv, Version, tables
        <4> QED
          BY <4>2, <4>3 DEF SessionInv
      <3> QED
        BY <3>2, <3>3
    <2>4. OneDecomposition'
      BY <1>2 DEF Inv, OneDecomposition, Stored, tables
    <2> QED
      BY <2>1, <2>3, <2>4 DEF Inv
  <1> QED
    BY <1>1, <1>2 DEF InsertVersion

(***************************************************************************)
(* The queries of a session stage nothing.                                 *)
(***************************************************************************)
LEMMA ReadsKeepInv ==
    ASSUME Inv, NEW w \in Workers, NEW l \in Ids,
           ListLive(w) \/ ReadFactor(w) \/ Skip(w, l) \/ Find(w, l)
    PROVE  Inv'
  <1>1. pc \in [Workers -> Places] /\ StagedInv(w) /\ staged = [v \in Workers |-> staged[v]]
    BY DEF Inv, TypesInv, SessionInv
  <1>2. /\ pc[w] \in {"list", "read", "find"}
        /\ \E to \in {"list", "read", "find", "write"} : pc' = [pc EXCEPT ![w] = to]
        /\ UNCHANGED <<release, tables, code, new_version, staged>>
    <2>1. CASE ListLive(w)
      BY <2>1 DEF ListLive, world
    <2>2. CASE ReadFactor(w)
      BY <1>1, <2>2 DEF ReadFactor, world
    <2>3. CASE Skip(w, l)
      BY <1>1, <2>3 DEF Skip, world
    <2>4. CASE Find(w, l)
      BY <2>4 DEF Find, world
    <2> QED
      BY <2>1, <2>2, <2>3, <2>4
  <1>3. StagedInv(w)'
    BY <1>1, <1>2 DEF StagedInv, Version
  <1>4. staged' = [staged EXCEPT ![w] = staged'[w]]
    BY <1>1, <1>2
  <1> QED
    BY <1>2, <1>3, <1>4, WorkKeepsInv

(***************************************************************************)
(* A flush stages one score, under the session's own version.              *)
(***************************************************************************)
LEMMA WriteKeepsInv ==
    ASSUME Inv, NEW w \in Workers, Write(w)
    PROVE  Inv'
  <1> DEFINE k == Key(w, at[w])
             found == Found(w, at[w])
             Flushed(row) == [j \in DOMAIN staged[w] \cup {k} |->
                                IF j = k THEN [row |-> row, factors |-> found]
                                         ELSE staged[w][j]]
  <1>1. CASE Raise(w)
    BY <1>1, RollbackKeepsInv DEF Raise, world
  <1>2. CASE ~Raise(w)
    <2>1. /\ pc[w] = "write"
          /\ pc' = [pc EXCEPT ![w] = "find"]
          /\ UNCHANGED <<release, tables, code, new_version>>
      BY <1>2 DEF Write, world
    <2>2. PICK row : staged' = [staged EXCEPT ![w] = Flushed(row)]
      BY <1>2 DEF Write
    <2>3. staged'[w] = Flushed(row) /\ staged' = [staged EXCEPT ![w] = staged'[w]]
      <3> HIDE DEF Flushed
      <3> QED
        BY <2>2 DEF Inv, TypesInv
    <2>4. DOMAIN staged'[w] = DOMAIN staged[w] \cup {k}
      BY <2>3
    <2>5. k[2] = Version(w)
      BY DEF Key, Version
    <2>6. StagedInv(w)'
      <3>1. StagedInv(w)
        BY DEF Inv, SessionInv
      <3> QED
        BY <2>1, <2>4, <2>5, <3>1 DEF StagedInv, Version
    <2> HIDE DEF Flushed, k, found
    <2> QED
      BY <2>1, <2>3, <2>6, WorkKeepsInv
  <1> QED
    BY <1>1, <1>2

(***************************************************************************)
(* A day, a release or an edit touches no session and no table of scores.  *)
(***************************************************************************)
LEMMA WorldKeepsInv ==
    ASSUME Inv, release' \in Release, UNCHANGED <<tables, session>>
    PROVE  Inv'
  BY DEF Inv, TypesInv, SessionInv, CodeInv, FreshInv, GuardInv, NewInv, StagedInv,
         OneDecomposition, Stored, Version, tables, session

(***************************************************************************)
(* Every step keeps the invariant.                                         *)
(***************************************************************************)
LEMMA NextKeepsInv == Inv /\ [Next]_vars => Inv'
  <1> SUFFICES ASSUME Inv, [Next]_vars
               PROVE  Inv'
    OBVIOUS
  <1>1. release \in Release
    BY DEF Inv, TypesInv
  <1>2. CASE NewDay
    BY <1>1, <1>2, WorldKeepsInv DEF NewDay
  <1>3. CASE Deploy
    BY <1>3, WorldKeepsInv DEF Deploy
  <1>4. ASSUME NEW l \in Ids, Change(l)
        PROVE  Inv'
    BY <1>1, <1>4, WorldKeepsInv DEF Change
  <1>5. CASE UNCHANGED vars
    BY <1>1, <1>5, WorldKeepsInv DEF vars, world
  <1>6. ASSUME NEW w \in Workers, Start(w)
        PROVE  Inv'
    BY <1>6, StartKeepsInv
  <1>7. ASSUME NEW w \in Workers, Crash(w)
        PROVE  Inv'
    BY <1>7, RollbackKeepsInv DEF Crash, world
  <1>8. ASSUME NEW w \in Workers, Advance(w)
        PROVE  Inv'
    <2>1. CASE Ensure(w)
      BY <2>1, EnsureKeepsInv
    <2>2. CASE InsertVersion(w)
      BY <2>2, InsertKeepsInv
    <2>3. CASE ListLive(w) \/ ReadFactor(w)
      <3>1. pc \in [Workers -> Places] /\ staged = [v \in Workers |-> staged[v]] /\ StagedInv(w)
        BY DEF Inv, TypesInv, SessionInv
      <3>2. /\ pc[w] \in {"list", "read"}
            /\ \E to \in {"read", "find"} : pc' = [pc EXCEPT ![w] = to]
            /\ UNCHANGED <<release, tables, code, new_version, staged>>
        <4>1. CASE ListLive(w)
          BY <4>1 DEF ListLive, world
        <4>2. CASE ReadFactor(w)
          BY <3>1, <4>2 DEF ReadFactor, world
        <4> QED
          BY <2>3, <4>1, <4>2
      <3>3. StagedInv(w)' /\ staged' = [staged EXCEPT ![w] = staged'[w]]
        BY <3>1, <3>2 DEF StagedInv, Version
      <3> QED
        BY <3>2, <3>3, WorkKeepsInv
    <2>4. ASSUME NEW l \in Ids, Skip(w, l) \/ Find(w, l)
          PROVE  Inv'
      BY <2>4, ReadsKeepInv
    <2>5. CASE Write(w)
      BY <2>5, WriteKeepsInv
    <2>6. CASE Commit(w)
      BY <2>6, CommitKeepsInv
    <2>7. CASE Deadlock(w)
      BY <2>7, RollbackKeepsInv DEF Deadlock, Raise, world
    <2> QED
      BY <1>8, <2>1, <2>2, <2>3, <2>4, <2>5, <2>6, <2>7 DEF Advance
  <1> QED
    BY <1>2, <1>3, <1>4, <1>5, <1>6, <1>7, <1>8 DEF Next

(***************************************************************************)
(* The invariant holds at every moment of the scoring pass.                *)
(***************************************************************************)
THEOREM InvHolds == Spec => []Inv
  BY InitInv, NextKeepsInv, PTL DEF Spec

-------------------------------------------------------------------------------
(***************************************************************************)
(* "Every score decomposes": each stored score has one decomposition, and  *)
(* its version's weights are on record.                                    *)
(***************************************************************************)
THEOREM DecompositionHolds == Spec => []OneDecomposition
  <1>1. Inv => OneDecomposition
    BY DEF Inv
  <1> QED
    BY <1>1, InvHolds, PTL

(***************************************************************************)
(* "Weights are never edited in place": no interleaving of releases that   *)
(* disagree makes a version lose the weights it was stored with.           *)
(***************************************************************************)
THEOREM VersionsHold == Spec => VersionsFixed
  <1> DEFINE Keeps == \A v \in Versions : score_weights[v] # Null
                        => score_weights'[v] = score_weights[v]
  <1>1. Inv /\ [Next]_vars => [Keeps]_vars
    <2> SUFFICES ASSUME Inv, Next
                 PROVE  Keeps
      OBVIOUS
    <2>1. ASSUME NEW w \in Workers, Commit(w)
          PROVE  Keeps
      BY <2>1, CommitVersions
    <2>2. ASSUME NEW w \in Workers, Advance(w), ~Commit(w)
          PROVE  UNCHANGED tables
      BY <2>2 DEF Advance, Ensure, InsertVersion, ListLive, ReadFactor, Skip, Find, Write,
                  Deadlock, Raise
    <2>3. ASSUME NewDay \/ Deploy \/ (\E l \in Ids : Change(l))
                 \/ (\E w \in Workers : Start(w) \/ Crash(w))
          PROVE  UNCHANGED tables
      BY <2>3 DEF NewDay, Deploy, Change, Start, Crash
    <2> QED
      BY <2>1, <2>2, <2>3 DEF Next, tables
  <1> QED
    BY <1>1, InvHolds, PTL DEF Spec, VersionsFixed

-------------------------------------------------------------------------------
(***************************************************************************)
(* The days of the scores.  A session takes its date before it looks for   *)
(* its first row, and whatever it stages is of that date.                  *)
(***************************************************************************)
Shapes ==
    /\ day \in Days
    /\ date = [w \in Workers |-> date[w]]
    /\ todo \in [Workers -> SUBSET Ids]
    /\ live \subseteq Ids
    /\ at = [w \in Workers |-> at[w]]
    /\ view = [w \in Workers |-> view[w]]
    /\ Stored \subseteq Keys

DatedInv(w) ==
    /\ pc[w] \in {"idle", "ensure", "insert", "list", "read"} => DOMAIN staged[w] = {}
    /\ pc[w] \in {"find", "write"} => date[w] \in Days
    /\ pc[w] = "write" => at[w] \in Ids
    /\ DOMAIN staged[w] \subseteq Keys
    /\ \A k \in DOMAIN staged[w] : k[3] = date[w]

Dated == Shapes /\ \A w \in Workers : DatedInv(w)

(***************************************************************************)
(* What a step of one session leaves to another.                           *)
(***************************************************************************)
LeftTo(u) ==
    /\ pc'[u] = pc[u] /\ code'[u] = code[u] /\ date'[u] = date[u]
    /\ at'[u] = at[u] /\ view'[u] = view[u] /\ staged'[u] = staged[u]

Works(w) == Start(w) \/ Advance(w) \/ Crash(w)

(***************************************************************************)
(* A session's variables are functions of the session at every moment, and *)
(* no step of another changes them.                                        *)
(***************************************************************************)
LEMMA EndsAlone ==
    ASSUME Inv, Shapes, NEW w \in Workers, Ends(w)
    PROVE  /\ date' = [v \in Workers |-> date'[v]]
           /\ todo' \in [Workers -> SUBSET Ids]
           /\ at' = [v \in Workers |-> at'[v]]
           /\ view' = [v \in Workers |-> view'[v]]
           /\ pc'[w] = "idle" /\ DOMAIN staged'[w] = {}
           /\ \A u \in Workers \ {w} : LeftTo(u)
  <1>1. /\ date' = [v \in Workers |-> date'[v]]
        /\ todo' \in [Workers -> SUBSET Ids]
        /\ at' = [v \in Workers |-> at'[v]]
        /\ view' = [v \in Workers |-> view'[v]]
    BY DEF Shapes, Ends
  <1>2. pc'[w] = "idle" /\ staged'[w] = None
    BY DEF Inv, TypesInv, Ends
  <1>3. DOMAIN staged'[w] = {}
    BY <1>2 DEF None
  <1>4. \A u \in Workers \ {w} : LeftTo(u)
    BY DEF Inv, TypesInv, Shapes, Ends, LeftTo
  <1> QED
    BY <1>1, <1>2, <1>3, <1>4

LEMMA AloneInStep ==
    ASSUME Inv, Dated, NEW w \in Workers, Works(w)
    PROVE  /\ date' = [v \in Workers |-> date'[v]]
           /\ todo' \in [Workers -> SUBSET Ids]
           /\ at' = [v \in Workers |-> at'[v]]
           /\ view' = [v \in Workers |-> view'[v]]
           /\ UNCHANGED world
           /\ \A u \in Workers \ {w} : LeftTo(u)
  <1>1. CASE Ends(w) /\ UNCHANGED world
    BY <1>1, EndsAlone DEF Dated
  <1>2. CASE Start(w)
    BY <1>2 DEF Start, Inv, TypesInv, Dated, Shapes, LeftTo
  <1>3. CASE ~Ends(w) /\ (Ensure(w) \/ InsertVersion(w))
    BY <1>3 DEF Ensure, InsertVersion, Raise, Inv, TypesInv, Dated, Shapes, LeftTo
  <1>4. CASE ListLive(w)
    BY <1>4 DEF ListLive, Inv, TypesInv, Dated, Shapes, LeftTo
  <1>5. CASE ReadFactor(w)
    BY <1>5 DEF ReadFactor, Inv, TypesInv, Dated, Shapes, LeftTo
  <1>6. ASSUME NEW l \in Ids, Skip(w, l) \/ Find(w, l)
        PROVE  /\ date' = [v \in Workers |-> date'[v]]
               /\ todo' \in [Workers -> SUBSET Ids]
               /\ at' = [v \in Workers |-> at'[v]]
               /\ view' = [v \in Workers |-> view'[v]]
               /\ UNCHANGED world
               /\ \A u \in Workers \ {w} : LeftTo(u)
    BY <1>6 DEF Skip, Find, Inv, TypesInv, Dated, Shapes, LeftTo
  <1>7. CASE ~Ends(w) /\ Write(w)
    BY <1>7 DEF Write, Raise, Inv, TypesInv, Dated, Shapes, LeftTo
  <1>8. CASE Commit(w) \/ Deadlock(w) \/ Crash(w)
    BY <1>1, <1>8 DEF Commit, Deadlock, Crash, Raise
  <1> QED
    BY <1>1, <1>2, <1>3, <1>4, <1>5, <1>6, <1>7, <1>8
       DEF Works, Advance, Ensure, InsertVersion, Write, Raise

(***************************************************************************)
(* Of the session's own steps only a flush stages a key, of its own date,  *)
(* and only a commit stores one.                                           *)
(***************************************************************************)
LEMMA OwnKey ==
    ASSUME Inv, Dated, NEW w \in Workers, pc[w] = "write"
    PROVE  Key(w, at[w]) \in Keys /\ Key(w, at[w])[3] = date[w]
  <1>1. code[w] \in Release /\ at[w] \in Ids /\ date[w] \in Days
    BY DEF Inv, SessionInv, CodeInv, Dated, DatedInv
  <1> QED
    BY <1>1 DEF Key, Keys, Release

LEMMA OwnDates ==
    ASSUME Inv, Dated, NEW w \in Workers, Works(w)
    PROVE  DatedInv(w)'
  <1> USE DEF Dated, Shapes
  <1>0. DatedInv(w) /\ pc \in [Workers -> Places] /\ staged = [v \in Workers |-> staged[v]]
    BY DEF Inv, TypesInv
  <1>1. CASE Ends(w)
    <2>1. pc'[w] = "idle" /\ DOMAIN staged'[w] = {}
      BY <1>1, EndsAlone
    <2> QED
      BY <2>1 DEF DatedInv
  <1>2. CASE Start(w) \/ (~Ends(w) /\ (Ensure(w) \/ InsertVersion(w))) \/ ListLive(w)
    BY <1>0, <1>2 DEF Start, Ensure, InsertVersion, Raise, ListLive, DatedInv
  <1>3. CASE ReadFactor(w)
    BY <1>0, <1>3 DEF ReadFactor, DatedInv
  <1>4. ASSUME NEW l \in Ids, Skip(w, l) \/ Find(w, l)
        PROVE  DatedInv(w)'
    BY <1>0, <1>4 DEF Skip, Find, DatedInv
  <1>5. CASE ~Ends(w) /\ Write(w)
    <2> DEFINE k == Key(w, at[w])
               found == Found(w, at[w])
               Flushed(row) == [j \in DOMAIN staged[w] \cup {k} |->
                                  IF j = k THEN [row |-> row, factors |-> found]
                                           ELSE staged[w][j]]
    <2>1. pc[w] = "write" /\ pc'[w] = "find" /\ date' = date
      BY <1>0, <1>5 DEF Write, Raise
    <2>2. PICK row : staged' = [staged EXCEPT ![w] = Flushed(row)]
      BY <1>5 DEF Write, Raise
    <2>3. staged'[w] = Flushed(row)
      <3> HIDE DEF Flushed
      <3> QED
        BY <1>0, <2>2
    <2>4. DOMAIN staged'[w] = DOMAIN staged[w] \cup {k}
      BY <2>3
    <2>5. k \in Keys /\ k[3] = date[w]
      BY <2>1, OwnKey
    <2> HIDE DEF k
    <2> QED
      BY <1>0, <2>1, <2>4, <2>5 DEF DatedInv
  <1>6. CASE Commit(w) \/ Deadlock(w) \/ Crash(w)
    BY <1>1, <1>6 DEF Commit, Deadlock, Crash, Raise
  <1> QED
    BY <1>1, <1>2, <1>3, <1>4, <1>5, <1>6
       DEF Works, Advance

(***************************************************************************)
(* Only a commit changes the tables of scores.                             *)
(***************************************************************************)
LEMMA OnlyCommitStores ==
    ASSUME Inv, NEW w \in Workers, Works(w), ~Commit(w)
    PROVE  UNCHANGED tables
  BY DEF Works, Start, Advance, Crash, Ensure, InsertVersion, ListLive, ReadFactor, Skip, Find,
         Write, Deadlock, Raise

LEMMA CommitStores ==
    ASSUME NEW w \in Workers, Commit(w)
    PROVE  /\ Stored' = Stored \cup DOMAIN staged[w]
           /\ \A k \in Keys : k \notin DOMAIN staged[w]
                => /\ k \in Stored => scores'[k] = scores[k]
                   /\ score_factors'[k] = score_factors[k]
           /\ \A k \in Keys : k \in DOMAIN staged[w]
                => /\ scores'[k] = staged[w][k].row
                   /\ score_factors'[k] = <<staged[w][k].factors>>
  <1>1. Stored' = Stored \cup DOMAIN staged[w]
    BY DEF Commit, Stored
  <1>2. ASSUME NEW k \in Keys, k \notin DOMAIN staged[w]
        PROVE  (k \in Stored => scores'[k] = scores[k]) /\ score_factors'[k] = score_factors[k]
    BY <1>2 DEF Commit, Holds, Kept
  <1>3. ASSUME NEW k \in Keys, k \in DOMAIN staged[w]
        PROVE  scores'[k] = staged[w][k].row /\ score_factors'[k] = <<staged[w][k].factors>>
    <2>1. score_factors'[k] = Append(<<>>, staged[w][k].factors)
      BY <1>3 DEF Commit, Holds, Kept
    <2>2. scores'[k] = staged[w][k].row
      BY <1>3 DEF Commit, Holds
    <2> QED
      BY <2>1, <2>2
  <1> QED
    BY <1>1, <1>2, <1>3

LEMMA NextDated == Inv /\ Dated /\ [Next]_vars => Dated'
  <1> SUFFICES ASSUME Inv, Dated, [Next]_vars
               PROVE  Dated'
    OBVIOUS
  <1>1. CASE NewDay
    <2>1. day' \in Days
      BY <1>1, ScoresAssumption DEF NewDay, Days, Dated, Shapes
    <2> QED
      BY <1>1, <2>1 DEF NewDay, Dated, Shapes, DatedInv, Stored, tables, session
  <1>2. CASE Deploy \/ UNCHANGED vars
    BY <1>2 DEF Deploy, Dated, Shapes, DatedInv, Stored, vars, world, tables, session
  <1>3. ASSUME NEW l \in Ids, Change(l)
        PROVE  Dated'
    BY <1>3 DEF Change, Dated, Shapes, DatedInv, Stored, tables, session
  <1>4. ASSUME NEW w \in Workers, Works(w)
        PROVE  Dated'
    <2>1. /\ date' = [v \in Workers |-> date'[v]]
          /\ todo' \in [Workers -> SUBSET Ids]
          /\ at' = [v \in Workers |-> at'[v]]
          /\ view' = [v \in Workers |-> view'[v]]
          /\ UNCHANGED world
          /\ \A u \in Workers \ {w} : LeftTo(u)
      BY <1>4, AloneInStep
    <2>2. ASSUME NEW u \in Workers
          PROVE  DatedInv(u)'
      <3>1. CASE u = w
        BY <1>4, <3>1, OwnDates
      <3>2. CASE u # w
        <4>1. DatedInv(u)
          BY DEF Dated
        <4> QED
          BY <2>1, <3>2, <4>1 DEF LeftTo, DatedInv
      <3> QED
        BY <3>1, <3>2
    <2>3. Stored' \subseteq Keys
      <3>1. CASE Commit(w)
        BY <3>1, CommitStores DEF Dated, Shapes, DatedInv
      <3>2. CASE ~Commit(w)
        BY <1>4, <3>2, OnlyCommitStores DEF tables, Dated, Shapes, Stored
      <3> QED
        BY <3>1, <3>2
    <2> QED
      BY <2>1, <2>2, <2>3 DEF Dated, Shapes, world
  <1> QED
    BY <1>1, <1>2, <1>3, <1>4 DEF Next, Works

LEMMA DatedHolds == Spec => []Dated
  <1>1. Init => Dated
    <2> SUFFICES ASSUME Init
                 PROVE  Dated
      OBVIOUS
    <2>1. \A w \in Workers : DOMAIN staged[w] = {}
      BY DEF Init, None
    <2>2. Stored = {}
      BY DEF Init, Stored, None
    <2> QED
      BY <2>1, <2>2, ScoresAssumption DEF Init, Dated, Shapes, DatedInv, Days
  <1> QED
    BY <1>1, InvHolds, NextDated, PTL DEF Spec

(***************************************************************************)
(* "Yesterday's is immutable": only a session that took its date on that   *)
(* day changes a score of it, whoever else scores, fails or dies.          *)
(***************************************************************************)
THEOREM PastHolds == Spec => PastScoresFixed
  <1> DEFINE Fixed ==
        \A k \in Keys :
          k[3] < day /\ (\A w \in Workers : pc[w] \in {"find", "write"} => date[w] # k[3])
            => /\ k \in Stored' <=> k \in Stored
               /\ k \in Stored => UNCHANGED <<scores[k], score_factors[k]>>
  <1>1. Inv /\ Dated /\ [Next]_vars => [Fixed]_vars
    <2> SUFFICES ASSUME Inv, Dated, Next, NEW k \in Keys,
                        \A w \in Workers : pc[w] \in {"find", "write"} => date[w] # k[3]
                 PROVE  /\ k \in Stored' <=> k \in Stored
                        /\ k \in Stored => UNCHANGED <<scores[k], score_factors[k]>>
      OBVIOUS
    <2>1. ASSUME NEW w \in Workers, Commit(w)
          PROVE  /\ k \in Stored' <=> k \in Stored
                 /\ k \in Stored => UNCHANGED <<scores[k], score_factors[k]>>
      <3>1. pc[w] = "find"
        BY <2>1 DEF Commit
      <3>2. k \notin DOMAIN staged[w]
        BY <3>1 DEF Dated, DatedInv
      <3> QED
        BY <2>1, <3>2, CommitStores
    <2>2. ASSUME NEW w \in Workers, Works(w), ~Commit(w)
          PROVE  UNCHANGED tables
      BY <2>2, OnlyCommitStores
    <2>3. ASSUME NewDay \/ Deploy \/ (\E l \in Ids : Change(l))
          PROVE  UNCHANGED tables
      BY <2>3 DEF NewDay, Deploy, Change
    <2>4. UNCHANGED tables \/ \E w \in Workers : Commit(w)
      BY <2>2, <2>3 DEF Next, Works
    <2> QED
      BY <2>1, <2>4 DEF tables, Stored
  <1> QED
    BY <1>1, InvHolds, DatedHolds, PTL DEF Spec, PastScoresFixed

-------------------------------------------------------------------------------
(***************************************************************************)
(* A score is the number its factors give.  While no two sessions have     *)
(* overlapped, one session at most is at work; the row it read is the row  *)
(* it updates, so that a column left out of the UPDATE had the value that  *)
(* was computed.                                                           *)
(***************************************************************************)
StagedGives(w) ==
    \A k \in DOMAIN staged[w] :
        staged[w][k].row = Scored(code[w].weights, staged[w][k].factors)

SeesStored(w) ==
    pc[w] = "write" =>
        view[w] = IF Key(w, at[w]) \in Stored THEN scores[Key(w, at[w])] ELSE Null

OneAtWork == \A u \in Busy : \A v \in Busy : u = v

Alone ==
    ~overlapped => /\ OneAtWork
                   /\ \A w \in Workers : StagedGives(w) /\ SeesStored(w)
                   /\ \A k \in Stored : Gives(k)

(***************************************************************************)
(* An UPDATE of the row that was read leaves the row that was computed.    *)
(***************************************************************************)
LEMMA WrittenIsNew ==
    ASSUME NEW weights, NEW found, NEW stored, NEW row,
           row \in Written(stored, stored, Scored(weights, found))
    PROVE  row = Scored(weights, found)
  <1> DEFINE new == Scored(weights, found)
  <1>1. new = [overall |-> new.overall, coverage |-> new.coverage]
    BY DEF Scored
  <1>2. /\ row \in [overall  : {stored.overall, new.overall},
                    coverage : {stored.coverage, new.coverage}]
        /\ \A c \in DOMAIN row : new[c] # stored[c] => row[c] = new[c]
    BY DEF Written
  <1> HIDE DEF new
  <1>3. DOMAIN row = {"overall", "coverage"}
    BY <1>2
  <1>4. row.overall = new.overall /\ row.coverage = new.coverage
    BY <1>2, <1>3
  <1>5. row = [overall |-> row.overall, coverage |-> row.coverage]
    BY <1>2
  <1>6. row = new
    BY <1>1, <1>4, <1>5
  <1> QED
    BY <1>6 DEF new

(***************************************************************************)
(* What a session stages is what its factors give, if it saw the row that  *)
(* is stored.                                                              *)
(***************************************************************************)
LEMMA FlushGives ==
    ASSUME Inv, Dated, NEW w \in Workers, Write(w), ~Raise(w),
           StagedGives(w), SeesStored(w)
    PROVE  StagedGives(w)'
  <1> DEFINE k == Key(w, at[w])
             found == Found(w, at[w])
             new == Scored(code[w].weights, found)
             Flushed(row) == [j \in DOMAIN staged[w] \cup {k} |->
                                IF j = k THEN [row |-> row, factors |-> found]
                                         ELSE staged[w][j]]
  <1>1. /\ pc[w] = "write"
        /\ code' = code
        /\ ~(view[w] = Null /\ k \in Stored)
    BY DEF Write, Raise
  <1>2. PICK row \in Rewrites(w, k, new) : staged' = [staged EXCEPT ![w] = Flushed(row)]
    BY DEF Write, Raise
  <1>3. staged'[w] = Flushed(row)
    <2> HIDE DEF Flushed
    <2> QED
      BY <1>2 DEF Inv, TypesInv
  <1>4. row = new
    <2>1. CASE view[w] = Null
      BY <1>2, <2>1 DEF Rewrites
    <2>2. CASE view[w] # Null
      <3>1. view[w] = scores[k]
        BY <1>1, <2>2 DEF SeesStored
      <3>2. row \in Written(scores[k], scores[k], new)
        <4> HIDE DEF k, new
        <4> QED
          BY <1>2, <2>2, <3>1 DEF Rewrites
      <3> QED
        BY <3>2, WrittenIsNew
    <2> QED
      BY <2>1, <2>2
  <1>5. ASSUME NEW j \in DOMAIN staged'[w]
        PROVE  staged'[w][j].row = Scored(code[w].weights, staged'[w][j].factors)
    <2>1. CASE j = k
      <3>1. staged'[w][j] = [row |-> row, factors |-> found]
        BY <1>3, <2>1
      <3>2. staged'[w][j].row = row /\ staged'[w][j].factors = found
        BY <3>1
      <3> QED
        BY <1>4, <3>2
    <2>2. CASE j # k
      <3>1. j \in DOMAIN staged[w] /\ staged'[w][j] = staged[w][j]
        BY <1>3, <2>2
      <3> QED
        BY <3>1 DEF StagedGives
    <2> QED
      BY <2>1, <2>2
  <1> QED
    BY <1>1, <1>5 DEF StagedGives

(***************************************************************************)
(* The commit stores what was staged, under the weights of its version,    *)
(* and leaves the weights of every other score as they were.               *)
(***************************************************************************)
LEMMA CommitGives ==
    ASSUME Inv, Dated, NEW w \in Workers, Commit(w),
           StagedGives(w), \A k \in Stored : Gives(k)
    PROVE  \A k \in Stored' : Gives(k)'
  <1> SUFFICES ASSUME NEW k \in Stored'
               PROVE  Gives(k)'
    OBVIOUS
  <1>1. k \in Keys
    BY CommitStores DEF Dated, Shapes, DatedInv
  <1>2. CASE k \in DOMAIN staged[w]
    <2>1. scores'[k] = staged[w][k].row /\ score_factors'[k] = <<staged[w][k].factors>>
      BY <1>1, <1>2, CommitStores
    <2>2. score_factors'[k][1] = staged[w][k].factors
      BY <2>1
    <2>3. k[2] = Version(w)
      BY <1>2 DEF Inv, SessionInv, StagedInv
    <2>4. score_weights'[k[2]] = code[w].weights
      BY <2>3, CommitVersions
    <2> QED
      BY <1>2, <2>1, <2>2, <2>4 DEF StagedGives, Gives
  <1>3. CASE k \notin DOMAIN staged[w]
    <2>1. k \in Stored
      BY <1>3, CommitStores
    <2>2. scores'[k] = scores[k] /\ score_factors'[k] = score_factors[k]
      BY <1>1, <1>3, <2>1, CommitStores
    <2>3. k[2] \in Versions /\ score_weights[k[2]] # Null
      BY <1>1, <2>1 DEF Keys, Inv, OneDecomposition
    <2>4. score_weights'[k[2]] = score_weights[k[2]]
      BY <2>3, CommitVersions
    <2> QED
      BY <2>1, <2>2, <2>4 DEF Gives
  <1> QED
    BY <1>2, <1>3

(***************************************************************************)
(* A step of the session that is alone at work.                            *)
(***************************************************************************)
LEMMA LoneStep ==
    ASSUME Inv, Dated, NEW w \in Workers, Works(w), ~overlapped, ~overlapped', Alone
    PROVE  Alone'
  <1>0. /\ OneAtWork /\ \A k \in Stored : Gives(k)
        /\ \A u \in Workers : StagedGives(u) /\ SeesStored(u)
        /\ pc \in [Workers -> Places] /\ staged = [v \in Workers |-> staged[v]]
    BY DEF Alone, Inv, TypesInv
  <1>1. \A u \in Workers \ {w} : pc[u] = "idle" /\ pc'[u] = "idle" /\ DOMAIN staged'[u] = {}
    <2>1. \A u \in Workers \ {w} : pc[u] = "idle"
      <3>1. CASE Start(w)
        BY <3>1 DEF Start, Busy
      <3>2. CASE ~Start(w)
        <4>1. pc[w] # "idle"
          BY <3>2 DEF Works, Advance, Crash, Ensure, InsertVersion, ListLive, ReadFactor, Skip,
                      Find, Write, Commit, Deadlock, WaitsFor
        <4> QED
          BY <1>0, <4>1 DEF OneAtWork, Busy
      <3> QED
        BY <3>1, <3>2
    <2>2. \A u \in Workers \ {w} : LeftTo(u)
      BY AloneInStep
    <2>3. \A u \in Workers \ {w} : DOMAIN staged[u] = {}
      BY <2>1 DEF Dated, DatedInv
    <2> QED
      BY <2>1, <2>2, <2>3 DEF LeftTo
  <1>2. OneAtWork'
    BY <1>1 DEF OneAtWork, Busy
  <1>3. \A u \in Workers \ {w} : StagedGives(u)' /\ SeesStored(u)'
    BY <1>1 DEF StagedGives, SeesStored
  <1>4. \A k \in Stored' : Gives(k)'
    <2>1. CASE Commit(w)
      BY <1>0, <2>1, CommitGives
    <2>2. CASE ~Commit(w)
      BY <1>0, <2>2, OnlyCommitStores DEF tables, Stored, Gives
    <2> QED
      BY <2>1, <2>2
  <1>5. StagedGives(w)' /\ SeesStored(w)'
    <2>1. CASE Ends(w)
      <3>1. pc'[w] = "idle" /\ DOMAIN staged'[w] = {}
        BY <2>1, EndsAlone DEF Dated
      <3> QED
        BY <3>1 DEF StagedGives, SeesStored
    <2>2. CASE ~Ends(w) /\ Write(w)
      <3>1. pc'[w] = "find" /\ ~Raise(w)
        BY <1>0, <2>2 DEF Write, Raise
      <3>2. StagedGives(w)'
        BY <1>0, <2>2, <3>1, FlushGives
      <3> QED
        BY <3>1, <3>2 DEF SeesStored
    <2>3. CASE Start(w) \/ (~Ends(w) /\ (Ensure(w) \/ InsertVersion(w))) \/ ListLive(w)
      <3>1. pc'[w] # "write" /\ staged' = staged /\ DOMAIN staged[w] = {}
        BY <1>0, <2>3 DEF Start, Ensure, InsertVersion, ListLive, Raise, Dated, DatedInv
      <3> QED
        BY <3>1 DEF StagedGives, SeesStored
    <2>4. CASE ReadFactor(w)
      <3>1. pc'[w] # "write" /\ staged' = staged /\ DOMAIN staged[w] = {}
        BY <1>0, <2>4 DEF ReadFactor, Dated, DatedInv
      <3> QED
        BY <3>1 DEF StagedGives, SeesStored
    <2>5. ASSUME NEW l \in Ids, Skip(w, l)
          PROVE  StagedGives(w)' /\ SeesStored(w)'
      BY <1>0, <2>5 DEF Skip, StagedGives, SeesStored
    <2>6. ASSUME NEW l \in Ids, Find(w, l)
          PROVE  StagedGives(w)' /\ SeesStored(w)'
      <3>1. StagedGives(w)'
        BY <1>0, <2>6 DEF Find, StagedGives
      <3>2. at'[w] = l /\ Key(w, l)' = Key(w, l) /\ UNCHANGED <<scores, Stored>>
        BY <2>6 DEF Find, Dated, Shapes, Key, tables, Stored
      <3>3. view'[w] = IF Key(w, l) \in Stored THEN scores[Key(w, l)] ELSE Null
        BY <2>6 DEF Find, Dated, Shapes
      <3>4. Key(w, at[w])' = Key(w, l)
        BY <3>2 DEF Key
      <3> QED
        BY <3>1, <3>2, <3>3, <3>4 DEF SeesStored
    <2>7. CASE Commit(w) \/ Deadlock(w) \/ Crash(w)
      BY <2>1, <2>7 DEF Commit, Deadlock, Crash, Raise
    <2> QED
      BY <2>1, <2>2, <2>3, <2>4, <2>5, <2>6, <2>7 DEF Works, Advance
  <1> QED
    BY <1>2, <1>3, <1>4, <1>5 DEF Alone

LEMMA NextAlone == Inv /\ Dated /\ Alone /\ [Next]_vars => Alone'
  <1> SUFFICES ASSUME Inv, Dated, Alone, [Next]_vars, ~overlapped'
               PROVE  Alone'
    BY DEF Alone
  <1>1. CASE NewDay \/ Deploy \/ (\E l \in Ids : Change(l)) \/ UNCHANGED vars
    <2>1. UNCHANGED <<tables, session, overlapped>>
      BY <1>1 DEF NewDay, Deploy, Change, vars, history
    <2> QED
      BY <2>1 DEF Alone, OneAtWork, Busy, StagedGives, SeesStored, Gives, Stored, Key,
                  tables, session
  <1>2. ASSUME NEW w \in Workers, Works(w)
        PROVE  Alone'
    <2>1. ~overlapped
      BY <1>2 DEF Works, Start, Advance, Crash, Ensure, InsertVersion, ListLive, ReadFactor,
                  Skip, Find, Write, Commit, Deadlock, Raise, history
    <2> QED
      BY <1>2, <2>1, LoneStep
  <1> QED
    BY <1>1, <1>2 DEF Next, Works

(***************************************************************************)
(* A stored score is the number its factors give under the weights on      *)
(* record for its version, as long as no two sessions have overlapped.     *)
(***************************************************************************)
THEOREM FactorsHold == Spec => []FactorsGiveScore
  <1>1. Init => Alone
    <2> SUFFICES ASSUME Init
                 PROVE  Alone
      OBVIOUS
    <2>1. Busy = {} /\ Stored = {} /\ \A w \in Workers : DOMAIN staged[w] = {}
      BY DEF Init, Busy, Stored, None
    <2> QED
      BY <2>1 DEF Init, Alone, OneAtWork, StagedGives, SeesStored
  <1>2. Alone => FactorsGiveScore
    BY DEF Alone, FactorsGiveScore
  <1> QED
    BY <1>1, <1>2, InvHolds, DatedHolds, NextAlone, PTL DEF Spec
===============================================================================
