----------------------------- MODULE GraphDigest -----------------------------
(***************************************************************************)
(* The scan behind a graph digest (projection/verify.py): the graph is     *)
(* read one page per transaction, label by label in sorted order on the    *)
(* label's identity property, and last, by element ID, every node that has *)
(* no identity.  A node may carry several keyed labels and is then met in  *)
(* several passes.  Hashes, names and identity values are abstracted: a    *)
(* node is the set of its labels and the set of those whose identity       *)
(* property it has, and the digest is the multiset of the items counted.   *)
(* The live graph is quiescent while it is scanned, as verify requires.    *)
(***************************************************************************)
EXTENDS Naturals, FiniteSets, FiniteSetsExt, FiniteSetTheorems, WellFoundedInduction, TLAPS

CONSTANTS Nodes,        \* the nodes; their order is the order of every cursor
          Keyed,        \* NODE_KEYS: the keyed labels, 1..k in sorted order
          History,      \* the label of the projection-history marker
          Kinds,        \* the node shapes [labels, keys] a graph is made of
          EdgeSets,     \* the relationship sets a graph may have
          NodeSource,   \* the source event ID a node's properties carry
          EdgeSource,   \* the source event ID a relationship carries
          Ledger,       \* the event IDs stored in ledger.events
          Batches,      \* the batch sizes the scan is run with
          FlushAt       \* _SOURCE_ID_FLUSH

DigestAssumption ==
  /\ Nodes \subseteq Nat \ {0} /\ IsFiniteSet(Nodes)
  /\ IsFiniteSet(Keyed) /\ Keyed = 1..Cardinality(Keyed)
  /\ \A k \in Kinds : k.keys \subseteq k.labels \cap Keyed
  /\ \A E \in EdgeSets : IsFiniteSet(E) /\ \A e \in E : e[1] \in Nodes
  /\ Batches \subseteq Nat \ {0} /\ FlushAt \in Nat \ {0}

VARIABLES kind, edges, batch,            \* the graph and the batch size
          pass, after,                   \* the running pass and its cursor
          nodeHashes, relHashes,         \* how often each item was hashed
          missing, pending,              \* missing_identity, unflushed IDs
          orphans                        \* OrphanCollector.orphans

vars == <<kind, edges, batch, pass, after, nodeHashes, relHashes, missing,
          pending, orphans>>

Fallback == Cardinality(Keyed) + 1
Done == pass > Fallback

Init == /\ kind \in [Nodes -> Kinds] /\ edges \in EdgeSets /\ batch \in Batches
        /\ pass = 1 /\ after = 0
        /\ nodeHashes = [n \in Nodes |-> 0] /\ relHashes = [e \in edges |-> 0]
        /\ missing = 0 /\ pending = {} /\ orphans = {}

-----------------------------------------------------------------------------
(* The first sorted label whose identity property the node has; 0 if none. *)
PrimaryLabel(n) == IF kind[n].keys = {} THEN 0 ELSE Min(kind[n].keys)

(* _Pass._nodes: the nodes the running pass matches.                       *)
InPass(n) == IF pass < Fallback THEN pass \in kind[n].keys
             ELSE History \notin kind[n].labels /\ kind[n].keys = {}

Rest == {n \in Nodes : InPass(n) /\ n > after}

(* One page: the batch lowest cursors past the last one, in one read.      *)
Page == {n \in Rest : Cardinality({o \in Rest : o < n}) < batch}

(* A multi-label node is counted under its primary label only.             *)
Counts(n) == pass < Fallback => PrimaryLabel(n) = pass

(* A keyed-label node that reached the fallback pass lacks its identity.   *)
NoIdentity(n) == pass = Fallback /\ kind[n].labels \cap Keyed # {}

(* The cursor is the page's last record, counted or skipped.               *)
Cursor == Max(Page)

Mut_FlushDueEarly(ids, ends) == Cardinality(ids) > FlushAt
(* Source IDs go to the collector once enough are pending, and at the end. *)
FlushDue(ids, ends) == Cardinality(ids) >= FlushAt \/ (ends /\ pass = Fallback)

(* OrphanCollector.add: what is no stored event, or no UUID, is an orphan. *)
Collect(ids) == orphans \cup (ids \ Ledger)

(* One turn of the scan loop.  A page shorter than the batch is the last   *)
(* of its pass; an empty page ends it as well.                             *)
ScanPage ==
  /\ ~Done
  /\ LET nodes == {n \in Page : Counts(n)}
         rels == {e \in edges : e[1] \in Page /\ Counts(e[1])}
         ids == pending \cup {NodeSource[n] : n \in nodes}
                        \cup {EdgeSource[e] : e \in rels}
         ends == Cardinality(Page) < batch
     IN /\ nodeHashes' = [n \in Nodes |->
                            nodeHashes[n] + (IF n \in nodes THEN 1 ELSE 0)]
        /\ relHashes' = [e \in edges |->
                            relHashes[e] + (IF e \in rels THEN 1 ELSE 0)]
        /\ missing' = missing + Cardinality({n \in nodes : NoIdentity(n)})
        /\ IF FlushDue(ids, ends)
           THEN orphans' = Collect(ids) /\ pending' = {}
           ELSE pending' = ids /\ UNCHANGED orphans
        /\ IF ends THEN pass' = pass + 1 /\ after' = 0
           ELSE after' = Cursor /\ UNCHANGED pass
  /\ UNCHANGED <<kind, edges, batch>>

Next == ScanPage
Spec == Init /\ [][Next]_vars /\ WF_vars(Next)

-----------------------------------------------------------------------------
Marker(n) == History \in kind[n].labels /\ kind[n].keys = {}

(* When the scan ends, every node but the history marker and every         *)
(* relationship that starts at one was hashed exactly once, whatever the   *)
(* batch size and however many keyed labels a node carries: this is what   *)
(* makes two digests comparable (compute_graph_digest).                    *)
EachItemOnce ==
  Done => /\ \A n \in Nodes : nodeHashes[n] = IF Marker(n) THEN 0 ELSE 1
          /\ \A e \in edges : relHashes[e] = IF Marker(e[1]) THEN 0 ELSE 1

(* When the scan ends the collector has judged the source ID of every      *)
(* counted item: an ID the ledger does not hold is reported, and no other. *)
OrphansExact ==
  Done => orphans = ({NodeSource[n] : n \in {m \in Nodes : ~Marker(m)}}
               \cup {EdgeSource[e] : e \in {f \in edges : ~Marker(f[1])}}) \ Ledger

(* A node with a keyed label and no identity property at all is reported   *)
(* as corrupt once, and a node that has one of its keys is not.            *)
MissingIdentityExact ==
  Done => missing = Cardinality({n \in Nodes : /\ kind[n].keys = {}
                                              /\ kind[n].labels \cap Keyed # {}
                                              /\ History \notin kind[n].labels})

(* Between pages fewer source IDs are pending than the threshold: the scan *)
(* holds one page and one bounded set, never the graph.                    *)
PendingBounded == Cardinality(pending) < FlushAt

(* The scan of a graph that a verification compares is exact and bounded.  *)
ScanExact == EachItemOnce /\ OrphansExact /\ MissingIdentityExact /\ PendingBounded

(* Every scan ends: the cursor advances past each page.                    *)
ScanEnds == <>Done

-----------------------------------------------------------------------------
\* The pass a node is counted in, and whether the scan has passed it.
Turn(n) == IF kind[n].keys # {} THEN Min(kind[n].keys) ELSE Fallback
Counted(n) == ~Marker(n) /\ (Turn(n) < pass \/ (Turn(n) = pass /\ n <= after))
Corrupt(n) == kind[n].keys = {} /\ kind[n].labels \cap Keyed # {} /\ History \notin kind[n].labels
Sources(N, R) == {NodeSource[n] : n \in N} \cup {EdgeSource[e] : e \in R}

DigestTyped ==
  /\ kind \in [Nodes -> Kinds] /\ edges \in EdgeSets /\ batch \in Batches
  /\ pass \in 1..(Fallback + 1) /\ after \in Nat
  /\ nodeHashes \in [Nodes -> Nat] /\ relHashes \in [edges -> Nat] /\ missing \in Nat
  /\ IsFiniteSet(pending)

CountedNodes == {n \in Nodes : Counted(n)}
CountedEdges == {e \in edges : Counted(e[1])}

\* What the scan holds is what it has passed, and nothing else.
Progress ==
  /\ \A n \in Nodes : nodeHashes[n] = IF Counted(n) THEN 1 ELSE 0
  /\ \A e \in edges : relHashes[e] = IF Counted(e[1]) THEN 1 ELSE 0
  /\ missing = Cardinality({n \in CountedNodes : Corrupt(n)})
  /\ pending \subseteq Sources(CountedNodes, CountedEdges)
  /\ orphans \cup (pending \ Ledger) = Sources(CountedNodes, CountedEdges) \ Ledger
  /\ Done => pending = {}

DigestInv == DigestTyped /\ Progress /\ PendingBounded

-----------------------------------------------------------------------------
LEMMA LeastIn ==
  ASSUME NEW S \in SUBSET Nat, S # {}
  PROVE  Min(S) \in S /\ \A y \in S : Min(S) <= y
<1>1. PICK n \in S : \A m \in S : <<m, n>> \notin OpToRel(<, Nat)
  <2>1. IsWellFoundedOn(OpToRel(<, Nat), Nat)
    BY NatLessThanWellFounded
  <2> QED BY <2>1, WFMin
<1>2. \A m \in S : ~(m < n)
  BY <1>1 DEF OpToRel
<1>3. \A m \in S : n <= m
  BY <1>2
<1> QED BY <1>3 DEF Min

LEMMA GreatestIn ==
  ASSUME NEW S \in SUBSET Nat, IsFiniteSet(S), S # {}
  PROVE  Max(S) \in S /\ \A y \in S : Max(S) >= y
<1> DEFINE Open(U) == IsFiniteSet(U) /\ U # {} /\ ~(\E x \in U : \A y \in U : x >= y)
           Bad == {n \in Nat : \E U \in SUBSET Nat : Open(U) /\ Cardinality(U) = n}
<1>1. ASSUME Open(S) PROVE FALSE
  <2>1. Cardinality(S) \in Bad
    BY <1>1, FS_CardinalityType
  <2>2. Min(Bad) \in Bad /\ \A m \in Bad : Min(Bad) <= m
    <3> HIDE DEF Bad
    <3>1. Bad \in SUBSET Nat
      BY DEF Bad
    <3> QED BY <2>1, <3>1, LeastIn
  <2>3. PICK U \in SUBSET Nat : Open(U) /\ Cardinality(U) = Min(Bad)
    BY <2>2
  <2>4. PICK x \in U : TRUE
    BY <2>3
  <2>5. IsFiniteSet(U \ {x}) /\ Cardinality(U \ {x}) = Min(Bad) - 1 /\ Min(Bad) \in Nat
    BY <2>2, <2>3, FS_RemoveElement
  <2>6. Cardinality(U \ {x}) \in Nat
    BY <2>5, FS_CardinalityType
  <2>7. ~(Min(Bad) <= Min(Bad) - 1) /\ Min(Bad) - 1 \in Nat
    BY <2>5, <2>6
  <2>8. ~Open(U \ {x})
    BY <2>2, <2>5, <2>7
  <2>9. CASE U \ {x} = {}
    BY <2>3, <2>9
  <2>10. CASE U \ {x} # {}
    <3>1. PICK z \in U \ {x} : \A y \in U \ {x} : z >= y
      BY <2>5, <2>8, <2>10
    <3>2. CASE z >= x
      BY <2>3, <3>1, <3>2
    <3>3. CASE ~(z >= x)
      <4>1. \A y \in U : x >= y
        BY <3>1, <3>3
      <4> QED BY <2>3, <4>1
    <3> QED BY <3>2, <3>3
  <2> QED BY <2>9, <2>10
<1>2. \E x \in S : \A y \in S : x >= y
  BY <1>1
<1> QED BY <1>2 DEF Max

-----------------------------------------------------------------------------
LEMMA Numbers ==
  ASSUME DigestAssumption, DigestInv
  PROVE  /\ Fallback \in Nat \ {0} /\ Keyed = 1..(Fallback - 1) /\ pass \in Nat /\ after \in Nat
         /\ batch \in Nat \ {0} /\ IsFiniteSet(edges) /\ \A e \in edges : e[1] \in Nodes
         /\ \A n \in Nodes : /\ kind[n].keys \subseteq Keyed /\ kind[n].keys \subseteq Nat
                             /\ kind[n].keys # {} => Min(kind[n].keys) \in kind[n].keys
                             /\ Turn(n) \in 1..Fallback
                             /\ Turn(n) = Fallback <=> kind[n].keys = {}
<1>1. Cardinality(Keyed) \in Nat
  BY FS_CardinalityType DEF DigestAssumption
<1>2. Fallback \in Nat \ {0} /\ Keyed = 1..(Fallback - 1)
  BY <1>1 DEF Fallback, DigestAssumption
<1>3. pass \in Nat /\ after \in Nat /\ batch \in Nat \ {0} /\ IsFiniteSet(edges) /\ \A e \in edges : e[1] \in Nodes
  BY <1>2 DEF DigestInv, DigestTyped, DigestAssumption
<1>4. ASSUME NEW n \in Nodes
      PROVE  /\ kind[n].keys \subseteq Keyed /\ kind[n].keys \subseteq Nat
             /\ kind[n].keys # {} => Min(kind[n].keys) \in kind[n].keys
             /\ Turn(n) \in 1..Fallback
             /\ Turn(n) = Fallback <=> kind[n].keys = {}
  <2>1. kind[n].keys \subseteq Keyed
    BY DEF DigestInv, DigestTyped, DigestAssumption
  <2>2. kind[n].keys \subseteq Nat
    BY <1>2, <2>1
  <2>3. kind[n].keys # {} => Min(kind[n].keys) \in kind[n].keys
    BY <2>2, LeastIn
  <2> QED BY <1>2, <2>1, <2>2, <2>3 DEF Turn
<1> QED BY <1>2, <1>3, <1>4

\* A running pass counts the nodes whose turn it is.
LEMMA InTurn ==
  ASSUME DigestAssumption, DigestInv, ~Done, NEW n \in Nodes
  PROVE  /\ InPass(n) /\ Counts(n) <=> ~Marker(n) /\ Turn(n) = pass
         /\ InPass(n) /\ Counts(n) => (NoIdentity(n) <=> Corrupt(n))
<1>1. pass \in 1..Fallback /\ Fallback \in Nat
  BY Numbers DEF Done, DigestInv, DigestTyped
<1>2. CASE kind[n].keys = {}
  <2>1. Turn(n) = Fallback
    BY <1>2 DEF Turn
  <2>2. InPass(n) <=> pass = Fallback /\ History \notin kind[n].labels
    BY <1>1, <1>2 DEF InPass
  <2> QED BY <1>1, <1>2, <2>1, <2>2 DEF Counts, Marker, NoIdentity, Corrupt
<1>3. CASE kind[n].keys # {}
  <2>1. Turn(n) = Min(kind[n].keys) /\ PrimaryLabel(n) = Turn(n) /\ Turn(n) \in kind[n].keys /\ Turn(n) # Fallback
        /\ Turn(n) \in 1..Fallback
    BY <1>3, Numbers DEF Turn, PrimaryLabel
  <2>2. InPass(n) <=> pass < Fallback /\ pass \in kind[n].keys
    BY <1>3 DEF InPass
  <2> QED BY <1>1, <1>3, <2>1, <2>2 DEF Counts, Marker, NoIdentity, Corrupt
<1> QED BY <1>2, <1>3

\* A page is the start of the rest: all of it if it is short, else the nodes
\* up to its cursor.
LEMMA PageIsPrefix ==
  ASSUME DigestAssumption, DigestInv
  PROVE  /\ Page \subseteq Rest /\ Rest \subseteq Nodes
         /\ Cardinality(Page) < batch => Page = Rest
         /\ ~(Cardinality(Page) < batch) => /\ Cursor \in Page
                                             /\ \A n \in Rest : n \in Page <=> n <= Cursor
<1> DEFINE Below(n) == {o \in Rest : o < n}
<1>1. Page \subseteq Rest /\ Rest \subseteq Nodes /\ Rest \subseteq Nat /\ batch \in Nat \ {0}
  BY Numbers DEF Page, Rest, DigestAssumption
<1>2. IsFiniteSet(Rest) /\ IsFiniteSet(Page) /\ Cardinality(Page) \in Nat
  BY <1>1, FS_Subset, FS_CardinalityType DEF DigestAssumption
<1>3. \A n : IsFiniteSet(Below(n)) /\ Cardinality(Below(n)) \in Nat
  BY <1>2, FS_Subset, FS_CardinalityType
<1>4. \A n \in Rest : n \in Page <=> Cardinality(Below(n)) < batch
  BY DEF Page
<1>5. ASSUME NEW n \in Page, NEW m \in Rest, m <= n PROVE m \in Page
  <2>1. Below(m) \subseteq Below(n)
    <3>1. n \in Nat /\ m \in Nat /\ m <= n /\ \A o \in Rest : o \in Nat
      BY <1>1, <1>5
    <3>2. \A o \in Rest : o < m => o < n
      BY <3>1
    <3> QED BY <3>2
  <2>2. Cardinality(Below(m)) <= Cardinality(Below(n))
    BY <1>3, <2>1, FS_Subset
  <2>3. Cardinality(Below(m)) < batch
    BY <1>1, <1>3, <1>4, <2>2
  <2> QED BY <1>4, <2>3
<1>6. ASSUME Cardinality(Page) < batch PROVE Page = Rest
  <2> SUFFICES ASSUME Rest \ Page # {} PROVE FALSE
    BY <1>1
  <2> DEFINE least == Min(Rest \ Page)
  <2>1. least \in Rest \ Page /\ \A y \in Rest \ Page : least <= y
    BY <1>1, LeastIn
  <2> HIDE DEF least
  <2>2. Below(least) \subseteq Page
    <3>1. \A o \in Rest : o \in Nat /\ least \in Nat
      BY <1>1, <2>1
    <3>2. \A o \in Rest : o < least => o \in Page
      BY <2>1, <3>1
    <3> QED BY <3>2
  <2>3. Cardinality(Below(least)) <= Cardinality(Page)
    BY <1>2, <2>2, FS_Subset
  <2>4. Cardinality(Below(least)) < batch
    BY <1>1, <1>2, <1>3, <1>6, <2>3
  <2> QED BY <1>4, <2>1, <2>4
<1>7. ASSUME ~(Cardinality(Page) < batch)
      PROVE  Cursor \in Page /\ \A n \in Rest : n \in Page <=> n <= Cursor
  <2>1. Page # {}
    BY <1>1, <1>7, FS_EmptySet
  <2>2. Page \in SUBSET Nat
    BY <1>1
  <2>3. Cursor \in Page /\ \A y \in Page : Cursor >= y
    BY <1>2, <2>1, <2>2, GreatestIn DEF Cursor
  <2> QED BY <1>1, <1>5, <2>3
<1> QED BY <1>1, <1>6, <1>7

-----------------------------------------------------------------------------
\* The nodes and relationships of a page, and the scan's choice to end a pass.
PageNodes == {n \in Page : Counts(n)}
PageRels == {e \in edges : e[1] \in Page /\ Counts(e[1])}
Ends == Cardinality(Page) < batch

LEMMA StepFacts ==
  ASSUME DigestInv, ScanPage
  PROVE  LET ids == pending \cup {NodeSource[n] : n \in PageNodes} \cup {EdgeSource[e] : e \in PageRels} IN
         /\ ~Done
         /\ nodeHashes' = [n \in Nodes |-> nodeHashes[n] + (IF n \in PageNodes THEN 1 ELSE 0)]
         /\ relHashes' = [e \in edges |-> relHashes[e] + (IF e \in PageRels THEN 1 ELSE 0)]
         /\ missing' = missing + Cardinality({n \in PageNodes : NoIdentity(n)})
         /\ IF FlushDue(ids, Ends) THEN orphans' = Collect(ids) /\ pending' = {} ELSE pending' = ids /\ orphans' = orphans
         /\ IF Ends THEN pass' = pass + 1 /\ after' = 0 ELSE after' = Cursor /\ pass' = pass
         /\ kind' = kind /\ edges' = edges /\ batch' = batch
BY DEF ScanPage, PageNodes, PageRels, Ends

\* The order a pass counts in: by turn, then by node.
LEMMA Ordered ==
  ASSUME NEW t \in Nat, NEW p \in Nat, NEW a \in Nat, NEW n \in Nat \ {0}
  PROVE  /\ (t < p + 1 \/ (t = p + 1 /\ n <= 0)) <=> (t < p \/ (t = p /\ n <= a) \/ (t = p /\ n > a))
         /\ ~(t = p /\ n > a /\ (t < p \/ (t = p /\ n <= a)))
         /\ \A c \in Nat : a < c => ((t < p \/ (t = p /\ n <= c))
                                       <=> (t < p \/ (t = p /\ n <= a) \/ (t = p /\ n > a /\ n <= c)))
OBVIOUS

\* Exactly the nodes of the page are newly counted.
LEMMA CountedGrows ==
  ASSUME DigestAssumption, DigestInv, ScanPage, NEW n \in Nodes
  PROVE  /\ Counted(n)' <=> Counted(n) \/ n \in PageNodes
         /\ n \in PageNodes => ~Counted(n) /\ (NoIdentity(n) <=> Corrupt(n))
         /\ PageNodes \subseteq Nodes
<1>1. /\ ~Done /\ kind' = kind
      /\ IF Ends THEN pass' = pass + 1 /\ after' = 0 ELSE after' = Cursor /\ pass' = pass
  BY StepFacts
<1>2. Turn(n)' = Turn(n) /\ Marker(n)' = Marker(n) /\ Turn(n) \in Nat /\ pass \in Nat /\ after \in Nat /\ n \in Nat \ {0}
  BY <1>1, Numbers DEF Turn, Marker, Fallback, DigestAssumption
<1>3. Page \subseteq Rest /\ Rest \subseteq Nodes /\ (n \in Rest <=> InPass(n) /\ n > after)
  BY PageIsPrefix DEF Rest
<1>4. n \in PageNodes => ~Marker(n) /\ Turn(n) = pass /\ n > after /\ (NoIdentity(n) <=> Corrupt(n))
  BY <1>1, <1>3, InTurn DEF PageNodes
<1>5. n \in Rest /\ Counts(n) <=> ~Marker(n) /\ Turn(n) = pass /\ n > after
  BY <1>1, <1>3, InTurn
<1>6. CASE Ends
  <2>1. n \in PageNodes <=> ~Marker(n) /\ Turn(n) = pass /\ n > after
    BY <1>5, <1>6, PageIsPrefix DEF Ends, PageNodes
  <2>2. Counted(n)' <=> ~Marker(n) /\ (Turn(n) < pass + 1 \/ (Turn(n) = pass + 1 /\ n <= 0))
    <3>1. Counted(n)' <=> ~Marker(n)' /\ (Turn(n)' < pass' \/ (Turn(n)' = pass' /\ n <= after'))
      BY DEF Counted
    <3> QED BY <1>1, <1>2, <1>6, <3>1
  <2>3. Counted(n) <=> ~Marker(n) /\ (Turn(n) < pass \/ (Turn(n) = pass /\ n <= after))
    BY DEF Counted
  <2>4. /\ (Turn(n) < pass + 1 \/ (Turn(n) = pass + 1 /\ n <= 0))
              <=> (Turn(n) < pass \/ (Turn(n) = pass /\ n <= after) \/ (Turn(n) = pass /\ n > after))
        /\ ~(Turn(n) = pass /\ n > after /\ (Turn(n) < pass \/ (Turn(n) = pass /\ n <= after)))
    BY <1>2, Ordered
  <2>5. n \in PageNodes => NoIdentity(n) <=> Corrupt(n)
    BY <1>4
  <2>6. PageNodes \subseteq Nodes
    BY <1>3 DEF PageNodes
  <2> QED BY <2>1, <2>2, <2>3, <2>4, <2>5, <2>6
<1>7. CASE ~Ends
  <2>1. Cursor \in Page /\ \A m \in Rest : m \in Page <=> m <= Cursor
    BY <1>7, PageIsPrefix DEF Ends
  <2>2. Cursor \in Nat /\ after < Cursor
    BY <1>3, <2>1 DEF Rest, DigestAssumption
  <2>3. n \in PageNodes <=> ~Marker(n) /\ Turn(n) = pass /\ n > after /\ n <= Cursor
    BY <1>3, <1>5, <2>1 DEF PageNodes
  <2>4. Counted(n)' <=> ~Marker(n) /\ (Turn(n) < pass \/ (Turn(n) = pass /\ n <= Cursor))
    <3>1. Counted(n)' <=> ~Marker(n)' /\ (Turn(n)' < pass' \/ (Turn(n)' = pass' /\ n <= after'))
      BY DEF Counted
    <3> QED BY <1>1, <1>2, <1>7, <3>1
  <2>5. Counted(n) <=> ~Marker(n) /\ (Turn(n) < pass \/ (Turn(n) = pass /\ n <= after))
    BY DEF Counted
  <2>6. /\ (Turn(n) < pass \/ (Turn(n) = pass /\ n <= Cursor))
              <=> (Turn(n) < pass \/ (Turn(n) = pass /\ n <= after) \/ (Turn(n) = pass /\ n > after /\ n <= Cursor))
        /\ ~(Turn(n) = pass /\ n > after /\ (Turn(n) < pass \/ (Turn(n) = pass /\ n <= after)))
    BY <1>2, <2>2, Ordered
  <2>7. n \in PageNodes => NoIdentity(n) <=> Corrupt(n)
    BY <1>4
  <2>8. PageNodes \subseteq Nodes
    BY <1>3 DEF PageNodes
  <2> QED BY <2>3, <2>4, <2>5, <2>6, <2>7, <2>8
<1> QED BY <1>6, <1>7

LEMMA StepProgress ==
  ASSUME DigestAssumption, DigestInv, ScanPage
  PROVE  DigestInv'
<1> DEFINE ids == pending \cup {NodeSource[n] : n \in PageNodes} \cup {EdgeSource[e] : e \in PageRels}
<1>1. /\ ~Done
      /\ nodeHashes' = [n \in Nodes |-> nodeHashes[n] + (IF n \in PageNodes THEN 1 ELSE 0)]
      /\ relHashes' = [e \in edges |-> relHashes[e] + (IF e \in PageRels THEN 1 ELSE 0)]
      /\ missing' = missing + Cardinality({n \in PageNodes : NoIdentity(n)})
      /\ IF FlushDue(ids, Ends) THEN orphans' = Collect(ids) /\ pending' = {} ELSE pending' = ids /\ orphans' = orphans
      /\ IF Ends THEN pass' = pass + 1 /\ after' = 0 ELSE after' = Cursor /\ pass' = pass
      /\ kind' = kind /\ edges' = edges /\ batch' = batch
  BY StepFacts
<1>2. /\ PageNodes \subseteq Nodes /\ PageRels \subseteq edges /\ \A e \in edges : e[1] \in Nodes
      /\ \A e \in PageRels : e[1] \in PageNodes
  BY PageIsPrefix, Numbers DEF PageNodes, PageRels
<1>3. /\ \A n \in Nodes : Counted(n)' <=> Counted(n) \/ n \in PageNodes
      /\ \A n \in PageNodes : ~Counted(n) /\ (NoIdentity(n) <=> Corrupt(n))
  BY <1>2, CountedGrows
<1>4. CountedNodes' = CountedNodes \cup PageNodes
  BY <1>2, <1>3 DEF CountedNodes
<1>5. CountedEdges' = CountedEdges \cup PageRels
  <2>1. \A e \in edges : e[1] \in PageNodes <=> e \in PageRels
    BY <1>2 DEF PageNodes, PageRels
  <2> QED BY <1>1, <1>2, <1>3, <2>1 DEF CountedEdges
<1>6. IsFiniteSet(Nodes) /\ IsFiniteSet(edges) /\ IsFiniteSet(PageNodes) /\ IsFiniteSet(PageRels)
  BY <1>2, Numbers, FS_Subset DEF DigestAssumption
<1>7. IsFiniteSet(ids)
  <2> DEFINE f == [n \in PageNodes |-> NodeSource[n]]
             g == [e \in PageRels |-> EdgeSource[e]]
             A == {NodeSource[n] : n \in PageNodes}
             B == {EdgeSource[e] : e \in PageRels}
  <2>1. f \in Surjection(PageNodes, A) /\ g \in Surjection(PageRels, B)
    BY DEF Surjection
  <2>2. IsFiniteSet(A) /\ IsFiniteSet(B) /\ IsFiniteSet(pending)
    BY <1>6, <2>1, FS_Surjection DEF DigestInv, DigestTyped
  <2> HIDE DEF A, B
  <2>3. IsFiniteSet(pending \cup A \cup B)
    BY <2>2, FS_Union
  <2> QED BY <2>3 DEF A, B
<1>8. PendingBounded' /\ IsFiniteSet(pending')
  <2> HIDE DEF ids
  <2>1. FlushAt \in Nat \ {0}
    BY DEF DigestAssumption
  <2>2. CASE pending' = {}
    BY <2>1, <2>2, FS_EmptySet DEF PendingBounded
  <2>3. CASE pending' # {}
    <3>1. pending' = ids /\ ~(Cardinality(ids) >= FlushAt)
      BY <1>1, <2>3 DEF FlushDue
    <3> QED BY <1>7, <2>1, <3>1, FS_CardinalityType DEF PendingBounded
  <2> QED BY <2>2, <2>3
<1>9. /\ \A n \in Nodes : nodeHashes'[n] = IF Counted(n)' THEN 1 ELSE 0
      /\ \A e \in edges : relHashes'[e] = IF Counted(e[1])' THEN 1 ELSE 0
  <2>1. \A n \in Nodes : nodeHashes'[n] = IF Counted(n)' THEN 1 ELSE 0
    <3>1. \A n \in Nodes : nodeHashes[n] = IF Counted(n) THEN 1 ELSE 0
      BY DEF DigestInv, Progress
    <3>2. \A n \in Nodes : nodeHashes'[n] = nodeHashes[n] + (IF n \in PageNodes THEN 1 ELSE 0)
      BY <1>1
    <3> QED BY <1>3, <3>1, <3>2
  <2>2. \A e \in edges : relHashes'[e] = IF Counted(e[1])' THEN 1 ELSE 0
    <3>1. \A e \in edges : relHashes[e] = IF Counted(e[1]) THEN 1 ELSE 0
      BY DEF DigestInv, Progress
    <3>2. \A e \in edges : relHashes'[e] = relHashes[e] + (IF e[1] \in PageNodes THEN 1 ELSE 0)
      BY <1>1, <1>2 DEF PageNodes, PageRels
    <3> QED BY <1>2, <1>3, <3>1, <3>2
  <2> QED BY <2>1, <2>2
<1>10. missing' = Cardinality({n \in CountedNodes' : Corrupt(n)'})
  <2> DEFINE A == {n \in CountedNodes : Corrupt(n)}
             B == {n \in PageNodes : NoIdentity(n)}
  <2>1. {n \in CountedNodes' : Corrupt(n)'} = A \cup B /\ A \cap B = {}
    <3>1. \A n : Corrupt(n)' <=> Corrupt(n)
      BY <1>1 DEF Corrupt
    <3>2. {n \in CountedNodes' : Corrupt(n)'} = {n \in CountedNodes \cup PageNodes : Corrupt(n)}
      BY <1>4, <3>1
    <3>3. \A n \in CountedNodes : n \in Nodes /\ Counted(n)
      BY DEF CountedNodes
    <3> QED BY <1>3, <3>2, <3>3
  <2>2. IsFiniteSet(A) /\ IsFiniteSet(B)
    BY <1>2, <1>6, FS_Subset DEF CountedNodes
  <2>3. missing = Cardinality(A) /\ missing' = missing + Cardinality(B)
    BY <1>1 DEF DigestInv, Progress
  <2>4. Cardinality(A \cup B) = Cardinality(A) + Cardinality(B) - Cardinality(A \cap B)
    <3> HIDE DEF A, B
    <3> QED BY <2>2, FS_Union
  <2>5. Cardinality(A \cap B) = 0 /\ Cardinality(A) \in Nat /\ Cardinality(B) \in Nat
    <3> HIDE DEF A, B
    <3> QED BY <2>1, <2>2, FS_EmptySet, FS_CardinalityType
  <2>6. missing' = Cardinality(A \cup B)
    <3> HIDE DEF A, B
    <3> QED BY <2>3, <2>4, <2>5
  <2> QED BY <2>1, <2>6
<1>11. Sources(CountedNodes', CountedEdges')
         = Sources(CountedNodes, CountedEdges) \cup {NodeSource[n] : n \in PageNodes} \cup {EdgeSource[e] : e \in PageRels}
  BY <1>4, <1>5 DEF Sources
<1>12. /\ pending' \subseteq Sources(CountedNodes', CountedEdges')
       /\ orphans' \cup (pending' \ Ledger) = Sources(CountedNodes', CountedEdges') \ Ledger
  <2>1. /\ pending \subseteq Sources(CountedNodes, CountedEdges)
        /\ orphans \cup (pending \ Ledger) = Sources(CountedNodes, CountedEdges) \ Ledger
    BY DEF DigestInv, Progress
  <2>2. CASE FlushDue(ids, Ends)
    <3>1. orphans' = orphans \cup (ids \ Ledger) /\ pending' = {}
      BY <1>1, <2>2 DEF Collect
    <3> QED BY <1>11, <2>1, <3>1
  <2>3. CASE ~FlushDue(ids, Ends)
    <3>1. pending' = ids /\ orphans' = orphans
      BY <1>1, <2>3
    <3> QED BY <1>11, <2>1, <3>1
  <2> QED BY <2>2, <2>3
<1>13. Done' => pending' = {}
  <2> SUFFICES ASSUME Done' PROVE pending' = {}
    OBVIOUS
  <2>1. pass' > Fallback /\ pass \in Nat /\ Fallback \in Nat /\ ~(pass > Fallback)
    BY <1>1, Numbers DEF Done, Fallback
  <2>2. Ends /\ pass = Fallback
    BY <1>1, <2>1
  <2>3. FlushDue(ids, Ends)
    BY <2>2 DEF FlushDue
  <2> QED BY <1>1, <2>3
<1>14. DigestTyped'
  <2>1. pass' \in 1..(Fallback + 1) /\ after' \in Nat
    <3>1. pass \in 1..Fallback /\ Fallback \in Nat
      BY <1>1, Numbers DEF Done, DigestInv, DigestTyped
    <3>2. ~Ends => Cursor \in Nodes
      BY PageIsPrefix DEF Ends
    <3> QED BY <1>1, <3>1, <3>2 DEF DigestInv, DigestTyped, DigestAssumption
  <2>2. nodeHashes' \in [Nodes -> Nat] /\ relHashes' \in [edges -> Nat]
    BY <1>1 DEF DigestInv, DigestTyped
  <2>3. missing' \in Nat
    <3>1. IsFiniteSet({n \in PageNodes : NoIdentity(n)})
      BY <1>6, FS_Subset
    <3>2. Cardinality({n \in PageNodes : NoIdentity(n)}) \in Nat /\ missing \in Nat
      BY <3>1, FS_CardinalityType DEF DigestInv, DigestTyped
    <3> QED BY <1>1, <3>2
  <2> QED BY <1>1, <1>8, <2>1, <2>2, <2>3 DEF DigestInv, DigestTyped, Fallback
<1>15. Progress'
  BY <1>1, <1>9, <1>10, <1>12, <1>13 DEF Progress
<1> QED BY <1>8, <1>14, <1>15 DEF DigestInv

LEMMA DigestStarts == ASSUME DigestAssumption, Init PROVE DigestInv
<1>1. Cardinality(Keyed) \in Nat
  BY FS_CardinalityType DEF DigestAssumption
<1>2. \A n \in Nodes : ~Counted(n)
  <2> SUFFICES ASSUME NEW n \in Nodes PROVE ~Counted(n)
    OBVIOUS
  <2>1. kind[n].keys \subseteq Keyed /\ Keyed = 1..Cardinality(Keyed) /\ n \in Nat \ {0} /\ pass = 1 /\ after = 0
    BY DEF Init, DigestAssumption
  <2>2. kind[n].keys \in SUBSET Nat
    BY <1>1, <2>1
  <2>3. kind[n].keys # {} => Min(kind[n].keys) \in Keyed
    BY <2>1, <2>2, LeastIn
  <2>4. Turn(n) \in Nat /\ Turn(n) >= 1
    BY <1>1, <2>1, <2>3 DEF Turn, Fallback
  <2> QED BY <2>1, <2>4 DEF Counted
<1>3. CountedNodes = {} /\ CountedEdges = {}
  BY <1>2 DEF CountedNodes, CountedEdges, Init, DigestAssumption
<1>4. {n \in CountedNodes : Corrupt(n)} = {} /\ Sources(CountedNodes, CountedEdges) = {}
  BY <1>3 DEF Sources
<1>5. Progress
  <2>1. \A e \in edges : e[1] \in Nodes
    BY DEF Init, DigestAssumption
  <2> QED BY <1>2, <1>4, <2>1, FS_EmptySet DEF Progress, Init
<1>6. DigestTyped /\ PendingBounded
  BY <1>1, FS_EmptySet DEF DigestTyped, PendingBounded, Init, DigestAssumption, Fallback
<1> QED BY <1>5, <1>6 DEF DigestInv

LEMMA DigestKeeps == ASSUME DigestAssumption, DigestInv, [Next]_vars PROVE DigestInv'
<1>1. CASE Next
  BY <1>1, StepProgress DEF Next
<1>2. CASE UNCHANGED vars
  BY <1>2 DEF vars, DigestInv, DigestTyped, Progress, PendingBounded, CountedNodes, CountedEdges, Counted, Turn,
              Marker, Corrupt, Done
<1> QED BY <1>1, <1>2

(* The inductive invariant of the scan, in every behaviour.                *)
THEOREM DigestIsSafe == ASSUME DigestAssumption PROVE Spec => []DigestInv
<1>1. Init => DigestInv
  BY DigestStarts
<1>2. DigestInv /\ [Next]_vars => DigestInv'
  BY DigestKeeps
<1> QED BY <1>1, <1>2, PTL DEF Spec

\* A finished scan has passed every node but the marker.
LEMMA AllPassed ==
  ASSUME DigestAssumption, DigestInv, Done
  PROVE  \A n \in Nodes : Counted(n) <=> ~Marker(n)
<1> SUFFICES ASSUME NEW n \in Nodes PROVE Counted(n) <=> ~Marker(n)
  OBVIOUS
<1>1. Turn(n) \in 1..Fallback /\ Fallback \in Nat /\ pass \in Nat /\ pass > Fallback
  BY Numbers DEF Done
<1>2. Turn(n) < pass
  BY <1>1
<1> QED BY <1>2 DEF Counted

(* verify.py, compute_graph_digest: every node but the marker, and every   *)
(* relationship, is hashed once, by whatever batches it was read.          *)
THEOREM ItemsAreHashedOnce == ASSUME DigestAssumption PROVE Spec => []EachItemOnce
<1>1. DigestAssumption /\ DigestInv => EachItemOnce
  <2> SUFFICES ASSUME DigestAssumption, DigestInv, Done
               PROVE  /\ \A n \in Nodes : nodeHashes[n] = IF Marker(n) THEN 0 ELSE 1
                      /\ \A e \in edges : relHashes[e] = IF Marker(e[1]) THEN 0 ELSE 1
    BY DEF EachItemOnce
  <2>1. \A e \in edges : e[1] \in Nodes
    BY Numbers
  <2> QED BY <2>1, AllPassed DEF DigestInv, Progress
<1> QED BY <1>1, DigestIsSafe, PTL

(* OrphanCollector: the IDs reported are those of counted items that the   *)
(* ledger does not hold.                                                   *)
THEOREM OrphansAreExact == ASSUME DigestAssumption PROVE Spec => []OrphansExact
<1>1. DigestAssumption /\ DigestInv => OrphansExact
  <2> SUFFICES ASSUME DigestAssumption, DigestInv, Done
               PROVE  orphans = ({NodeSource[n] : n \in {m \in Nodes : ~Marker(m)}}
                                   \cup {EdgeSource[e] : e \in {f \in edges : ~Marker(f[1])}}) \ Ledger
    BY DEF OrphansExact
  <2>1. \A e \in edges : e[1] \in Nodes
    BY Numbers
  <2>2. CountedNodes = {m \in Nodes : ~Marker(m)} /\ CountedEdges = {f \in edges : ~Marker(f[1])}
    BY <2>1, AllPassed DEF CountedNodes, CountedEdges
  <2>3. orphans = Sources(CountedNodes, CountedEdges) \ Ledger
    BY DEF DigestInv, Progress
  <2> QED BY <2>2, <2>3 DEF Sources
<1> QED BY <1>1, DigestIsSafe, PTL

(* missing_identity: the nodes with a keyed label and none of its keys.    *)
THEOREM MissingIdentityIsExact == ASSUME DigestAssumption PROVE Spec => []MissingIdentityExact
<1>1. DigestAssumption /\ DigestInv => MissingIdentityExact
  <2> SUFFICES ASSUME DigestAssumption, DigestInv, Done
               PROVE  missing = Cardinality({n \in Nodes : /\ kind[n].keys = {}
                                                           /\ kind[n].labels \cap Keyed # {}
                                                           /\ History \notin kind[n].labels})
    BY DEF MissingIdentityExact
  <2>1. {n \in CountedNodes : Corrupt(n)} = {n \in Nodes : /\ kind[n].keys = {}
                                                           /\ kind[n].labels \cap Keyed # {}
                                                           /\ History \notin kind[n].labels}
    BY AllPassed DEF CountedNodes, Corrupt, Marker
  <2> QED BY <2>1 DEF DigestInv, Progress
<1> QED BY <1>1, DigestIsSafe, PTL

(* _SOURCE_ID_FLUSH: between pages fewer source IDs than that are held.    *)
THEOREM PendingStaysBounded == ASSUME DigestAssumption PROVE Spec => []PendingBounded
<1>1. DigestInv => PendingBounded
  BY DEF DigestInv
<1> QED BY <1>1, DigestIsSafe, PTL

(* verify.py: the scan behind a digest counts every item once, reports     *)
(* exactly the orphans and the corrupt nodes, and holds a bounded set, for *)
(* any graph, batch size and ledger.                                       *)
THEOREM ScansAreExact == ASSUME DigestAssumption PROVE Spec => []ScanExact
<1>1. EachItemOnce /\ OrphansExact /\ MissingIdentityExact /\ PendingBounded => ScanExact
  BY DEF ScanExact
<1> QED BY <1>1, ItemsAreHashedOnce, OrphansAreExact, MissingIdentityIsExact, PendingStaysBounded, PTL
=============================================================================
