----------------------- MODULE IdentityResolutionProofs -----------------------
(***************************************************************************)
(* Proofs about IdentityResolution for any number of drains, triggers, raw *)
(* profiles and masters, any observations and batch sizes, and any number  *)
(* of errors, crashes and lost leases.                                     *)
(***************************************************************************)
EXTENDS IdentityResolution, Integers, FiniteSetTheorems, WellFoundedInduction, TLAPS

(***************************************************************************)
(* The inductive invariant.  What a transaction has written counts as much *)
(* as what is committed: a worker's links lead to masters it can see, no   *)
(* address has two owners in what any transaction sees, and no two open    *)
(* transactions have written one row or one address, so that either may    *)
(* commit first.  While no two have been open together, the open one sees  *)
(* no orphan and what it read is still true.                               *)
(***************************************************************************)

OpenPc == {"find", "link", "update", "create", "link new", "mark", "commit"}
WithObservation == {"link", "update", "create", "link new", "mark"}
WithMaster == {"link", "update", "link new", "mark"}

\* A row and a link as the transaction of a worker in state x sees them, where
\* m and l are committed.
RowOf(x, m, i) == IF i \in DOMAIN x.txn.over THEN x.txn.over[i] ELSE m[i]
LinkOf(x, l, p) == IF p \in DOMAIN x.txn.links THEN x.txn.links[p] ELSE l[p]

\* What the code of a worker relies on at each place.
LocalPc(w, x) ==
  /\ x.pc \in WithObservation => x.cur \in x.todo
  /\ x.pc \in WithMaster => x.id \in Ids
  /\ x.pc \notin OpenPc => x.txn = NoTxn
  /\ x.pc = "idle" => x.resolved = {}
  /\ x.pc \in {"refresh", "project"} => w \in Drains

\* The masters it works on, and those it has linked, exist as it sees them.
LocalRows(x, m) ==
  /\ x.pc \in WithMaster => RowOf(x, m, x.id) # Absent
  /\ \A p \in DOMAIN x.txn.links : RowOf(x, m, x.txn.links[p]) # Absent

\* A profile is linked before it is marked.
LocalLinks(x, l) ==
  /\ x.pc \in {"update", "mark"} => LinkOf(x, l, x.cur[1]) # 0
  /\ \A p \in DOMAIN x.txn.marks : LinkOf(x, l, p) # 0

\* What a transaction has read or marked is not newer than the row.
LocalVers(x, r) ==
  /\ \A p \in DOMAIN x.txn.marks : x.txn.marks[p] <= r[p].ver
  /\ \A c \in x.todo : c[2] <= r[c[1]].ver

Local(w, x, m, l, r) ==
  LocalPc(w, x) /\ LocalRows(x, m) /\ LocalLinks(x, l) /\ LocalVers(x, r)

\* No address has two owners in what a transaction sees, nor in what two
\* transactions have written.
UniqueRows(x, m) ==
  \A i, j \in Ids : i # j /\ RowOf(x, m, i).email # None
                      => RowOf(x, m, i).email # RowOf(x, m, j).email

Apart(x, z) ==
  /\ DOMAIN x.txn.over \cap DOMAIN z.txn.over = {}
  /\ \A i \in DOMAIN x.txn.over, j \in DOMAIN z.txn.over :
       x.txn.over[i].email # None => x.txn.over[i].email # z.txn.over[j].email

OneOwner ==
  /\ EmailHasOneOwner
  /\ \A w \in Workers : UniqueRows(run[w], master)
  /\ \A w, v \in Workers : w # v => Apart(run[w], run[v])

\* What holds of a transaction that no other one overlaps.
NoOrphan(x, m, l) ==
  \A i \in Ids : RowOf(x, m, i) # Absent =>
    (x.pc = "link new" /\ i = x.id) \/ \E p \in Raws : LinkOf(x, l, p) = i

OwnedElsewhere(x, m) ==
  \E j \in Ids \ {x.id} : EmailOf(x.cur) # None /\ RowOf(x, m, j).email = EmailOf(x.cur)

ReadIsCurrent(x, m) ==
  x.pc = "update" =>
    /\ x.read.email = RowOf(x, m, x.id).email
    /\ x.read.conflict <=> OwnedElsewhere(x, m)

Lone(x, m, l) ==
  /\ NoOrphan(x, m, l) /\ ReadIsCurrent(x, m)
  /\ x.pc = "link new" => LinkOf(x, l, x.cur[1]) = 0

Alone ==
  ~overlapped =>
    /\ \A w, v \in Workers : w # v => ~(run[w].pc \in OpenPc /\ run[v].pc \in OpenPc)
    /\ \A w \in Workers : Lone(run[w], master, link)

\* As long as nothing fails, the drains that are running hold the lease, and what is
\* still to be projected is in the hands of one of them.
Pending ==
  faults = 0 =>
    /\ \A w \in Drains : run[w].pc # "idle" => lease = w
    /\ ~overlapped => \A i \in owed : \E w \in Drains : i \in run[w].resolved

\* A row that is new or processed has an observation.
Versioned == \A p \in Raws : raw[p].status # 0 => raw[p].ver > 0

IdInv ==
  /\ TypeOK /\ Versioned /\ ProcessedIsLinked /\ NoOrphanMaster
  /\ \A w \in Workers : Local(w, run[w], master, link, raw)
  /\ OneOwner /\ Alone /\ Pending

-----------------------------------------------------------------------------
\* A partial function is a function on some of the keys.
LEMMA InPartial ==
  /\ \A D, R : \A P \in SUBSET D : \A f \in [P -> R] : f \in Partial(D, R)
  /\ \A D, R : \A f \in Partial(D, R) :
       DOMAIN f \subseteq D /\ f \in [DOMAIN f -> R] /\ \A x \in DOMAIN f : f[x] \in R
<1>1. ASSUME NEW D, NEW R, NEW P \in SUBSET D, NEW f \in [P -> R]
      PROVE  f \in Partial(D, R)
  <2>1. [P -> R] \in {[Q -> R] : Q \in SUBSET D}
    OBVIOUS
  <2>2. QED
    BY <2>1 DEF Partial
<1>2. ASSUME NEW D, NEW R, NEW f \in Partial(D, R)
      PROVE  DOMAIN f \subseteq D /\ f \in [DOMAIN f -> R] /\ \A x \in DOMAIN f : f[x] \in R
  <2>1. PICK P \in SUBSET D : f \in [P -> R]
    BY DEF Partial
  <2>2. QED
    BY <2>1
<1>3. QED
  BY <1>1, <1>2

\* A write keeps a transaction's type.
LEMMA PutKind ==
  ASSUME NEW D, NEW R, NEW f \in Partial(D, R), NEW k \in D, NEW v \in R
  PROVE  Put(f, k, v) \in Partial(D, R)
<1>1. DOMAIN f \subseteq D /\ \A x \in DOMAIN f : f[x] \in R
  BY InPartial
<1>2. Put(f, k, v) \in [DOMAIN f \cup {k} -> R]
  BY <1>1 DEF Put
<1>3. DOMAIN f \cup {k} \in SUBSET D
  BY <1>1
<1>4. QED
  BY <1>2, <1>3, InPartial

\* g is f with v at k.
Extends(g, f, k, v) ==
  /\ DOMAIN g = DOMAIN f \cup {k} /\ g[k] = v
  /\ \A x \in DOMAIN f \ {k} : g[x] = f[x]

\* A write changes one key.
LEMMA PutExtends == \A g, f, k, v : g = Put(f, k, v) => Extends(g, f, k, v)
  BY DEF Put, Extends

\* A row that is absent is not a master and owns no address.
LEMMA RowKinds ==
  /\ Absent \notin Masters /\ Absent.email = None /\ 0 \notin Ids /\ None \in Addresses
  /\ \A i \in Ids : i \in Nat
<1>1. None \notin Range(Domain)
  BY IdentityAssumption DEF Range
<1>2. \A r \in Masters : r.domain # None
  BY <1>1 DEF Masters
<1>3. QED
  BY <1>2, IdentityAssumption DEF Absent, Addresses, Ids

\* The profile, the address, the domain and the device of an observation.
LEMMA ObservationKind ==
  ASSUME NEW c \in Observations
  PROVE  /\ c[1] \in Raws /\ c[2] \in DOMAIN Email[c[1]] /\ c[2] \in Versions /\ c[2] \in Nat
         /\ EmailOf(c) \in Addresses /\ Domain[c[1]] \in Range(Domain)
         /\ {DeviceOf(c)} \ {None} \in SUBSET {DeviceOf(o) : o \in Observations}
<1>1. PICK p \in Raws : c \in {<<p, n>> : n \in DOMAIN Email[p]}
  BY DEF Observations
<1>2. PICK n \in DOMAIN Email[p] : c = <<p, n>>
  BY <1>1
<1>3. c[1] = p /\ c[2] = n
  BY <1>2
<1>4. Email[p] \in Seq(Range(Email[p])) /\ p \in DOMAIN Domain
  BY IdentityAssumption
<1>5. n \in Nat
  BY <1>4
<1>6. n \in Versions
  BY DEF Versions
<1>7. QED
  BY <1>3, <1>4, <1>5, <1>6 DEF Addresses, Range

\* A transaction that has written nothing.
LEMMA NoTxnKind ==
  /\ NoTxn \in [over : Partial(Ids, Masters), links : Partial(Raws, Ids),
                marks : Partial(Raws, Versions)]
  /\ DOMAIN NoTxn.over = {} /\ DOMAIN NoTxn.links = {} /\ DOMAIN NoTxn.marks = {}
<1>1. \A R : <<>> \in [{} -> R]
  BY SMT
<1>2. \A D, R : <<>> \in Partial(D, R)
  BY <1>1, InPartial
<1>3. DOMAIN <<>> = {}
  BY SMT
<1>4. QED
  BY <1>2, <1>3 DEF NoTxn

\* A worker at rest.
LEMMA StartKind ==
  /\ Start \in RunState /\ Start.pc = "idle" /\ Start.txn = NoTxn /\ Start.resolved = {}
  /\ Start.todo = {}
<1>1. NoRead \in [email : Addresses, conflict : BOOLEAN]
  BY RowKinds DEF NoRead
<1>2. QED
  BY <1>1, NoTxnKind DEF Start, RunState

\* The tables and the run of a worker, typed.
LEMMA RunKind ==
  ASSUME TypeOK, NEW w \in Workers
  PROVE  /\ run[w] \in RunState
         /\ run[w].txn.over \in Partial(Ids, Masters)
         /\ run[w].txn.links \in Partial(Raws, Ids)
         /\ run[w].txn.marks \in Partial(Raws, Versions)
         /\ run[w].todo \subseteq Observations
         /\ DOMAIN run[w].txn.over \subseteq Ids
         /\ DOMAIN run[w].txn.links \subseteq Raws
         /\ DOMAIN run[w].txn.marks \subseteq Raws
         /\ \A i \in DOMAIN run[w].txn.over : run[w].txn.over[i] \in Masters
         /\ \A p \in DOMAIN run[w].txn.links : run[w].txn.links[p] \in Ids
         /\ \A p \in DOMAIN run[w].txn.marks : run[w].txn.marks[p] \in Versions
<1>1. run[w] \in RunState
  BY DEF TypeOK
<1>2. /\ run[w].txn.over \in Partial(Ids, Masters)
      /\ run[w].txn.links \in Partial(Raws, Ids)
      /\ run[w].txn.marks \in Partial(Raws, Versions)
      /\ run[w].todo \subseteq Observations
  BY <1>1 DEF RunState
<1>3. QED
  BY <1>1, <1>2, InPartial

\* Being apart is mutual.
LEMMA ApartSym == \A x, z : Apart(x, z) => Apart(z, x)
  BY DEF Apart

\* The steps that leave the tables alone.
LEMMA TablesKept ==
  ASSUME IdInv, NEW w \in Workers, NEW y \in RunState, run' = [run EXCEPT ![w] = y],
         UNCHANGED tables,
         lease' \in Drains \cup {None}, statusRow' \in Triggers \cup {None},
         owed' \subseteq Ids, overlapped' \in BOOLEAN, triggered' \in 0..MaxTriggers,
         faults' \in 0..MaxFaults,
         Local(w, y, master, link, raw), UniqueRows(y, master),
         \A v \in Workers \ {w} : Apart(y, run[v]),
         ~overlapped' => ~overlapped /\ Lone(y, master, link)
                         /\ (y.pc \in OpenPc =>
                               \A v \in Workers \ {w} : run[v].pc \notin OpenPc),
         faults' = 0 => /\ faults = 0
                        /\ \A v \in Drains \ {w} : run[v].pc # "idle" => lease' = v
                        /\ w \in Drains /\ y.pc # "idle" => lease' = w,
         faults' = 0 /\ ~overlapped' =>
           /\ owed' \subseteq owed
           /\ w \in Drains => \A i \in owed' : i \in run[w].resolved => i \in y.resolved
  PROVE  IdInv'
<1>1. run \in [Workers -> RunState] /\ TypeOK
  BY DEF IdInv, TypeOK
<1>2. /\ run' \in [Workers -> RunState] /\ run'[w] = y
      /\ \A v \in Workers \ {w} : run'[v] = run[v]
  BY <1>1
<1>3. raw' = raw /\ master' = master /\ link' = link /\ seen' = seen
  BY DEF tables
<1>4. TypeOK'
  BY <1>1, <1>2, <1>3 DEF TypeOK
<1>5. Versioned' /\ ProcessedIsLinked' /\ EmailHasOneOwner'
  BY <1>3 DEF IdInv, Versioned, ProcessedIsLinked, OneOwner, EmailHasOneOwner
<1>6. NoOrphanMaster'
  BY <1>3 DEF IdInv, NoOrphanMaster
<1>7. \A v \in Workers : Local(v, run[v], master, link, raw)'
  <2>1. \A v \in Workers : Local(v, run'[v], master, link, raw)
    BY <1>2 DEF IdInv
  <2>2. QED
    BY <2>1, <1>3
<1>8. OneOwner'
  <2>1. \A v \in Workers : UniqueRows(run'[v], master)
    BY <1>2 DEF IdInv, OneOwner
  <2>2. \A v \in Workers : UniqueRows(run[v], master)'
    BY <2>1, <1>3
  <2>3. \A u, v \in Workers : u # v => Apart(run'[u], run'[v])
    BY <1>2, ApartSym DEF IdInv, OneOwner
  <2>4. \A u, v \in Workers : u # v => Apart(run[u], run[v])'
    BY <2>3
  <2>5. QED
    BY <1>5, <2>2, <2>4 DEF OneOwner
<1>9. Alone'
  <2> SUFFICES ASSUME ~overlapped'
               PROVE  /\ \A u, v \in Workers :
                           u # v => ~(run'[u].pc \in OpenPc /\ run'[v].pc \in OpenPc)
                      /\ \A v \in Workers : Lone(run'[v], master', link')
    BY DEF Alone
  <2>1. \A u, v \in Workers : u # v => ~(run[u].pc \in OpenPc /\ run[v].pc \in OpenPc)
    BY DEF IdInv, Alone
  <2>2. \A v \in Workers : Lone(run[v], master, link)
    BY DEF IdInv, Alone
  <2>3. \A v \in Workers : Lone(run'[v], master, link)
    BY <1>2, <2>2
  <2>4. \A u, v \in Workers : u # v => ~(run'[u].pc \in OpenPc /\ run'[v].pc \in OpenPc)
    BY <1>2, <2>1
  <2>5. QED
    BY <2>3, <2>4, <1>3
<1>10. Pending'
  <2>1. Drains \subseteq Workers
    BY DEF Workers
  <2>2. ASSUME faults' = 0, NEW v \in Drains, run'[v].pc # "idle" PROVE lease' = v
    BY <2>1, <2>2, <1>2
  <2>3. ASSUME faults' = 0, ~overlapped', NEW i \in owed'
        PROVE  \E v \in Drains : i \in run'[v].resolved
    <3>1. i \in owed /\ faults = 0 /\ ~overlapped
      BY <2>3
    <3>2. PICK v \in Drains : i \in run[v].resolved
      BY <3>1 DEF IdInv, Pending
    <3>3. QED
      BY <2>1, <2>3, <3>2, <1>2
  <2>4. QED
    BY <2>2, <2>3 DEF Pending
<1>11. QED
  BY <1>4, <1>5, <1>6, <1>7, <1>8, <1>9, <1>10 DEF IdInv

\* The steps to a place where no transaction is open.
LEMMA ClosedStep ==
  ASSUME IdInv, NEW w \in Workers, NEW y \in RunState, run' = [run EXCEPT ![w] = y],
         UNCHANGED tables,
         lease' \in Drains \cup {None}, statusRow' \in Triggers \cup {None},
         owed' \subseteq Ids, overlapped' = overlapped, triggered' \in 0..MaxTriggers,
         faults' \in 0..MaxFaults,
         y.pc \notin OpenPc, y.txn = NoTxn, y.todo \subseteq run[w].todo,
         y.pc = "idle" => y.resolved = {},
         y.pc \in {"refresh", "project"} => w \in Drains,
         faults' = 0 => /\ faults = 0
                        /\ \A v \in Drains \ {w} : run[v].pc # "idle" => lease' = v
                        /\ w \in Drains /\ y.pc # "idle" => lease' = w,
         faults' = 0 /\ ~overlapped' =>
           /\ owed' \subseteq owed
           /\ w \in Drains => \A i \in owed' : i \in run[w].resolved => i \in y.resolved
  PROVE  IdInv'
<1>1. DOMAIN y.txn.over = {} /\ DOMAIN y.txn.links = {} /\ DOMAIN y.txn.marks = {}
  BY NoTxnKind
<1>2. /\ \A i \in Ids : RowOf(y, master, i) = master[i]
      /\ \A p \in Raws : LinkOf(y, link, p) = link[p]
  BY <1>1 DEF RowOf, LinkOf
<1>3. y.pc \notin WithObservation /\ y.pc \notin WithMaster /\ y.pc \notin {"update", "mark"}
      /\ y.pc # "link new" /\ y.pc # "update"
  BY DEF OpenPc, WithObservation, WithMaster
<1>4. Local(w, y, master, link, raw)
  <2>1. LocalPc(w, y)
    BY <1>3 DEF LocalPc
  <2>2. LocalRows(y, master) /\ LocalLinks(y, link)
    BY <1>1, <1>3 DEF LocalRows, LocalLinks
  <2>3. LocalVers(run[w], raw)
    BY DEF IdInv, Local
  <2>4. LocalVers(y, raw)
    BY <1>1, <2>3 DEF LocalVers
  <2>5. QED
    BY <2>1, <2>2, <2>4 DEF Local
<1>5. UniqueRows(y, master)
  BY <1>2 DEF IdInv, OneOwner, EmailHasOneOwner, UniqueRows
<1>6. \A v \in Workers \ {w} : Apart(y, run[v])
  BY <1>1 DEF Apart
<1>7. ~overlapped' => Lone(y, master, link)
  <2>1. ASSUME ~overlapped PROVE NoOrphan(y, master, link)
    BY <1>2, <2>1 DEF IdInv, NoOrphanMaster, NoOrphan
  <2>2. QED
    BY <2>1, <1>3 DEF Lone, ReadIsCurrent
<1>8. overlapped' \in BOOLEAN
  BY DEF IdInv, TypeOK
<1>9. QED
  BY <1>4, <1>5, <1>6, <1>7, <1>8, TablesKept

-----------------------------------------------------------------------------
(* The steps.                                                              *)
LEMMA InitResolution == ASSUME Init PROVE IdInv
<1>1. TypeOK
  <2>1. run \in [Workers -> RunState]
    BY StartKind DEF Init
  <2>2. \A p \in Raws : Len(Email[p]) \in Nat
    BY IdentityAssumption
  <2>3. \A p \in Raws : raw[p].ver = 0 /\ seen[p] = 0
    BY DEF Init
  <2>4. \A p \in Raws : seen[p] <= raw[p].ver /\ raw[p].ver <= Len(Email[p])
    BY <2>2, <2>3
  <2>5. raw \in [Raws -> [ver : Nat, status : {0, 1, 3}]] /\ seen \in [Raws -> Nat]
    BY DEF Init
  <2>6. triggered \in 0..MaxTriggers /\ faults \in 0..MaxFaults
    BY IdentityAssumption DEF Init
  <2>7. master \in [Ids -> Masters \cup {Absent}] /\ link \in [Raws -> Ids \cup {0}]
    BY DEF Init
  <2>8. QED
    BY <2>1, <2>4, <2>5, <2>6, <2>7 DEF Init, TypeOK
<1>2. /\ \A w \in Workers : run[w] = Start
      /\ \A i \in Ids : master[i] = Absent
      /\ \A p \in Raws : raw[p].status = 0 /\ link[p] = 0
  BY DEF Init
<1>3. \A w \in Workers : \A i \in Ids : RowOf(run[w], master, i) = Absent
  BY <1>2, StartKind, NoTxnKind DEF RowOf
<1>4. \A w \in Workers : Local(w, run[w], master, link, raw)
  BY <1>2, StartKind, NoTxnKind
  DEF Local, LocalPc, LocalRows, LocalLinks, LocalVers, OpenPc, WithObservation, WithMaster
<1>5. Versioned /\ ProcessedIsLinked /\ NoOrphanMaster
  BY <1>2, RowKinds DEF Versioned, ProcessedIsLinked, NoOrphanMaster
<1>6. OneOwner
  <2>1. EmailHasOneOwner
    BY <1>2, RowKinds DEF EmailHasOneOwner
  <2>2. \A w \in Workers : UniqueRows(run[w], master)
    BY <1>3, RowKinds DEF UniqueRows
  <2>3. \A w, v \in Workers : Apart(run[w], run[v])
    BY <1>2, StartKind, NoTxnKind DEF Apart
  <2>4. QED
    BY <2>1, <2>2, <2>3 DEF OneOwner
<1>7. Alone
  BY <1>2, <1>3, StartKind DEF Alone, Lone, NoOrphan, ReadIsCurrent, OpenPc
<1>8. Pending
  BY <1>2, StartKind DEF Init, Pending, Workers
<1>9. QED
  BY <1>1, <1>4, <1>5, <1>6, <1>7, <1>8 DEF IdInv

\* A new observation makes the row new again; what was read stays behind it.
LEMMA StageStep == ASSUME IdInv, NEW p \in Raws, Stage(p) PROVE IdInv'
<1>1. /\ raw[p].ver < Len(Email[p])
      /\ \A w \in Workers : p \notin DOMAIN run[w].txn.marks
      /\ raw' = [raw EXCEPT ![p] = [ver |-> raw[p].ver + 1, status |-> 1]]
      /\ UNCHANGED <<master, link, lease, statusRow, run, seen, owed, overlapped, triggered,
                     faults>>
  BY DEF Stage, Wrote, Txn, counts
<1>2. TypeOK /\ raw \in [Raws -> [ver : Nat, status : {0, 1, 3}]] /\ raw[p].ver \in Nat
  BY DEF IdInv, TypeOK
<1>3. /\ raw' \in [Raws -> [ver : Nat, status : {0, 1, 3}]]
      /\ raw'[p].ver = raw[p].ver + 1 /\ raw'[p].status = 1
      /\ \A q \in Raws \ {p} : raw'[q] = raw[q]
  BY <1>1, <1>2
<1>4. \A q \in Raws : raw[q].ver \in Nat /\ raw'[q].ver \in Nat /\ raw[q].ver <= raw'[q].ver
  BY <1>2, <1>3
<1>5. TypeOK'
  <2>1. Len(Email[p]) \in Nat
    BY IdentityAssumption
  <2>2. \A q \in Raws : seen'[q] <= raw'[q].ver /\ raw'[q].ver <= Len(Email[q])
    BY <1>1, <1>2, <1>3, <1>4, <2>1 DEF TypeOK
  <2>3. QED
    BY <1>1, <1>2, <1>3, <2>2 DEF TypeOK
<1>6. Versioned' /\ ProcessedIsLinked'
  BY <1>1, <1>3, <1>4 DEF IdInv, Versioned, ProcessedIsLinked
<1>7. NoOrphanMaster' /\ OneOwner' /\ Alone' /\ Pending'
  BY <1>1 DEF IdInv, NoOrphanMaster, OneOwner, EmailHasOneOwner, Alone, Pending
<1>8. ASSUME NEW w \in Workers PROVE Local(w, run[w], master, link, raw)'
  <2>1. Local(w, run[w], master, link, raw)
    BY DEF IdInv
  <2>2. LocalVers(run[w], raw')
    <3>1. \A c \in run[w].todo : c[1] \in Raws /\ c[2] \in Nat
      BY <1>2, RunKind, ObservationKind
    <3>2. \A c \in run[w].todo : c[2] <= raw'[c[1]].ver
      BY <2>1, <3>1, <1>4 DEF Local, LocalVers
    <3>3. \A q \in DOMAIN run[w].txn.marks : q \in Raws \ {p}
      BY <1>1, <1>2, RunKind
    <3>4. QED
      BY <2>1, <3>2, <3>3, <1>3 DEF Local, LocalVers
  <2>3. Local(w, run[w], master, link, raw')
    BY <2>1, <2>2 DEF Local
  <2>4. QED
    BY <2>3, <1>1
<1>9. QED
  BY <1>5, <1>6, <1>7, <1>8 DEF IdInv

\* The steps of the two locks alone.
LEMMA LocksStep ==
  ASSUME IdInv, UNCHANGED <<tables, run, owed, overlapped, triggered>>,
         statusRow' \in Triggers \cup {None}, lease' \in Drains \cup {None},
         faults' \in 0..MaxFaults,
         faults' = 0 => faults = 0 /\ \A v \in Drains : run[v].pc # "idle" => lease' = v
  PROVE  IdInv'
<1>1. raw' = raw /\ master' = master /\ link' = link /\ seen' = seen
  BY DEF tables
<1>2. TypeOK'
  BY <1>1 DEF IdInv, TypeOK
<1>3. Versioned' /\ ProcessedIsLinked' /\ NoOrphanMaster' /\ OneOwner' /\ Alone'
  BY <1>1 DEF IdInv, Versioned, ProcessedIsLinked, NoOrphanMaster, OneOwner,
              EmailHasOneOwner, Alone
<1>4. \A w \in Workers : Local(w, run[w], master, link, raw)'
  BY <1>1 DEF IdInv
<1>5. Pending'
  BY DEF IdInv, Pending
<1>6. QED
  BY <1>2, <1>3, <1>4, <1>5 DEF IdInv

\* A trigger within the interval only gives its row back.
LEMMA ThrottleStep == ASSUME IdInv, NEW w \in Workers, Throttled(w) PROVE IdInv'
<1>1. /\ statusRow' = None /\ lease' = lease /\ faults' = faults
      /\ UNCHANGED <<tables, run, owed, overlapped, triggered>>
  BY DEF Throttled, counts
<1>2. /\ lease' \in Drains \cup {None} /\ faults' \in 0..MaxFaults
      /\ faults = 0 => \A v \in Drains : run[v].pc # "idle" => lease = v
  BY <1>1 DEF IdInv, TypeOK, Pending
<1>3. QED
  BY <1>1, <1>2, LocksStep

\* The lease of a live drain expires as a failure; that of a dead one is held by nobody.
LEMMA ExpireStep == ASSUME IdInv, ExpireLive \/ ExpireDead PROVE IdInv'
<1>1. /\ statusRow' = statusRow /\ lease' = None
      /\ UNCHANGED <<tables, run, owed, overlapped, triggered>>
  BY DEF ExpireLive, ExpireDead, Expired, counts
<1>2. TypeOK /\ statusRow' \in Triggers \cup {None} /\ faults \in 0..MaxFaults
  BY <1>1 DEF IdInv, TypeOK
<1>3. CASE ExpireLive
  <2>1. faults' = faults + 1 /\ faults < MaxFaults
    BY <1>3 DEF ExpireLive
  <2>2. faults' \in 0..MaxFaults /\ faults' # 0
    BY <1>2, <2>1, IdentityAssumption
  <2>3. QED
    BY <1>1, <1>2, <2>2, LocksStep
<1>4. CASE ExpireDead
  <2>1. faults' = faults /\ lease # None /\ run[lease].pc = "idle"
    BY <1>4 DEF ExpireDead, counts
  <2>2. faults = 0 => \A v \in Drains : run[v].pc = "idle"
    BY <2>1 DEF IdInv, Pending
  <2>3. QED
    BY <1>1, <1>2, <2>1, <2>2, LocksStep
<1>5. QED
  BY <1>3, <1>4

\* A drain takes a lease that nobody holds.
LEMMA StartDrainStep == ASSUME IdInv, NEW w \in Workers, StartDrain(w) PROVE IdInv'
<1> DEFINE y == [run[w] EXCEPT !.pc = "fetch"]
<1>1. /\ w \in Drains /\ run[w].pc = "idle" /\ lease = None /\ lease' = w
      /\ run' = [run EXCEPT ![w] = y]
      /\ UNCHANGED <<tables, statusRow, owed, overlapped, triggered, faults>>
  BY DEF StartDrain, Acquirable, Goto, counts
<1>2. TypeOK /\ run[w] \in RunState /\ LocalPc(w, run[w]) /\ Pending
  BY RunKind DEF IdInv, Local
<1>3. /\ y \in RunState /\ y.pc = "fetch" /\ y.txn = run[w].txn /\ y.todo = run[w].todo
      /\ y.resolved = run[w].resolved
  BY <1>2 DEF RunState
<1> HIDE DEF y
<1>4. y.pc \notin OpenPc /\ y.pc # "idle" /\ y.pc \notin {"refresh", "project"}
  BY <1>3 DEF OpenPc
<1>5. y.txn = NoTxn
  BY <1>1, <1>2, <1>3 DEF LocalPc, OpenPc
<1>6. /\ statusRow' \in Triggers \cup {None} /\ owed' \subseteq Ids
      /\ triggered' \in 0..MaxTriggers /\ faults' \in 0..MaxFaults
  BY <1>1, <1>2 DEF TypeOK
<1>7. faults = 0 => \A v \in Drains : run[v].pc = "idle"
  BY <1>1, <1>2, IdentityAssumption DEF Pending, Workers
<1>8. QED
  BY <1>1, <1>3, <1>4, <1>5, <1>6, <1>7, ClosedStep

\* A trigger needs no lease.
LEMMA StartTriggerStep == ASSUME IdInv, NEW w \in Workers, StartTrigger(w) PROVE IdInv'
<1> DEFINE y == [run[w] EXCEPT !.pc = "fetch"]
<1>1. /\ w \in Triggers /\ run[w].pc = "idle" /\ statusRow' = w
      /\ triggered < MaxTriggers /\ triggered' = triggered + 1
      /\ run' = [run EXCEPT ![w] = y]
      /\ UNCHANGED <<tables, lease, owed, overlapped, faults>>
  BY DEF StartTrigger, Goto
<1>2. TypeOK /\ run[w] \in RunState /\ LocalPc(w, run[w]) /\ Pending
  BY RunKind DEF IdInv, Local
<1>3. /\ y \in RunState /\ y.pc = "fetch" /\ y.txn = run[w].txn /\ y.todo = run[w].todo
      /\ y.resolved = run[w].resolved
  BY <1>2 DEF RunState
<1> HIDE DEF y
<1>4. y.pc \notin OpenPc /\ y.pc # "idle" /\ y.pc \notin {"refresh", "project"}
  BY <1>3 DEF OpenPc
<1>5. y.txn = NoTxn
  BY <1>1, <1>2, <1>3 DEF LocalPc, OpenPc
<1>6. /\ lease' \in Drains \cup {None} /\ owed' \subseteq Ids
      /\ triggered' \in 0..MaxTriggers /\ faults' \in 0..MaxFaults
  BY <1>1, <1>2, IdentityAssumption DEF TypeOK
<1>7. w \notin Drains
  BY <1>1, IdentityAssumption
<1>8. QED
  BY <1>1, <1>2, <1>3, <1>4, <1>5, <1>6, <1>7, ClosedStep DEF Pending

\* Nothing is new: the batch ends before it has written.
LEMMA EmptyStep == ASSUME IdInv, NEW w \in Workers, EmptyBatch(w) PROVE IdInv'
<1>1. /\ run[w].pc = "fetch"
      /\ UNCHANGED <<tables, lease, statusRow, owed, overlapped, triggered, faults>>
  BY DEF EmptyBatch, others, counts
<1>2. TypeOK /\ run[w] \in RunState /\ LocalPc(w, run[w]) /\ Pending
  BY RunKind DEF IdInv, Local
<1>3. /\ lease' \in Drains \cup {None} /\ statusRow' \in Triggers \cup {None}
      /\ owed' \subseteq Ids /\ triggered' \in 0..MaxTriggers /\ faults' \in 0..MaxFaults
  BY <1>1, <1>2 DEF TypeOK
<1>4. CASE w \in Drains
  <2> DEFINE y == [run[w] EXCEPT !.pc = "project"]
  <2>1. run' = [run EXCEPT ![w] = y]
    BY <1>4 DEF EmptyBatch, Goto
  <2>2. /\ y \in RunState /\ y.pc = "project" /\ y.txn = run[w].txn
        /\ y.todo = run[w].todo /\ y.resolved = run[w].resolved
    BY <1>2 DEF RunState
  <2> HIDE DEF y
  <2>3. y.txn = NoTxn /\ y.pc \notin OpenPc /\ y.pc # "idle"
    BY <1>1, <1>2, <2>2 DEF LocalPc, OpenPc
  <2>4. QED
    BY <1>1, <1>2, <1>3, <1>4, <2>1, <2>2, <2>3, ClosedStep DEF Pending
<1>5. CASE w \notin Drains
  <2>1. run' = [run EXCEPT ![w] = Start]
    BY <1>5 DEF EmptyBatch
  <2>2. Start.pc \notin OpenPc /\ Start.pc \notin {"refresh", "project"}
    BY StartKind DEF OpenPc
  <2>3. QED
    BY <1>1, <1>2, <1>3, <1>5, <2>1, <2>2, StartKind, ClosedStep DEF Pending
<1>6. QED
  BY <1>4, <1>5

\* A drain between two batches has nothing open.
LEMMA RefreshStep == ASSUME IdInv, NEW w \in Workers, RefreshLease(w) PROVE IdInv'
<1> DEFINE y == [run[w] EXCEPT !.pc =
                   IF run[w].batches < MaxBatches THEN "fetch" ELSE "project"]
<1>1. /\ run[w].pc = "refresh" /\ run' = [run EXCEPT ![w] = y]
      /\ UNCHANGED <<tables, lease, statusRow, owed, overlapped, triggered, faults>>
  BY DEF RefreshLease, Goto, others, counts
<1>2. TypeOK /\ run[w] \in RunState /\ LocalPc(w, run[w]) /\ Pending
  BY RunKind DEF IdInv, Local
<1>3. /\ y \in RunState /\ y.pc \in {"fetch", "project"} /\ y.txn = run[w].txn
      /\ y.todo = run[w].todo /\ y.resolved = run[w].resolved
  BY <1>2 DEF RunState
<1> HIDE DEF y
<1>4. /\ lease' \in Drains \cup {None} /\ statusRow' \in Triggers \cup {None}
      /\ owed' \subseteq Ids /\ triggered' \in 0..MaxTriggers /\ faults' \in 0..MaxFaults
  BY <1>1, <1>2 DEF TypeOK
<1>5. y.txn = NoTxn /\ y.pc \notin OpenPc /\ y.pc # "idle" /\ w \in Drains
  BY <1>1, <1>2, <1>3 DEF LocalPc, OpenPc
<1>6. QED
  BY <1>1, <1>2, <1>3, <1>4, <1>5, ClosedStep DEF Pending

\* What is projected is no longer owed.
LEMMA ProjectStep == ASSUME IdInv, NEW w \in Workers, ProjectProfile(w) PROVE IdInv'
<1>1. PICK i \in run[w].resolved :
        /\ run' = [run EXCEPT ![w] = [run[w] EXCEPT !.resolved = run[w].resolved \ {i}]]
        /\ owed' = owed \ {i}
  BY DEF ProjectProfile
<1> DEFINE y == [run[w] EXCEPT !.resolved = run[w].resolved \ {i}]
<1>2. /\ run[w].pc = "project"
      /\ UNCHANGED <<tables, lease, statusRow, overlapped, triggered, faults>>
  BY DEF ProjectProfile, counts
<1>3. TypeOK /\ run[w] \in RunState /\ LocalPc(w, run[w]) /\ Pending
  BY RunKind DEF IdInv, Local
<1>4. /\ y \in RunState /\ y.pc = "project" /\ y.txn = run[w].txn
      /\ y.todo = run[w].todo /\ y.resolved = run[w].resolved \ {i}
  BY <1>2, <1>3 DEF RunState
<1> HIDE DEF y
<1>5. /\ lease' \in Drains \cup {None} /\ statusRow' \in Triggers \cup {None}
      /\ owed' \subseteq Ids /\ triggered' \in 0..MaxTriggers /\ faults' \in 0..MaxFaults
  BY <1>1, <1>2, <1>3 DEF TypeOK
<1>6. y.txn = NoTxn /\ y.pc \notin OpenPc /\ y.pc # "idle" /\ w \in Drains
  BY <1>2, <1>3, <1>4 DEF LocalPc, OpenPc
<1>7. run' = [run EXCEPT ![w] = y]
  BY <1>1 DEF y
<1>8. QED
  BY <1>1, <1>2, <1>3, <1>4, <1>5, <1>6, <1>7, ClosedStep DEF Pending

\* A drain ends with nothing left to project.
LEMMA FinishStep == ASSUME IdInv, NEW w \in Workers, FinishDrain(w) PROVE IdInv'
<1>1. /\ run[w].pc = "project" /\ run[w].resolved = {}
      /\ run' = [run EXCEPT ![w] = Start] /\ lease' = Released(lease, w)
      /\ UNCHANGED <<tables, statusRow, owed, overlapped, triggered, faults>>
  BY DEF FinishDrain, counts
<1>2. TypeOK /\ LocalPc(w, run[w]) /\ Pending
  BY DEF IdInv, Local
<1>3. /\ lease' \in Drains \cup {None} /\ statusRow' \in Triggers \cup {None}
      /\ owed' \subseteq Ids /\ triggered' \in 0..MaxTriggers /\ faults' \in 0..MaxFaults
  BY <1>1, <1>2 DEF TypeOK, Released
<1>4. w \in Drains
  BY <1>1, <1>2 DEF LocalPc
<1>5. faults = 0 => \A v \in Drains \ {w} : run[v].pc = "idle"
  BY <1>1, <1>2, <1>4 DEF Pending
<1>6. Start.pc \notin OpenPc /\ Start.pc \notin {"refresh", "project"}
  BY StartKind DEF OpenPc
<1>7. QED
  BY <1>1, <1>3, <1>5, <1>6, StartKind, ClosedStep

\* A transaction that ends without a commit takes its writes with it; without
\* a fault that happens to no lone drain.
LEMMA RollbackStep ==
  ASSUME IdInv, NEW w \in Workers, run' = [run EXCEPT ![w] = Start],
         UNCHANGED <<tables, owed, overlapped, triggered>>,
         lease' \in {lease, Released(lease, w)}, statusRow' = Released(statusRow, w),
         faults' \in 0..MaxFaults,
         faults' = 0 => faults = 0 /\ (w \in Drains => overlapped)
  PROVE  IdInv'
<1>1. TypeOK /\ Pending
  BY DEF IdInv
<1>2. /\ lease' \in Drains \cup {None} /\ statusRow' \in Triggers \cup {None}
      /\ owed' \subseteq Ids /\ triggered' \in 0..MaxTriggers
  BY <1>1 DEF TypeOK, Released
<1>3. Start.pc \notin OpenPc /\ Start.pc \notin {"refresh", "project"}
  BY StartKind DEF OpenPc
<1>4. ASSUME faults' = 0, NEW v \in Drains \ {w}, run[v].pc # "idle" PROVE lease' = v
  BY <1>1, <1>4 DEF Pending, Released
<1>5. QED
  BY <1>2, <1>3, <1>4, StartKind, ClosedStep

\* Nobody waits for the transaction of a worker that is alone.
LEMMA LoneNeverWaits ==
  ASSUME IdInv, ~overlapped, NEW w \in Workers, run[w].pc \in OpenPc
  PROVE  \A v \in Workers \ {w} :
           /\ DOMAIN run[v].txn.over = {} /\ DOMAIN run[v].txn.links = {}
           /\ DOMAIN run[v].txn.marks = {}
<1>1. ASSUME NEW v \in Workers \ {w} PROVE run[v].txn = NoTxn
  <2>1. run[v].pc \notin OpenPc
    BY DEF IdInv, Alone
  <2>2. QED
    BY <2>1 DEF IdInv, Local, LocalPc
<1>2. QED
  BY <1>1, NoTxnKind

\* Of two transactions that wait for each other one is rolled back: they overlap.
LEMMA DeadlockStep == ASSUME IdInv, NEW w \in Workers, DeadlockDetected(w) PROVE IdInv'
<1>1. /\ run' = [run EXCEPT ![w] = Start] /\ lease' = Released(lease, w)
      /\ statusRow' = Released(statusRow, w) /\ faults' = faults
      /\ UNCHANGED <<tables, owed, overlapped, triggered>>
  BY DEF DeadlockDetected, Abort
<1>2. PICK v \in Waits(w) : w \in Waits(v)
  BY DEF DeadlockDetected
<1>3. ASSUME ~overlapped PROVE FALSE
  <2>1. run[w].pc \in OpenPc
    BY <1>2 DEF Waits, OpenPc
  <2>2. \A u \in Workers \ {w} : DOMAIN run[u].txn.over = {} /\ DOMAIN run[u].txn.links = {}
                                 /\ DOMAIN run[u].txn.marks = {}
    BY <1>3, <2>1, LoneNeverWaits
  <2>3. \A i : RowHolders(w, i) = {}
    BY <2>2 DEF RowHolders, Wrote, Txn
  <2>4. \A e : EmailHolders(w, e) = {}
    BY <2>2 DEF EmailHolders, Wrote, Txn
  <2>5. \A p : LinkHolders(w, p) = {} /\ MarkHolders(w, p) = {}
    BY <2>2 DEF LinkHolders, MarkHolders, Wrote, Txn
  <2>6. \A e : UpdateWaits(w, e) = {}
    BY <2>3, <2>4 DEF UpdateWaits
  <2>7. Waits(w) = {}
    BY <2>4, <2>5, <2>6 DEF Waits, CreateWaits, LinkNewWaits, MarkWaits
  <2>8. QED
    BY <1>2, <2>7
<1>4. faults' \in 0..MaxFaults
  BY <1>1 DEF IdInv, TypeOK
<1>5. QED
  BY <1>1, <1>3, <1>4, RollbackStep

\* A drain finds its lease lost only after a failure.
LEMMA LostStep == ASSUME IdInv, NEW w \in Workers, LeaseLost(w) PROVE IdInv'
<1>1. /\ run' = [run EXCEPT ![w] = Start] /\ lease' = Released(lease, w)
      /\ statusRow' = Released(statusRow, w) /\ faults' = faults
      /\ UNCHANGED <<tables, owed, overlapped, triggered>>
      /\ run[w].pc = "refresh" /\ lease # w
  BY DEF LeaseLost, Abort, Refreshable
<1>2. faults # 0 \/ w \notin Drains
  BY <1>1 DEF IdInv, Pending
<1>3. faults' \in 0..MaxFaults
  BY <1>1 DEF IdInv, TypeOK
<1>4. QED
  BY <1>1, <1>2, <1>3, RollbackStep

\* An error or a crash rolls back what is open.
LEMMA FaultStep == ASSUME IdInv, NEW w \in Workers, Raise(w) \/ Crash(w) PROVE IdInv'
<1>1. /\ run' = [run EXCEPT ![w] = Start] /\ lease' \in {lease, Released(lease, w)}
      /\ statusRow' = Released(statusRow, w) /\ faults' = faults + 1 /\ faults < MaxFaults
      /\ UNCHANGED <<tables, owed, overlapped, triggered>>
  BY DEF Raise, Crash, Abort
<1>2. faults' \in 0..MaxFaults /\ faults' # 0
  BY <1>1, IdentityAssumption DEF IdInv, TypeOK
<1>3. QED
  BY <1>1, <1>2, RollbackStep

\* The unique index refuses an address exactly when another row the transaction sees has it.
LEMMA Conflicts ==
  ASSUME NEW w \in Workers, NEW i, NEW e
  PROVE  Conflicted(View(w), i, e) <=>
           \E j \in Ids \ {i} : e # None /\ RowOf(run[w], master, j).email = e
  BY DEF Conflicted, View, RowOf, Txn, Wrote

\* A lone transaction updates with what it has read, so the unique index has
\* nothing to refuse.
LEMMA ViolationStep == ASSUME IdInv, NEW w \in Workers, UniqueViolation(w) PROVE IdInv'
<1>1. /\ run' = [run EXCEPT ![w] = Start] /\ lease' = Released(lease, w)
      /\ statusRow' = Released(statusRow, w) /\ faults' = faults
      /\ UNCHANGED <<tables, owed, overlapped, triggered>>
      /\ run[w].pc = "update"
  BY DEF UniqueViolation, Abort
<1> DEFINE x == run[w]
           own == RowOf(x, master, x.id).email
<1>2. PICK e \in MergedEmails(w) : Conflicted(View(w), x.id, e)
  BY DEF UniqueViolation, UniqueIndexAllows
<1>3. PICK j \in Ids \ {x.id} : e # None /\ RowOf(x, master, j).email = e
  BY <1>2, Conflicts
<1>4. x.id \in Ids
  BY <1>1 DEF IdInv, Local, LocalPc, WithMaster
<1>5. e # own
  <2>1. UniqueRows(x, master)
    BY DEF IdInv, OneOwner
  <2>2. QED
    BY <1>3, <1>4, <2>1 DEF UniqueRows
<1>6. ASSUME ~overlapped PROVE FALSE
  <2>1. x.read.email = own /\ (x.read.conflict <=> OwnedElsewhere(x, master))
    BY <1>1, <1>6 DEF IdInv, Alone, Lone, ReadIsCurrent
  <2>2. View(w)[x.id].email = own
    BY <1>4 DEF View, RowOf, Txn, Wrote
  <2>3. CASE x.read.conflict
    BY <1>2, <1>5, <2>2, <2>3 DEF MergedEmails
  <2>4. CASE ~x.read.conflict
    <3>1. e \in {own, EmailOf(x.cur), None}
      BY <1>2, <2>1, <2>4 DEF MergedEmails, Consolidated
    <3>2. e = EmailOf(x.cur)
      BY <1>3, <1>5, <3>1
    <3>3. QED
      BY <1>3, <2>1, <2>4, <3>2 DEF OwnedElsewhere
  <2>5. QED
    BY <2>3, <2>4
<1>7. faults' \in 0..MaxFaults
  BY <1>1 DEF IdInv, TypeOK
<1>8. QED
  BY <1>1, <1>6, <1>7, RollbackStep

\* The steps of an open transaction.
LEMMA OpenStep ==
  ASSUME IdInv, NEW w \in Workers, NEW y \in RunState, run' = [run EXCEPT ![w] = y],
         UNCHANGED others, run[w].pc \in OpenPc, y.pc \in OpenPc,
         y.resolved = run[w].resolved,
         Local(w, y, master, link, raw), UniqueRows(y, master),
         \A v \in Workers \ {w} : Apart(y, run[v]),
         ~overlapped => Lone(y, master, link)
  PROVE  IdInv'
<1>1. UNCHANGED <<tables, lease, statusRow, owed, overlapped, triggered, faults>>
  BY DEF others, counts
<1>2. TypeOK /\ Pending /\ Alone
  BY DEF IdInv
<1>3. /\ lease' \in Drains \cup {None} /\ statusRow' \in Triggers \cup {None}
      /\ owed' \subseteq Ids /\ triggered' \in 0..MaxTriggers /\ faults' \in 0..MaxFaults
      /\ overlapped' \in BOOLEAN
  BY <1>1, <1>2 DEF TypeOK
<1>4. ~overlapped => \A v \in Workers \ {w} : run[v].pc \notin OpenPc
  BY <1>2 DEF Alone
<1>5. run[w].pc # "idle" /\ y.pc # "idle"
  BY DEF OpenPc
<1>6. faults = 0 => \A v \in Drains : run[v].pc # "idle" => lease = v
  BY <1>2 DEF Pending
<1>7. faults = 0 => (w \in Drains => lease = w)
  BY <1>5, <1>6
<1>8. QED
  BY <1>1, <1>3, <1>4, <1>5, <1>6, <1>7, TablesKept

\* A step that writes no row leaves what the transaction sees and has written.
LEMMA RowsKept ==
  ASSUME IdInv, NEW w \in Workers, NEW y, y.txn.over = run[w].txn.over
  PROVE  /\ \A i : RowOf(y, master, i) = RowOf(run[w], master, i)
         /\ UniqueRows(y, master)
         /\ \A v \in Workers \ {w} : Apart(y, run[v])
<1>1. \A i : RowOf(y, master, i) = RowOf(run[w], master, i)
  BY DEF RowOf
<1>2. UniqueRows(run[w], master) /\ \A v \in Workers \ {w} : Apart(run[w], run[v])
  BY DEF IdInv, OneOwner
<1>3. UniqueRows(y, master)
  BY <1>1, <1>2 DEF UniqueRows
<1>4. \A v \in Workers \ {w} : Apart(y, run[v])
  BY <1>2 DEF Apart
<1>5. QED
  BY <1>1, <1>3, <1>4

\* The same for links.
LEMMA LinksKept ==
  ASSUME NEW x, NEW y, y.txn.links = x.txn.links
  PROVE  \A p : LinkOf(y, link, p) = LinkOf(x, link, p)
  BY DEF LinkOf

\* What a transaction sees has the tables' types.
LEMMA ViewKind ==
  ASSUME TypeOK, NEW w \in Workers
  PROVE  /\ \A i \in Ids : /\ RowOf(run[w], master, i) \in Masters \cup {Absent}
                           /\ RowOf(run[w], master, i).email \in Addresses
                           /\ View(w)[i] = RowOf(run[w], master, i)
         /\ \A p \in Raws : /\ LinkOf(run[w], link, p) \in Ids \cup {0}
                            /\ LinkView(w)[p] = LinkOf(run[w], link, p)
<1>1. \A i \in Ids : RowOf(run[w], master, i) \in Masters \cup {Absent}
  BY RunKind DEF TypeOK, RowOf
<1>2. \A r \in Masters \cup {Absent} : r.email \in Addresses
  BY RowKinds DEF Masters
<1>3. \A p \in Raws : LinkOf(run[w], link, p) \in Ids \cup {0}
  BY RunKind DEF TypeOK, LinkOf
<1>4. QED
  BY <1>1, <1>2, <1>3 DEF View, LinkView, RowOf, LinkOf, Txn, Wrote

\* What a worker's state gives at a place with an observation or a master.
LEMMA AtObservation ==
  ASSUME IdInv, NEW w \in Workers, run[w].pc \in WithObservation
  PROVE  /\ run[w].cur \in run[w].todo /\ run[w].cur \in Observations
         /\ run[w].cur[1] \in Raws /\ run[w].pc \in OpenPc
         /\ run[w].pc \in WithMaster =>
              run[w].id \in Ids /\ RowOf(run[w], master, run[w].id) # Absent
<1>1. TypeOK /\ LocalPc(w, run[w]) /\ LocalRows(run[w], master)
  BY DEF IdInv, Local
<1>2. run[w].todo \subseteq Observations /\ run[w].cur \in run[w].todo
  BY <1>1, RunKind DEF LocalPc
<1>3. QED
  BY <1>1, <1>2, ObservationKind DEF LocalPc, LocalRows, WithObservation, OpenPc

\* A match is a master that the transaction sees.
LEMMA FindStep == ASSUME IdInv, NEW w \in Workers, FindMasterProfile(w) PROVE IdInv'
<1> DEFINE x == run[w]
<1>0. run \in [Workers -> RunState]
  BY DEF IdInv, TypeOK
<1>1. x.pc = "find" /\ UNCHANGED others
  BY DEF FindMasterProfile
<1>2. PICK c \in x.todo :
        \/ run' = [run EXCEPT ![w] = [x EXCEPT !.pc = "create", !.cur = c]]
        \/ \E i \in BestMatches(View(w), c) :
             run' = [run EXCEPT ![w] = [x EXCEPT !.pc = "link", !.cur = c, !.id = i]]
  <2>1. PICK c \in x.todo :
          \/ run' = [run EXCEPT ![w].pc = "create", ![w].cur = c]
          \/ \E i \in BestMatches(View(w), c) :
               run' = [run EXCEPT ![w].pc = "link", ![w].cur = c, ![w].id = i]
    BY Zenon DEF FindMasterProfile
  <2>2. [run EXCEPT ![w].pc = "create", ![w].cur = c]
          = [run EXCEPT ![w] = [x EXCEPT !.pc = "create", !.cur = c]]
    BY <1>0
  <2>3. \A i : [run EXCEPT ![w].pc = "link", ![w].cur = c, ![w].id = i]
                = [run EXCEPT ![w] = [x EXCEPT !.pc = "link", !.cur = c, !.id = i]]
    BY <1>0
  <2>4. QED
    BY Zenon, <2>1, <2>2, <2>3
<1>3. TypeOK /\ x \in RunState /\ x.todo \subseteq Observations /\ Local(w, x, master, link, raw)
  BY RunKind DEF IdInv
<1>4. ASSUME NEW y \in RunState, y.pc \in {"create", "link"}, y.cur = c, y.txn = x.txn,
             y.todo = x.todo, y.resolved = x.resolved, run' = [run EXCEPT ![w] = y],
             y.pc = "link" => y.id \in Ids /\ RowOf(x, master, y.id) # Absent
      PROVE  IdInv'
  <2>1. /\ \A i : RowOf(y, master, i) = RowOf(x, master, i)
        /\ \A p : LinkOf(y, link, p) = LinkOf(x, link, p)
        /\ UniqueRows(y, master) /\ \A v \in Workers \ {w} : Apart(y, run[v])
    BY <1>4, RowsKept, LinksKept
  <2>2. Local(w, y, master, link, raw)
    <3>1. LocalPc(w, y)
      BY <1>4 DEF LocalPc, OpenPc, WithMaster
    <3>2. LocalRows(y, master)
      BY <1>3, <1>4, <2>1 DEF Local, LocalRows, WithMaster
    <3>3. LocalLinks(y, link)
      BY <1>3, <1>4, <2>1 DEF Local, LocalLinks
    <3>4. LocalVers(y, raw)
      BY <1>3, <1>4 DEF Local, LocalVers
    <3>5. QED
      BY <3>1, <3>2, <3>3, <3>4 DEF Local
  <2>3. ASSUME ~overlapped PROVE Lone(y, master, link)
    <3>1. NoOrphan(x, master, link)
      BY <2>3 DEF IdInv, Alone, Lone
    <3>2. NoOrphan(y, master, link)
      BY <1>1, <2>1, <3>1 DEF NoOrphan
    <3>3. QED
      BY <1>4, <3>2 DEF Lone, ReadIsCurrent
  <2>4. x.pc \in OpenPc /\ y.pc \in OpenPc
    BY <1>1, <1>4 DEF OpenPc
  <2>5. QED
    BY <1>1, <1>4, <2>1, <2>2, <2>3, <2>4, OpenStep
<1>5. CASE run' = [run EXCEPT ![w] = [x EXCEPT !.pc = "create", !.cur = c]]
  <2> DEFINE y == [x EXCEPT !.pc = "create", !.cur = c]
  <2>1. /\ y \in RunState /\ y.pc = "create" /\ y.cur = c /\ y.txn = x.txn
        /\ y.todo = x.todo /\ y.resolved = x.resolved
    BY <1>3 DEF RunState
  <2> HIDE DEF y
  <2>2. run' = [run EXCEPT ![w] = y]
    BY <1>5 DEF y
  <2>3. QED
    BY <1>4, <2>1, <2>2
<1>6. ASSUME NEW i \in BestMatches(View(w), c),
             run' = [run EXCEPT ![w] = [x EXCEPT !.pc = "link", !.cur = c, !.id = i]]
      PROVE  IdInv'
  <2> DEFINE y == [x EXCEPT !.pc = "link", !.cur = c, !.id = i]
  <2>1. i \in Ids /\ Score(View(w)[i], c) # 0
    BY DEF BestMatches
  <2>2. View(w)[i].domain = Domain[c[1]]
    BY <2>1 DEF Score
  <2>3. c[1] \in Raws
    BY <1>3, ObservationKind
  <2>4. RowOf(x, master, i) # Absent
    BY <1>3, <2>1, <2>2, <2>3, ViewKind, IdentityAssumption DEF Absent
  <2>5. /\ y \in RunState /\ y.pc = "link" /\ y.cur = c /\ y.txn = x.txn /\ y.id = i
        /\ y.todo = x.todo /\ y.resolved = x.resolved
    BY <1>3, <2>1 DEF RunState
  <2> HIDE DEF y
  <2>6. run' = [run EXCEPT ![w] = y]
    BY <1>6 DEF y
  <2>7. QED
    BY <1>4, <2>1, <2>4, <2>5, <2>6
<1>7. QED
  BY <1>2, <1>5, <1>6

\* INSERT ... ON CONFLICT DO NOTHING: no link is replaced.
LEMMA LinkedFacts ==
  ASSUME IdInv, NEW w \in Workers, NEW p \in Raws, NEW i \in Ids,
         NEW y, y.txn.links = Linked(w, p, i)
  PROVE  /\ Linked(w, p, i) \in Partial(Raws, Ids)
         /\ LinkOf(y, link, p) # 0
         /\ \A q \in Raws : LinkOf(run[w], link, q) # 0
                              => LinkOf(y, link, q) = LinkOf(run[w], link, q)
         /\ LinkOf(run[w], link, p) = 0 => LinkOf(y, link, p) = i
         /\ \A q \in DOMAIN y.txn.links :
              \/ y.txn.links[q] = i
              \/ q \in DOMAIN run[w].txn.links /\ y.txn.links[q] = run[w].txn.links[q]
<1> DEFINE f == run[w].txn.links
<1>1. TypeOK /\ f \in Partial(Raws, Ids) /\ \A q \in DOMAIN f : f[q] \in Ids
  BY RunKind DEF IdInv
<1>2. LinkView(w)[p] = LinkOf(run[w], link, p)
  BY <1>1, ViewKind
<1>3. CASE LinkOf(run[w], link, p) # 0
  <2>1. Linked(w, p, i) = f
    BY <1>2, <1>3 DEF Linked, Txn
  <2>2. QED
    BY <1>1, <1>3, <2>1 DEF LinkOf
<1> HIDE DEF f
<1>4. CASE LinkOf(run[w], link, p) = 0
  <2>1. y.txn.links = Put(f, p, i) /\ Linked(w, p, i) = Put(f, p, i)
    BY <1>2, <1>4 DEF Linked, Txn, f
  <2>2. p \notin DOMAIN f
    BY <1>1, <1>4, RowKinds DEF LinkOf, f
  <2>3. /\ Put(f, p, i) \in Partial(Raws, Ids) /\ DOMAIN y.txn.links = DOMAIN f \cup {p}
        /\ y.txn.links[p] = i /\ \A q \in DOMAIN f \ {p} : y.txn.links[q] = f[q]
    <3>1. Extends(y.txn.links, f, p, i)
      BY <2>1, PutExtends
    <3>2. QED
      BY <1>1, <3>1, PutKind DEF Extends
  <2>4. LinkOf(y, link, p) = i
    BY <2>1, <2>3 DEF LinkOf
  <2>5. \A q \in Raws \ {p} : LinkOf(y, link, q) = LinkOf(run[w], link, q)
    BY <2>1, <2>2, <2>3 DEF LinkOf, f
  <2>6. \A q \in DOMAIN y.txn.links :
          y.txn.links[q] = i \/ (q \in DOMAIN f /\ y.txn.links[q] = f[q])
    BY <2>1, <2>2, <2>3
  <2>7. QED
    BY <1>4, <2>1, <2>3, <2>4, <2>5, <2>6, RowKinds DEF f
<1>5. QED
  BY <1>3, <1>4

\* The link is written, or was there, and the reads are of the rows as they are.
LEMMA LinkStep == ASSUME IdInv, NEW w \in Workers, LinkProfile(w) PROVE IdInv'
<1> DEFINE x == run[w]
           L == Linked(w, x.cur[1], x.id)
           read == [email |-> View(w)[x.id].email,
                    conflict |-> Conflicted(View(w), x.id, EmailOf(x.cur))]
           y == [x EXCEPT !.pc = "update", !.txn = [x.txn EXCEPT !.links = L], !.read = read]
<1>1. x.pc = "link" /\ UNCHANGED others /\ run' = [run EXCEPT ![w] = y]
  BY DEF LinkProfile
<1>2. /\ TypeOK /\ x \in RunState /\ Local(w, x, master, link, raw)
      /\ UniqueRows(x, master)
  BY RunKind DEF IdInv, OneOwner
<1>3. /\ x.cur \in x.todo /\ x.cur \in Observations /\ x.cur[1] \in Raws
      /\ x.id \in Ids /\ RowOf(x, master, x.id) # Absent
  BY <1>1, AtObservation DEF WithObservation, WithMaster
<1>4. read.email \in Addresses /\ read.conflict \in BOOLEAN
  BY <1>2, <1>3, ViewKind DEF Conflicted
<1>5. \A z : z.txn.links = L => L \in Partial(Raws, Ids)
  BY <1>3, LinkedFacts
<1>6. L \in Partial(Raws, Ids)
  <2>1. [x EXCEPT !.txn = [links |-> L]].txn.links = L
    BY <1>2 DEF RunState
  <2>2. QED
    BY <1>5, <2>1
<1>7. /\ y \in RunState /\ y.pc = "update" /\ y.txn.links = L /\ y.txn.over = x.txn.over
      /\ y.txn.marks = x.txn.marks /\ y.todo = x.todo /\ y.cur = x.cur /\ y.id = x.id
      /\ y.resolved = x.resolved /\ y.read = read
  BY <1>2, <1>4, <1>6 DEF RunState
<1>8. read.email = View(w)[x.id].email
      /\ read.conflict = Conflicted(View(w), x.id, EmailOf(x.cur))
  OBVIOUS
<1> HIDE DEF y, read
<1>9. /\ \A i : RowOf(y, master, i) = RowOf(x, master, i)
      /\ UniqueRows(y, master) /\ \A v \in Workers \ {w} : Apart(y, run[v])
  BY <1>7, RowsKept
<1>10. /\ LinkOf(y, link, x.cur[1]) # 0
       /\ \A q \in Raws : LinkOf(x, link, q) # 0 => LinkOf(y, link, q) = LinkOf(x, link, q)
       /\ \A q \in DOMAIN y.txn.links :
            \/ y.txn.links[q] = x.id
            \/ q \in DOMAIN x.txn.links /\ y.txn.links[q] = x.txn.links[q]
  BY <1>3, <1>7, LinkedFacts
<1>11. Local(w, y, master, link, raw)
  <2>1. LocalPc(w, y)
    BY <1>3, <1>7 DEF LocalPc, OpenPc
  <2>2. LocalRows(y, master)
    BY <1>2, <1>3, <1>7, <1>9, <1>10 DEF Local, LocalRows
  <2>3. DOMAIN x.txn.marks \subseteq Raws
    BY <1>2, RunKind
  <2>4. LocalLinks(y, link)
    BY <1>2, <1>7, <1>10, <2>3 DEF Local, LocalLinks
  <2>5. LocalVers(y, raw)
    BY <1>2, <1>7 DEF Local, LocalVers
  <2>6. QED
    BY <2>1, <2>2, <2>4, <2>5 DEF Local
<1>12. ASSUME ~overlapped PROVE Lone(y, master, link)
  <2>1. NoOrphan(x, master, link)
    BY <1>12 DEF IdInv, Alone, Lone
  <2>2. NoOrphan(y, master, link)
    <3>1. ASSUME NEW i \in Ids, RowOf(y, master, i) # Absent
          PROVE  \E p \in Raws : LinkOf(y, link, p) = i
      <4>1. PICK p \in Raws : LinkOf(x, link, p) = i
        BY <1>1, <1>9, <2>1, <3>1 DEF NoOrphan
      <4>2. QED
        BY <1>10, <4>1, RowKinds
    <3>2. QED
      BY <3>1 DEF NoOrphan
  <2>3. y.read.email = RowOf(y, master, y.id).email
    BY <1>2, <1>3, <1>7, <1>8, <1>9, ViewKind
  <2>4. y.read.conflict <=> OwnedElsewhere(y, master)
    BY <1>7, <1>8, <1>9, Conflicts DEF OwnedElsewhere
  <2>5. QED
    BY <1>7, <2>2, <2>3, <2>4 DEF Lone, ReadIsCurrent
<1>13. x.pc \in OpenPc /\ y.pc \in OpenPc
  BY <1>1, <1>7 DEF OpenPc
<1>14. QED
  BY <1>1, <1>7, <1>9, <1>11, <1>12, <1>13, OpenStep

\* A write that no other transaction's rows or addresses stand against, and
\* that the unique index allows.
LEMMA RowWritten ==
  ASSUME IdInv, NEW w \in Workers, NEW i \in Ids, NEW row \in Masters,
         NEW y, Extends(y.txn.over, run[w].txn.over, i, row),
         \A v \in Workers \ {w} : i \notin DOMAIN run[v].txn.over,
         EmailHolders(w, row.email) = {},
         \A j \in Ids \ {i} : row.email # None => RowOf(run[w], master, j).email # row.email
  PROVE  /\ RowOf(y, master, i) = row /\ RowOf(y, master, i) # Absent
         /\ \A j \in Ids \ {i} : RowOf(y, master, j) = RowOf(run[w], master, j)
         /\ UniqueRows(y, master)
         /\ \A v \in Workers \ {w} : Apart(y, run[v])
<1> DEFINE f == run[w].txn.over
           g == y.txn.over
<1>1. TypeOK /\ f \in Partial(Ids, Masters) /\ DOMAIN f \subseteq Ids
  BY RunKind DEF IdInv
<1>2. /\ DOMAIN g = DOMAIN f \cup {i} /\ g[i] = row
      /\ \A j \in DOMAIN f \ {i} : g[j] = f[j]
  BY DEF Extends
<1>3. y.txn.over = g
  OBVIOUS
<1> HIDE DEF g
<1>4. RowOf(y, master, i) = row /\ row # Absent
  BY <1>2, <1>3, RowKinds DEF RowOf
<1>5. \A j \in Ids \ {i} : RowOf(y, master, j) = RowOf(run[w], master, j)
  BY <1>2, <1>3 DEF RowOf
<1>6. UniqueRows(y, master)
  <2>1. UniqueRows(run[w], master)
    BY DEF IdInv, OneOwner
  <2>2. ASSUME NEW j \in Ids, NEW k \in Ids, j # k, RowOf(y, master, j).email # None
        PROVE  RowOf(y, master, j).email # RowOf(y, master, k).email
    <3>1. CASE j = i
      BY <1>4, <1>5, <2>2, <3>1
    <3>2. CASE k = i
      BY <1>4, <1>5, <2>2, <3>2
    <3>3. CASE j # i /\ k # i
      BY <1>5, <2>1, <2>2, <3>3 DEF UniqueRows
    <3>4. QED
      BY <3>1, <3>2, <3>3
  <2>3. QED
    BY <2>2 DEF UniqueRows
<1>7. ASSUME NEW v \in Workers \ {w} PROVE Apart(y, run[v])
  <2> DEFINE h == run[v].txn.over
  <2>1. Apart(run[w], run[v]) /\ DOMAIN h \subseteq Ids
    BY <1>1, RunKind DEF IdInv, OneOwner
  <2>2. DOMAIN g \cap DOMAIN h = {}
    BY <1>2, <2>1 DEF Apart
  <2>3. ASSUME NEW j \in DOMAIN h, row.email # None PROVE h[j].email # row.email
    <3>1. j \in Ids \ {i} /\ j \notin DOMAIN f
      BY <1>2, <2>1, <2>2
    <3>2. RowOf(run[w], master, j) = master[j]
      BY <3>1 DEF RowOf
    <3>3. master[j].email # row.email
      BY <2>3, <3>1, <3>2
    <3>4. v \notin EmailHolders(w, row.email)
      OBVIOUS
    <3>5. QED
      BY <2>3, <3>3, <3>4 DEF EmailHolders, Wrote, Txn
  <2>4. ASSUME NEW k \in DOMAIN g, NEW j \in DOMAIN h, g[k].email # None
        PROVE  g[k].email # h[j].email
    <3>1. CASE k = i
      BY <1>2, <2>3, <2>4, <3>1
    <3>2. CASE k # i
      BY <1>2, <2>1, <2>4, <3>2 DEF Apart
    <3>3. QED
      BY <3>1, <3>2
  <2>5. QED
    BY <1>3, <2>2, <2>4 DEF Apart
<1>8. QED
  BY <1>4, <1>5, <1>6, <1>7

\* The update has waited for whoever wrote the row or the address.
LEMMA UpdateStep == ASSUME IdInv, NEW w \in Workers, UpdateMaster(w) PROVE IdInv'
<1> DEFINE x == run[w]
           D(c) == {DeviceOf(c)} \ {None}
           row(e) == [domain |-> Domain[x.cur[1]], email |-> e,
                      devices |-> View(w)[x.id].devices \cup D(x.cur)]
           y(e) == [x EXCEPT !.pc = "mark", !.read = NoRead,
                             !.txn = [x.txn EXCEPT !.over = Put(x.txn.over, x.id, row(e))]]
<1>1. x.pc = "update" /\ UNCHANGED others
  BY DEF UpdateMaster
<1>2. PICK e \in MergedEmails(w) :
        /\ UpdateWaits(w, e) = {} /\ UniqueIndexAllows(w, x.id, e)
        /\ run' = [run EXCEPT ![w] = y(e)]
  <2>1. PICK e \in MergedEmails(w) :
          /\ UpdateWaits(w, e) = {} /\ UniqueIndexAllows(w, x.id, e)
          /\ run' = [run EXCEPT ![w].pc = "mark", ![w].read = NoRead,
               ![w].txn.over = Put(@, x.id,
                 [domain |-> Domain[x.cur[1]], email |-> e,
                  devices |-> View(w)[x.id].devices \cup ({DeviceOf(x.cur)} \ {None})])]
    BY Zenon DEF UpdateMaster, MergedDevices
  <2>2. run \in [Workers -> RunState]
    BY DEF IdInv, TypeOK
  <2>3. run' = [run EXCEPT ![w] = y(e)]
    BY <2>1, <2>2
  <2>4. QED
    BY <2>1, <2>3
<1>3. /\ TypeOK /\ x \in RunState /\ Local(w, x, master, link, raw)
      /\ x.txn.over \in Partial(Ids, Masters)
  BY RunKind DEF IdInv
<1>4. /\ x.cur \in x.todo /\ x.cur \in Observations /\ x.cur[1] \in Raws
      /\ x.id \in Ids /\ RowOf(x, master, x.id) # Absent
  BY <1>1, AtObservation DEF WithObservation, WithMaster
<1>5. e \in Addresses
  <2>1. View(w)[x.id].email \in Addresses /\ EmailOf(x.cur) \in Addresses /\ None \in Addresses
    BY <1>3, <1>4, ViewKind, ObservationKind, RowKinds
  <2>2. x.read.email \in Addresses
    BY <1>3 DEF RunState
  <2>3. QED
    BY <2>1, <2>2 DEF MergedEmails, Consolidated
<1> DEFINE r == row(e)
<1>6. r \in Masters /\ r.email = e
  <2>1. View(w)[x.id] \in Masters
    BY <1>3, <1>4, ViewKind
  <2>2. D(x.cur) \in SUBSET {DeviceOf(c) : c \in Observations}
    BY <1>4, ObservationKind
  <2>3. Domain[x.cur[1]] \in Range(Domain)
    BY <1>4, ObservationKind
  <2> HIDE DEF D
  <2>4. QED
    BY <1>5, <2>1, <2>2, <2>3 DEF Masters
<1> DEFINE z == y(e)
<1>7. run' = [run EXCEPT ![w] = z] /\ z = [x EXCEPT !.pc = "mark", !.read = NoRead,
             !.txn = [x.txn EXCEPT !.over = Put(x.txn.over, x.id, r)]]
  BY <1>2
<1> HIDE DEF r, y, z
<1>8. Put(x.txn.over, x.id, r) \in Partial(Ids, Masters)
  BY <1>3, <1>4, <1>6, PutKind
<1>9. /\ z \in RunState /\ z.pc = "mark" /\ z.txn.over = Put(x.txn.over, x.id, r)
      /\ z.txn.links = x.txn.links /\ z.txn.marks = x.txn.marks
      /\ z.todo = x.todo /\ z.cur = x.cur /\ z.id = x.id /\ z.resolved = x.resolved
  <2>1. NoRead \in [email : Addresses, conflict : BOOLEAN]
    BY RowKinds DEF NoRead
  <2>2. QED
    BY <1>3, <1>7, <1>8, <2>1 DEF RunState
<1>10. /\ \A v \in Workers \ {w} : x.id \notin DOMAIN run[v].txn.over
       /\ EmailHolders(w, r.email) = {}
  BY <1>2, <1>6 DEF UpdateWaits, RowHolders, Wrote, Txn
<1>11. \A j \in Ids \ {x.id} : r.email # None => RowOf(x, master, j).email # r.email
  BY <1>2, <1>6, Conflicts DEF UniqueIndexAllows
<1>18. Extends(z.txn.over, x.txn.over, x.id, r)
  BY <1>9, PutExtends
<1>12. /\ RowOf(z, master, x.id) # Absent
       /\ \A j \in Ids \ {x.id} : RowOf(z, master, j) = RowOf(x, master, j)
       /\ UniqueRows(z, master) /\ \A v \in Workers \ {w} : Apart(z, run[v])
  BY <1>4, <1>6, <1>10, <1>11, <1>18, RowWritten
<1>13. \A p : LinkOf(z, link, p) = LinkOf(x, link, p)
  BY <1>9, LinksKept
<1>14. Local(w, z, master, link, raw)
  <2>1. LocalPc(w, z)
    BY <1>4, <1>9 DEF LocalPc, OpenPc
  <2>2. LocalRows(z, master)
    <3>1. \A p \in DOMAIN x.txn.links : x.txn.links[p] \in Ids
      BY <1>3, RunKind
    <3>2. QED
      BY <1>3, <1>9, <1>12, <3>1 DEF Local, LocalRows
  <2>3. LocalLinks(z, link)
    BY <1>1, <1>3, <1>9, <1>13 DEF Local, LocalLinks
  <2>4. LocalVers(z, raw)
    BY <1>3, <1>9 DEF Local, LocalVers
  <2>5. QED
    BY <2>1, <2>2, <2>3, <2>4 DEF Local
<1>15. ASSUME ~overlapped PROVE Lone(z, master, link)
  <2>1. NoOrphan(x, master, link)
    BY <1>15 DEF IdInv, Alone, Lone
  <2>2. NoOrphan(z, master, link)
    BY <1>1, <1>4, <1>12, <1>13, <2>1 DEF NoOrphan
  <2>3. QED
    BY <1>9, <2>2 DEF Lone, ReadIsCurrent
<1>16. x.pc \in OpenPc /\ z.pc \in OpenPc
  BY <1>1, <1>9 DEF OpenPc
<1>17. QED
  BY <1>1, <1>7, <1>9, <1>12, <1>14, <1>15, <1>16, OpenStep

\* An earlier link leads to a master that exists.
LEMMA ReuseStep == ASSUME IdInv, NEW w \in Workers, ReuseLink(w) PROVE IdInv'
<1> DEFINE x == run[w]
           k == ExistingLink(w)
           y == [x EXCEPT !.pc = "mark", !.id = k]
<1>1. x.pc = "create" /\ k # 0 /\ UNCHANGED others /\ run' = [run EXCEPT ![w] = y]
  BY DEF ReuseLink
<1>2. TypeOK /\ x \in RunState /\ Local(w, x, master, link, raw)
  BY RunKind DEF IdInv
<1>3. x.cur \in x.todo /\ x.cur[1] \in Raws
  BY <1>1, AtObservation DEF WithObservation
<1>4. k = LinkOf(x, link, x.cur[1]) /\ k \in Ids
  BY <1>1, <1>2, <1>3, ViewKind DEF ExistingLink
<1>5. RowOf(x, master, k) # Absent
  <2>1. CASE x.cur[1] \in DOMAIN x.txn.links
    BY <1>2, <1>4, <2>1 DEF LinkOf, Local, LocalRows
  <2>2. CASE x.cur[1] \notin DOMAIN x.txn.links
    <3>1. k = link[x.cur[1]]
      BY <1>4, <2>2 DEF LinkOf
    <3>2. master[k] # Absent
      BY <1>1, <1>3, <3>1 DEF IdInv, ProcessedIsLinked
    <3>3. QED
      BY <1>2, <3>2, RunKind, RowKinds DEF RowOf
  <2>3. QED
    BY <2>1, <2>2
<1> HIDE DEF k
<1>6. /\ y \in RunState /\ y.pc = "mark" /\ y.txn = x.txn /\ y.id = k
      /\ y.todo = x.todo /\ y.cur = x.cur /\ y.resolved = x.resolved
  BY <1>2, <1>4 DEF RunState
<1> HIDE DEF y
<1>7. /\ \A i : RowOf(y, master, i) = RowOf(x, master, i)
      /\ \A p : LinkOf(y, link, p) = LinkOf(x, link, p)
      /\ UniqueRows(y, master) /\ \A v \in Workers \ {w} : Apart(y, run[v])
  BY <1>6, RowsKept, LinksKept
<1>8. Local(w, y, master, link, raw)
  <2>1. LocalPc(w, y)
    BY <1>3, <1>4, <1>6 DEF LocalPc, OpenPc
  <2>2. LocalRows(y, master)
    BY <1>2, <1>5, <1>6, <1>7 DEF Local, LocalRows
  <2>3. LocalLinks(y, link)
    BY <1>1, <1>2, <1>4, <1>6, <1>7 DEF Local, LocalLinks
  <2>4. LocalVers(y, raw)
    BY <1>2, <1>6 DEF Local, LocalVers
  <2>5. QED
    BY <2>1, <2>2, <2>3, <2>4 DEF Local
<1>9. ASSUME ~overlapped PROVE Lone(y, master, link)
  <2>1. NoOrphan(x, master, link)
    BY <1>9 DEF IdInv, Alone, Lone
  <2>2. NoOrphan(y, master, link)
    BY <1>1, <1>7, <2>1 DEF NoOrphan
  <2>3. QED
    BY <1>6, <2>2 DEF Lone, ReadIsCurrent
<1>10. x.pc \in OpenPc /\ y.pc \in OpenPc
  BY <1>1, <1>6 DEF OpenPc
<1>11. QED
  BY <1>1, <1>6, <1>7, <1>8, <1>9, <1>10, OpenStep

\* The id of a new master is a free one.
LEMMA LeastOf ==
  ASSUME NEW S, S \subseteq Nat, S # {}
  PROVE  Min(S) \in S
<1> DEFINE R == OpToRel(<, Nat)
<1>1. IsWellFoundedOn(R, Nat)
  BY NatLessThanWellFounded
<1>2. \A x, y \in Nat : y < x => <<y, x>> \in R
  BY DEF OpToRel
<1> HIDE DEF R
<1>3. PICK x \in S : \A y \in S : ~ (<<y, x>> \in R)
  BY <1>1, WFMin
<1>4. \A y \in S : x <= y
  <2>1. TAKE y \in S
  <2>2. x \in Nat /\ y \in Nat /\ ~(y < x)
    BY <1>2, <1>3
  <2>3. QED
    BY <2>2
<1>5. QED
  BY <1>4 DEF Min

Inserts(w, i) ==
  run' = [run EXCEPT ![w].pc = "link new", ![w].id = i,
            ![w].txn.over = Put(@, i,
               [domain |-> Domain[run[w].cur[1]], email |-> EmailOf(run[w].cur),
                devices |-> {DeviceOf(run[w].cur)} \ {None}])]

\* A new master, which only its own transaction sees before the commit.
LEMMA InsertStep ==
  ASSUME IdInv, NEW w \in Workers, run[w].pc = "create", UNCHANGED others,
         NEW i \in Ids, master[i] = Absent,
         \A v \in Workers : i \notin DOMAIN run[v].txn.over,
         ExistingLink(w) = 0, CreateWaits(w) = {},
         \A j \in Ids : EmailOf(run[w].cur) # None
                          => View(w)[j].email # EmailOf(run[w].cur),
         Inserts(w, i)
  PROVE  IdInv'
<1> DEFINE x == run[w]
           D == {DeviceOf(x.cur)} \ {None}
           r == [domain |-> Domain[x.cur[1]], email |-> EmailOf(x.cur), devices |-> D]
           z == [x EXCEPT !.pc = "link new", !.id = i,
                          !.txn = [x.txn EXCEPT !.over = Put(x.txn.over, i, r)]]
<1>1. /\ TypeOK /\ x \in RunState /\ Local(w, x, master, link, raw)
      /\ x.txn.over \in Partial(Ids, Masters) /\ run \in [Workers -> RunState]
  BY RunKind DEF IdInv, TypeOK
<1>2. run' = [run EXCEPT ![w] = z]
  BY <1>1 DEF Inserts
<1>3. x.cur \in x.todo /\ x.cur \in Observations /\ x.cur[1] \in Raws
  BY AtObservation DEF WithObservation
<1>4. r \in Masters /\ r.email = EmailOf(x.cur)
  <2>1. D \in SUBSET {DeviceOf(c) : c \in Observations}
    BY <1>3, ObservationKind
  <2>2. Domain[x.cur[1]] \in Range(Domain) /\ EmailOf(x.cur) \in Addresses
    BY <1>3, ObservationKind
  <2> HIDE DEF D
  <2>3. QED
    BY <2>1, <2>2 DEF Masters
<1> HIDE DEF r
<1>5. Put(x.txn.over, i, r) \in Partial(Ids, Masters)
  BY <1>1, <1>4, PutKind
<1>6. /\ z \in RunState /\ z.pc = "link new" /\ z.txn.over = Put(x.txn.over, i, r)
      /\ z.txn.links = x.txn.links /\ z.txn.marks = x.txn.marks
      /\ z.todo = x.todo /\ z.cur = x.cur /\ z.id = i /\ z.resolved = x.resolved
  BY <1>1, <1>5 DEF RunState
<1> HIDE DEF z
<1>7. EmailHolders(w, r.email) = {}
  BY <1>4 DEF CreateWaits
<1>8. \A j \in Ids \ {i} : r.email # None => RowOf(x, master, j).email # r.email
  BY <1>1, <1>4, ViewKind
<1>9. /\ RowOf(z, master, i) # Absent
      /\ \A j \in Ids \ {i} : RowOf(z, master, j) = RowOf(x, master, j)
      /\ UniqueRows(z, master) /\ \A v \in Workers \ {w} : Apart(z, run[v])
  <2>1. \A v \in Workers \ {w} : i \notin DOMAIN run[v].txn.over
    OBVIOUS
  <2>2. Extends(z.txn.over, x.txn.over, i, r)
    BY <1>6, PutExtends
  <2>3. PICK row \in Masters : row = r
    BY <1>4
  <2>4. Extends(z.txn.over, run[w].txn.over, i, row) /\ EmailHolders(w, row.email) = {}
    BY <1>7, <2>2, <2>3
  <2>5. \A j \in Ids \ {i} : row.email # None => RowOf(run[w], master, j).email # row.email
    BY <1>8, <2>3
  <2>6. /\ RowOf(z, master, i) # Absent
        /\ \A j \in Ids \ {i} : RowOf(z, master, j) = RowOf(run[w], master, j)
        /\ UniqueRows(z, master) /\ \A v \in Workers \ {w} : Apart(z, run[v])
    BY <2>1, <2>4, <2>5, RowWritten
  <2>7. QED
    BY <2>6
<1>10. \A p : LinkOf(z, link, p) = LinkOf(x, link, p)
  BY <1>6, LinksKept
<1>11. Local(w, z, master, link, raw)
  <2>1. LocalPc(w, z)
    BY <1>3, <1>6 DEF LocalPc, OpenPc
  <2>2. LocalRows(z, master)
    <3>1. \A p \in DOMAIN x.txn.links : x.txn.links[p] \in Ids
      BY <1>1, RunKind
    <3>2. QED
      BY <1>1, <1>6, <1>9, <3>1 DEF Local, LocalRows
  <2>3. LocalLinks(z, link)
    BY <1>1, <1>6, <1>10 DEF Local, LocalLinks
  <2>4. LocalVers(z, raw)
    BY <1>1, <1>6 DEF Local, LocalVers
  <2>5. QED
    BY <2>1, <2>2, <2>3, <2>4 DEF Local
<1>12. ASSUME ~overlapped PROVE Lone(z, master, link)
  <2>1. NoOrphan(x, master, link)
    BY <1>12 DEF IdInv, Alone, Lone
  <2>2. NoOrphan(z, master, link)
    BY <1>6, <1>9, <1>10, <2>1 DEF NoOrphan
  <2>3. LinkOf(z, link, z.cur[1]) = 0
    <3>1. LinkOf(x, link, x.cur[1]) = 0
      BY <1>1, <1>3, ViewKind DEF ExistingLink
    <3>2. QED
      BY <1>6, <1>10, <3>1
  <2>4. QED
    BY <1>6, <2>2, <2>3 DEF Lone, ReadIsCurrent
<1>13. x.pc \in OpenPc /\ z.pc \in OpenPc
  BY <1>6 DEF OpenPc
<1>14. QED
  BY <1>2, <1>6, <1>9, <1>11, <1>12, <1>13, OpenStep

\* INSERT meets the owner of the address, which is linked instead.
LEMMA OwnerStep ==
  ASSUME IdInv, NEW w \in Workers, run[w].pc = "create", UNCHANGED others,
         NEW i \in Ids, EmailOf(run[w].cur) # None, View(w)[i].email = EmailOf(run[w].cur),
         run' = [run EXCEPT ![w].pc = "link", ![w].id = i]
  PROVE  IdInv'
<1> DEFINE x == run[w]
           y == [x EXCEPT !.pc = "link", !.id = i]
<1>1. /\ TypeOK /\ x \in RunState /\ Local(w, x, master, link, raw)
      /\ run \in [Workers -> RunState]
  BY RunKind DEF IdInv, TypeOK
<1>2. run' = [run EXCEPT ![w] = y]
  BY <1>1
<1>3. x.cur \in x.todo
  BY AtObservation DEF WithObservation
<1>4. RowOf(x, master, i) # Absent
  BY <1>1, ViewKind, RowKinds
<1>5. /\ y \in RunState /\ y.pc = "link" /\ y.txn = x.txn /\ y.id = i
      /\ y.todo = x.todo /\ y.cur = x.cur /\ y.resolved = x.resolved
  BY <1>1 DEF RunState
<1> HIDE DEF y
<1>6. /\ \A j : RowOf(y, master, j) = RowOf(x, master, j)
      /\ \A p : LinkOf(y, link, p) = LinkOf(x, link, p)
      /\ UniqueRows(y, master) /\ \A v \in Workers \ {w} : Apart(y, run[v])
  BY <1>5, RowsKept, LinksKept
<1>7. Local(w, y, master, link, raw)
  <2>1. LocalPc(w, y)
    BY <1>3, <1>5 DEF LocalPc, OpenPc
  <2>2. LocalRows(y, master)
    BY <1>1, <1>4, <1>5, <1>6 DEF Local, LocalRows
  <2>3. LocalLinks(y, link)
    BY <1>1, <1>5, <1>6 DEF Local, LocalLinks
  <2>4. LocalVers(y, raw)
    BY <1>1, <1>5 DEF Local, LocalVers
  <2>5. QED
    BY <2>1, <2>2, <2>3, <2>4 DEF Local
<1>8. ASSUME ~overlapped PROVE Lone(y, master, link)
  <2>1. NoOrphan(x, master, link)
    BY <1>8 DEF IdInv, Alone, Lone
  <2>2. NoOrphan(y, master, link)
    BY <1>6, <2>1 DEF NoOrphan
  <2>3. QED
    BY <1>5, <2>2 DEF Lone, ReadIsCurrent
<1>9. x.pc \in OpenPc /\ y.pc \in OpenPc
  BY <1>5 DEF OpenPc
<1>10. QED
  BY <1>2, <1>5, <1>6, <1>7, <1>8, <1>9, OpenStep

\* A new master gets a free row and a free address, or the owner is linked instead.
LEMMA CreateStep == ASSUME IdInv, NEW w \in Workers, CreateMaster(w) PROVE IdInv'
<1> DEFINE c == run[w].cur
           owners == {i \in Ids : EmailOf(c) # None /\ View(w)[i].email = EmailOf(c)}
           free == {i \in Ids : master[i] = Absent
                      /\ \A v \in Workers : i \notin Wrote(Txn(v).over)}
<1>1. /\ run[w].pc = "create" /\ ExistingLink(w) = 0 /\ CreateWaits(w) = {}
      /\ UNCHANGED others
  BY DEF CreateMaster
<1>2. CASE owners # {}
  <2>1. PICK i \in owners : run' = [run EXCEPT ![w].pc = "link", ![w].id = i]
    BY Zenon, <1>2 DEF CreateMaster
  <2>2. QED
    BY <1>1, <2>1, OwnerStep
<1>3. CASE owners = {}
  <2> DEFINE i == Min(free)
  <2>1. /\ free # {}
        /\ run' = [run EXCEPT ![w].pc = "link new", ![w].id = i,
                     ![w].txn.over = Put(@, i,
                        [domain |-> Domain[c[1]], email |-> EmailOf(c),
                         devices |-> {DeviceOf(c)} \ {None}])]
    BY Zenon, <1>3 DEF CreateMaster
  <2>2. i \in free
    <3>1. free \subseteq Nat
      BY RowKinds
    <3> HIDE DEF free
    <3>2. QED
      BY <2>1, <3>1, LeastOf
  <2>3. /\ i \in Ids /\ master[i] = Absent
        /\ \A v \in Workers : i \notin DOMAIN run[v].txn.over
    <3> HIDE DEF i
    <3>1. QED
      BY <2>2 DEF Wrote, Txn
  <2>4. \A j \in Ids : EmailOf(c) # None => View(w)[j].email # EmailOf(c)
    BY <1>3
  <2> HIDE DEF i
  <2>5. QED
    BY <1>1, <2>1, <2>3, <2>4, InsertStep DEF Inserts
<1>4. QED
  BY <1>2, <1>3

\* The new master gets its link; no earlier one was there when nothing overlaps.
LEMMA LinkNewStep == ASSUME IdInv, NEW w \in Workers, LinkNewMaster(w) PROVE IdInv'
<1> DEFINE x == run[w]
           L == Linked(w, x.cur[1], x.id)
           y == [x EXCEPT !.pc = "mark", !.txn = [x.txn EXCEPT !.links = L]]
<1>1. /\ TypeOK /\ x \in RunState /\ Local(w, x, master, link, raw)
      /\ run \in [Workers -> RunState]
  BY RunKind DEF IdInv, TypeOK
<1>2. x.pc = "link new" /\ UNCHANGED others /\ run' = [run EXCEPT ![w] = y]
  BY <1>1 DEF LinkNewMaster
<1>3. /\ x.cur \in x.todo /\ x.cur \in Observations /\ x.cur[1] \in Raws
      /\ x.id \in Ids /\ RowOf(x, master, x.id) # Absent
  BY <1>2, AtObservation DEF WithObservation, WithMaster
<1>4. L \in Partial(Raws, Ids)
  <2>1. \A z : z.txn.links = L => L \in Partial(Raws, Ids)
    BY <1>3, LinkedFacts
  <2>2. [x EXCEPT !.txn = [links |-> L]].txn.links = L
    BY <1>1 DEF RunState
  <2>3. QED
    BY <2>1, <2>2
<1>5. /\ y \in RunState /\ y.pc = "mark" /\ y.txn.links = L /\ y.txn.over = x.txn.over
      /\ y.txn.marks = x.txn.marks /\ y.todo = x.todo /\ y.cur = x.cur /\ y.id = x.id
      /\ y.resolved = x.resolved
  BY <1>1, <1>4 DEF RunState
<1> HIDE DEF y
<1>6. /\ \A i : RowOf(y, master, i) = RowOf(x, master, i)
      /\ UniqueRows(y, master) /\ \A v \in Workers \ {w} : Apart(y, run[v])
  BY <1>5, RowsKept
<1>7. /\ LinkOf(y, link, x.cur[1]) # 0
      /\ \A q \in Raws : LinkOf(x, link, q) # 0 => LinkOf(y, link, q) = LinkOf(x, link, q)
      /\ LinkOf(x, link, x.cur[1]) = 0 => LinkOf(y, link, x.cur[1]) = x.id
      /\ \A q \in DOMAIN y.txn.links :
           \/ y.txn.links[q] = x.id
           \/ q \in DOMAIN x.txn.links /\ y.txn.links[q] = x.txn.links[q]
  BY <1>3, <1>5, LinkedFacts
<1>8. Local(w, y, master, link, raw)
  <2>1. LocalPc(w, y)
    BY <1>3, <1>5 DEF LocalPc, OpenPc
  <2>2. LocalRows(y, master)
    BY <1>1, <1>3, <1>5, <1>6, <1>7 DEF Local, LocalRows
  <2>3. DOMAIN x.txn.marks \subseteq Raws
    BY <1>1, RunKind
  <2>4. LocalLinks(y, link)
    BY <1>1, <1>5, <1>7, <2>3 DEF Local, LocalLinks
  <2>5. LocalVers(y, raw)
    BY <1>1, <1>5 DEF Local, LocalVers
  <2>6. QED
    BY <2>1, <2>2, <2>4, <2>5 DEF Local
<1>9. ASSUME ~overlapped PROVE Lone(y, master, link)
  <2>1. NoOrphan(x, master, link) /\ LinkOf(x, link, x.cur[1]) = 0
    BY <1>2, <1>9 DEF IdInv, Alone, Lone
  <2>2. ASSUME NEW i \in Ids, RowOf(y, master, i) # Absent
        PROVE  \E p \in Raws : LinkOf(y, link, p) = i
    <3>1. CASE i = x.id
      BY <1>3, <1>7, <2>1, <3>1
    <3>2. CASE i # x.id
      <4>1. PICK p \in Raws : LinkOf(x, link, p) = i
        BY <1>6, <2>1, <2>2, <3>2 DEF NoOrphan
      <4>2. QED
        BY <1>7, <4>1, RowKinds
    <3>3. QED
      BY <3>1, <3>2
  <2>3. QED
    BY <1>5, <2>2 DEF Lone, ReadIsCurrent, NoOrphan
<1>10. x.pc \in OpenPc /\ y.pc \in OpenPc
  BY <1>2, <1>5 DEF OpenPc
<1>11. QED
  BY <1>2, <1>5, <1>6, <1>8, <1>9, <1>10, OpenStep

\* A profile is marked once it is linked.
LEMMA MarkStep == ASSUME IdInv, NEW w \in Workers, MarkAsProcessed(w) PROVE IdInv'
<1> DEFINE x == run[w]
           M == Put(x.txn.marks, x.cur[1], x.cur[2])
           next == IF x.todo = {x.cur} THEN "commit" ELSE "find"
           y == [x EXCEPT !.txn = [x.txn EXCEPT !.marks = M], !.todo = x.todo \ {x.cur},
                          !.cur = None, !.id = 0, !.batch = x.batch \cup {x.id}, !.pc = next]
<1>1. /\ TypeOK /\ x \in RunState /\ Local(w, x, master, link, raw)
      /\ run \in [Workers -> RunState] /\ x.txn.marks \in Partial(Raws, Versions)
  BY RunKind DEF IdInv, TypeOK
<1>2. x.pc = "mark" /\ UNCHANGED others /\ run' = [run EXCEPT ![w] = y]
  BY <1>1 DEF MarkAsProcessed, Marked, Txn
<1>3. /\ x.cur \in x.todo /\ x.cur \in Observations /\ x.cur[1] \in Raws /\ x.id \in Ids
      /\ x.cur[2] \in Versions
  BY <1>2, AtObservation, ObservationKind DEF WithObservation, WithMaster
<1>4. M \in Partial(Raws, Versions) /\ Extends(M, x.txn.marks, x.cur[1], x.cur[2])
  BY <1>1, <1>3, PutKind, PutExtends
<1> HIDE DEF M
<1>5. next \in {"commit", "find"}
  OBVIOUS
<1> HIDE DEF next
<1>6. /\ y \in RunState /\ y.pc = next /\ y.txn.links = x.txn.links
      /\ y.txn.over = x.txn.over /\ y.txn.marks = M /\ y.todo = x.todo \ {x.cur}
      /\ y.resolved = x.resolved
  BY <1>1, <1>3, <1>4, <1>5 DEF RunState
<1> HIDE DEF y
<1>7. /\ \A i : RowOf(y, master, i) = RowOf(x, master, i)
      /\ \A p : LinkOf(y, link, p) = LinkOf(x, link, p)
      /\ UniqueRows(y, master) /\ \A v \in Workers \ {w} : Apart(y, run[v])
  BY <1>6, RowsKept, LinksKept
<1>8. Local(w, y, master, link, raw)
  <2>1. LocalPc(w, y)
    BY <1>5, <1>6 DEF LocalPc, OpenPc, WithObservation, WithMaster
  <2>2. LocalRows(y, master)
    BY <1>1, <1>5, <1>6, <1>7 DEF Local, LocalRows, WithMaster
  <2>3. LocalLinks(y, link)
    BY <1>1, <1>2, <1>4, <1>5, <1>6, <1>7 DEF Local, LocalLinks, Extends
  <2>4. LocalVers(y, raw)
    BY <1>1, <1>3, <1>4, <1>6 DEF Local, LocalVers, Extends
  <2>5. QED
    BY <2>1, <2>2, <2>3, <2>4 DEF Local
<1>9. ASSUME ~overlapped PROVE Lone(y, master, link)
  <2>1. NoOrphan(x, master, link)
    BY <1>9 DEF IdInv, Alone, Lone
  <2>2. NoOrphan(y, master, link)
    BY <1>2, <1>7, <2>1 DEF NoOrphan
  <2>3. QED
    BY <1>5, <1>6, <2>2 DEF Lone, ReadIsCurrent
<1>10. x.pc \in OpenPc /\ y.pc \in OpenPc
  BY <1>2, <1>5, <1>6 DEF OpenPc
<1>11. QED
  BY <1>2, <1>6, <1>7, <1>8, <1>9, <1>10, OpenStep

\* A batch begins a transaction: with another one open it overlaps.
LEMMA FetchStep == ASSUME IdInv, NEW w \in Workers, FetchBatch(w) PROVE IdInv'
<1> DEFINE x == run[w]
<1>1. /\ x.pc = "fetch" /\ overlapped' = (overlapped \/ \E v \in Workers : Open(v))
      /\ UNCHANGED <<tables, lease, statusRow, owed, triggered, faults>>
  BY DEF FetchBatch, counts
<1>2. PICK B \in SUBSET New :
        run' = [run EXCEPT ![w].pc = "find", ![w].batch = {},
                           ![w].todo = {<<p, raw[p].ver>> : p \in B}]
  BY DEF FetchBatch, kSubset
<1>3. /\ TypeOK /\ x \in RunState /\ Local(w, x, master, link, raw) /\ Pending
      /\ run \in [Workers -> RunState]
  BY RunKind DEF IdInv, TypeOK
<1> DEFINE T == {<<p, raw[p].ver>> : p \in B}
           y == [x EXCEPT !.pc = "find", !.batch = {}, !.todo = T]
<1>4. run' = [run EXCEPT ![w] = y]
  BY <1>2, <1>3
<1>5. \A c \in T : c \in Observations /\ c[2] <= raw[c[1]].ver
  <2> SUFFICES ASSUME NEW p \in B
               PROVE  <<p, raw[p].ver>> \in Observations /\ raw[p].ver <= raw[p].ver
    OBVIOUS
  <2>1. p \in Raws /\ raw[p].ver > 0 /\ raw[p].ver \in Nat /\ raw[p].ver <= Len(Email[p])
    BY <1>3 DEF New, IdInv, Versioned, TypeOK
  <2>2. Email[p] \in Seq(Range(Email[p]))
    BY <2>1, IdentityAssumption
  <2>3. raw[p].ver \in DOMAIN Email[p]
    BY <2>1, <2>2
  <2>4. QED
    BY <2>1, <2>3 DEF Observations
<1> HIDE DEF T
<1>6. /\ y \in RunState /\ y.pc = "find" /\ y.txn = x.txn /\ y.todo = T
      /\ y.resolved = x.resolved
  BY <1>3, <1>5 DEF RunState
<1> HIDE DEF y
<1>7. y.txn = NoTxn /\ DOMAIN y.txn.links = {} /\ DOMAIN y.txn.marks = {}
  BY <1>1, <1>3, <1>6, NoTxnKind DEF Local, LocalPc, OpenPc
<1>8. /\ \A i : RowOf(y, master, i) = RowOf(x, master, i)
      /\ \A p : LinkOf(y, link, p) = LinkOf(x, link, p)
      /\ UniqueRows(y, master) /\ \A v \in Workers \ {w} : Apart(y, run[v])
  BY <1>6, RowsKept, LinksKept
<1>9. Local(w, y, master, link, raw)
  <2>1. LocalPc(w, y)
    BY <1>6 DEF LocalPc, OpenPc, WithObservation, WithMaster
  <2>2. LocalRows(y, master) /\ LocalLinks(y, link)
    BY <1>6, <1>7 DEF LocalRows, LocalLinks, WithMaster
  <2>3. LocalVers(y, raw)
    BY <1>5, <1>6, <1>7 DEF LocalVers
  <2>4. QED
    BY <2>1, <2>2, <2>3 DEF Local
<1>10. ASSUME ~overlapped'
       PROVE  /\ ~overlapped /\ Lone(y, master, link)
              /\ \A v \in Workers \ {w} : run[v].pc \notin OpenPc
  <2>1. ~overlapped /\ \A v \in Workers : run[v].pc \notin OpenPc
    BY <1>1, <1>10 DEF Open, OpenPc
  <2>2. NoOrphan(x, master, link)
    BY <2>1 DEF IdInv, Alone, Lone
  <2>3. NoOrphan(y, master, link)
    BY <1>1, <1>8, <2>2 DEF NoOrphan
  <2>4. QED
    BY <1>6, <2>1, <2>3 DEF Lone, ReadIsCurrent
<1>11. /\ lease' \in Drains \cup {None} /\ statusRow' \in Triggers \cup {None}
       /\ owed' \subseteq Ids /\ triggered' \in 0..MaxTriggers /\ faults' \in 0..MaxFaults
       /\ overlapped' \in BOOLEAN
  BY <1>1, <1>3 DEF TypeOK
<1>12. faults = 0 => \A v \in Drains : run[v].pc # "idle" => lease = v
  BY <1>3 DEF Pending
<1>13. faults = 0 => (w \in Drains => lease = w)
  BY <1>1, <1>12
<1>14. QED
  BY <1>1, <1>4, <1>6, <1>8, <1>9, <1>10, <1>11, <1>12, <1>13, TablesKept

\* A batch's rows, links and marks become the committed ones together.
LEMMA CommitStep == ASSUME IdInv, NEW w \in Workers, Commit(w) PROVE IdInv'
<1> DEFINE x == run[w]
           y == IF w \in Drains
                THEN [Start EXCEPT
                        !.pc = IF Cardinality(DOMAIN x.txn.marks) >= BatchSize
                               THEN "refresh" ELSE "project",
                        !.batches = x.batches + 1,
                        !.resolved = x.resolved \cup x.batch]
                ELSE Start
<1>1. /\ x.pc = "commit" /\ master' = View(w) /\ link' = LinkView(w)
      /\ run' = [run EXCEPT ![w] = y] /\ UNCHANGED <<lease, overlapped, triggered, faults>>
  BY DEF Commit, counts, Txn, Wrote, ResolvedByBatches
<1>2. /\ raw' = [p \in Raws |-> IF p \in DOMAIN x.txn.marks
                                THEN [raw[p] EXCEPT !.status = 3] ELSE raw[p]]
      /\ seen' = [p \in Raws |-> IF p \in DOMAIN x.txn.marks THEN x.txn.marks[p] ELSE seen[p]]
  BY DEF Commit, Txn, Wrote
<1>3. /\ IF w \in Drains THEN owed' = owed \cup x.batch /\ statusRow' = statusRow
                         ELSE owed' = owed /\ statusRow' = None
  BY DEF Commit
<1>4. /\ TypeOK /\ x \in RunState /\ Local(w, x, master, link, raw) /\ UniqueRows(x, master)
      /\ run \in [Workers -> RunState]
      /\ \A i \in DOMAIN x.txn.over : x.txn.over[i] \in Masters
      /\ \A p \in DOMAIN x.txn.links : x.txn.links[p] \in Ids
      /\ \A p \in DOMAIN x.txn.marks : p \in Raws /\ x.txn.marks[p] \in Versions
  BY RunKind DEF IdInv, OneOwner, TypeOK
<1>5. /\ y \in RunState /\ y.txn = NoTxn /\ y.todo = {}
      /\ w \in Drains => /\ y.pc \in {"refresh", "project"}
                         /\ y.resolved = x.resolved \cup x.batch
      /\ w \notin Drains => y.pc = "idle" /\ y.resolved = {}
  <2>1. CASE w \notin Drains
    BY <2>1, StartKind
  <2>2. CASE w \in Drains
    <3> DEFINE pc == IF Cardinality(DOMAIN x.txn.marks) >= BatchSize
                     THEN "refresh" ELSE "project"
    <3>1. pc \in {"refresh", "project"}
      OBVIOUS
    <3> HIDE DEF pc
    <3>2. x.batches + 1 \in Nat /\ x.resolved \cup x.batch \subseteq Ids
      <4>1. x.batches \in Nat /\ x.resolved \subseteq Ids /\ x.batch \subseteq Ids
        BY <1>4 DEF RunState
      <4> HIDE DEF x
      <4>2. QED
        BY <4>1
    <3>3. y = [Start EXCEPT !.pc = pc, !.batches = x.batches + 1,
                            !.resolved = x.resolved \cup x.batch]
      BY <2>2 DEF pc
    <3>4. QED
      BY <2>2, <3>1, <3>2, <3>3, StartKind DEF RunState
  <2>3. QED
    BY <2>1, <2>2
<1> HIDE DEF y
<1>6. /\ run' \in [Workers -> RunState] /\ run'[w] = y
      /\ \A v \in Workers \ {w} : run'[v] = run[v]
  BY <1>1, <1>4, <1>5
<1>7. /\ \A i \in Ids : master'[i] = RowOf(x, master, i)
      /\ \A p \in Raws : link'[p] = LinkOf(x, link, p)
  BY <1>1, <1>4, ViewKind
<1>8. /\ \A i \in Ids : master[i] # Absent => master'[i] # Absent
      /\ \A p \in Raws : link[p] # 0 => link'[p] # 0
  BY <1>4, <1>7, RowKinds DEF RowOf, LinkOf
<1>9. \A p \in DOMAIN x.txn.marks : /\ link'[p] # 0 /\ x.txn.marks[p] <= raw[p].ver
                                    /\ x.txn.marks[p] \in Nat /\ x.txn.marks[p] > 0
  <2>1. \A n \in Versions : n \in Nat /\ n > 0
    BY IdentityAssumption DEF Versions
  <2>2. QED
    BY <1>4, <1>7, <2>1 DEF Local, LocalLinks, LocalVers
<1>10. /\ raw' \in [Raws -> [ver : Nat, status : {0, 1, 3}]]
       /\ \A p \in Raws : /\ raw'[p].ver = raw[p].ver
                          /\ raw'[p].status = IF p \in DOMAIN x.txn.marks THEN 3
                                              ELSE raw[p].status
  BY <1>2, <1>4 DEF TypeOK
<1>11. TypeOK'
  <2>1. master' \in [Ids -> Masters \cup {Absent}] /\ link' \in [Raws -> Ids \cup {0}]
    <3>1. /\ \A i \in Ids : View(w)[i] \in Masters \cup {Absent}
          /\ \A p \in Raws : LinkView(w)[p] \in Ids \cup {0}
      BY <1>4, ViewKind
    <3>2. QED
      BY <1>1, <3>1 DEF View, LinkView
  <2>2. seen' \in [Raws -> Nat] /\ \A p \in Raws : seen'[p] <= raw[p].ver
    BY <1>2, <1>4, <1>9 DEF TypeOK
  <2>3. owed' \subseteq Ids /\ statusRow' \in Triggers \cup {None}
    BY <1>3, <1>4 DEF TypeOK, RunState
  <2>4. \A p \in Raws : seen'[p] <= raw'[p].ver /\ raw'[p].ver <= Len(Email[p])
    BY <1>4, <1>10, <2>2 DEF TypeOK
  <2>5. /\ lease' \in Drains \cup {None} /\ overlapped' \in BOOLEAN
        /\ triggered' \in 0..MaxTriggers /\ faults' \in 0..MaxFaults
    BY <1>1, <1>4 DEF TypeOK
  <2>6. QED
    BY <1>6, <1>10, <2>1, <2>2, <2>3, <2>4, <2>5 DEF TypeOK
<1>12. Versioned'
  <2>1. \A p \in Raws : raw[p].ver \in Nat
    BY <1>4 DEF TypeOK
  <2>2. \A p \in Raws : raw'[p].status # 0 => raw'[p].ver > 0
    BY <1>9, <1>10, <2>1 DEF IdInv, Versioned
  <2>3. QED
    BY <2>2 DEF Versioned
<1>13. ProcessedIsLinked'
  <2>1. \A p \in Raws : raw'[p].status = 3 => link'[p] # 0
    BY <1>8, <1>9, <1>10 DEF IdInv, ProcessedIsLinked
  <2>2. ASSUME NEW p \in Raws, link'[p] # 0 PROVE master'[link'[p]] # Absent
    <3>1. CASE p \in DOMAIN x.txn.links
      BY <1>4, <1>7, <3>1 DEF LinkOf, Local, LocalRows
    <3>2. CASE p \notin DOMAIN x.txn.links
      <4>1. link'[p] = link[p] /\ link[p] \in Ids
        BY <1>4, <1>7, <2>2, <3>2 DEF LinkOf, TypeOK
      <4>2. QED
        BY <1>8, <2>2, <4>1 DEF IdInv, ProcessedIsLinked
    <3>3. QED
      BY <3>1, <3>2
  <2>3. QED
    BY <2>1, <2>2 DEF ProcessedIsLinked
<1>14. NoOrphanMaster'
  <2>1. ASSUME ~overlapped, NEW i \in Ids, master'[i] # Absent
        PROVE  \E p \in Raws : link'[p] = i
    <3>1. NoOrphan(x, master, link)
      BY <2>1 DEF IdInv, Alone, Lone
    <3>2. QED
      BY <1>1, <1>7, <2>1, <3>1 DEF NoOrphan
  <2>2. QED
    BY <1>1, <2>1 DEF NoOrphanMaster
<1>15. y.pc \notin OpenPc /\ DOMAIN y.txn.over = {} /\ DOMAIN y.txn.links = {}
       /\ DOMAIN y.txn.marks = {}
  BY <1>5, NoTxnKind DEF OpenPc
<1>16. ASSUME NEW v \in Workers PROVE Local(v, run'[v], master', link', raw')
  <2>1. CASE v = w
    <3>1. LocalPc(w, y)
      BY <1>5, <1>15 DEF LocalPc, OpenPc, WithObservation, WithMaster
    <3>2. LocalRows(y, master') /\ LocalLinks(y, link') /\ LocalVers(y, raw')
      BY <1>5, <1>15 DEF LocalRows, LocalLinks, LocalVers, OpenPc, WithMaster
    <3>3. QED
      BY <1>6, <2>1, <3>1, <3>2 DEF Local
  <2>2. CASE v # w
    <3> DEFINE z == run[v]
    <3>1. /\ Local(v, z, master, link, raw) /\ run'[v] = z /\ z.todo \subseteq Observations
          /\ DOMAIN z.txn.marks \subseteq Raws
          /\ \A p \in DOMAIN z.txn.links : z.txn.links[p] \in Ids
      BY <1>4, <1>6, <2>2, RunKind DEF IdInv
    <3>2. \A i \in Ids : RowOf(z, master, i) # Absent => RowOf(z, master', i) # Absent
      BY <1>8 DEF RowOf
    <3>3. \A p \in Raws : LinkOf(z, link, p) # 0 => LinkOf(z, link', p) # 0
      BY <1>8 DEF LinkOf
    <3>4. LocalRows(z, master')
      BY <3>1, <3>2 DEF Local, LocalPc, LocalRows
    <3>5. LocalLinks(z, link')
      <4>1. z.pc \in {"update", "mark"} => z.cur[1] \in Raws
        BY <2>2, AtObservation DEF WithObservation
      <4>2. QED
        BY <3>1, <3>3, <4>1 DEF Local, LocalLinks
    <3>6. LocalVers(z, raw')
      <4>1. \A c \in z.todo : c[1] \in Raws
        BY <3>1, ObservationKind
      <4>2. QED
        BY <3>1, <1>10, <4>1 DEF Local, LocalVers
    <3>7. QED
      BY <3>1, <3>4, <3>5, <3>6 DEF Local
  <2>3. QED
    BY <2>1, <2>2
<1>17. EmailHasOneOwner'
  BY <1>4, <1>7 DEF UniqueRows, EmailHasOneOwner
<1>18. ASSUME NEW v \in Workers PROVE UniqueRows(run'[v], master')
  <2>1. CASE v = w
    <3>1. \A i \in Ids : RowOf(y, master', i) = RowOf(x, master, i)
      BY <1>7, <1>15 DEF RowOf
    <3>2. QED
      BY <1>4, <1>6, <2>1, <3>1 DEF UniqueRows
  <2>2. CASE v # w
    <3> DEFINE z == run[v]
    <3>1. /\ UniqueRows(z, master) /\ Apart(x, z) /\ Apart(z, x) /\ run'[v] = z
          /\ \A i \in DOMAIN z.txn.over : z.txn.over[i] \in Masters
      BY <1>4, <1>6, <2>2, RunKind DEF IdInv, OneOwner
    <3>2. ASSUME NEW i \in DOMAIN z.txn.over, NEW j \in Ids \ DOMAIN z.txn.over, i \in Ids
          PROVE  RowOf(z, master', i).email # None
                   => RowOf(z, master', i).email # RowOf(z, master', j).email
      <4>1. RowOf(z, master', i) = z.txn.over[i] /\ RowOf(z, master, i) = z.txn.over[i]
        BY DEF RowOf
      <4>2. RowOf(z, master', j) = RowOf(x, master, j) /\ RowOf(z, master, j) = master[j]
        BY <1>7 DEF RowOf
      <4>3. CASE j \in DOMAIN x.txn.over
        <5>1. RowOf(x, master, j) = x.txn.over[j]
          BY <4>3 DEF RowOf
        <5>2. QED
          BY <3>1, <4>1, <4>2, <4>3, <5>1 DEF Apart
      <4>4. CASE j \notin DOMAIN x.txn.over
        <5>1. RowOf(x, master, j) = master[j]
          BY <4>4 DEF RowOf
        <5>2. QED
          BY <3>1, <3>2, <4>1, <4>2, <5>1 DEF UniqueRows
      <4>5. QED
        BY <4>3, <4>4
    <3>3. ASSUME NEW i \in Ids, NEW j \in Ids, i # j, RowOf(z, master', i).email # None
          PROVE  RowOf(z, master', i).email # RowOf(z, master', j).email
      <4>1. CASE i \in DOMAIN z.txn.over /\ j \notin DOMAIN z.txn.over
        BY <3>2, <3>3, <4>1
      <4>2. CASE j \in DOMAIN z.txn.over /\ i \notin DOMAIN z.txn.over
        BY <3>2, <3>3, <4>2
      <4>3. CASE i \in DOMAIN z.txn.over /\ j \in DOMAIN z.txn.over
        <5>1. /\ RowOf(z, master', i) = RowOf(z, master, i)
              /\ RowOf(z, master', j) = RowOf(z, master, j)
          BY <4>3 DEF RowOf
        <5>2. QED
          BY <3>1, <3>3, <5>1 DEF UniqueRows
      <4>4. CASE i \notin DOMAIN z.txn.over /\ j \notin DOMAIN z.txn.over
        <5>1. /\ RowOf(z, master', i) = RowOf(x, master, i)
              /\ RowOf(z, master', j) = RowOf(x, master, j)
          BY <1>7, <4>4 DEF RowOf
        <5>2. QED
          BY <1>4, <3>3, <5>1 DEF UniqueRows
      <4>5. QED
        BY <4>1, <4>2, <4>3, <4>4
    <3>4. QED
      BY <3>1, <3>3 DEF UniqueRows
  <2>3. QED
    BY <2>1, <2>2
<1>19. OneOwner'
  <2>1. \A u \in Workers : Apart(y, run[u]) /\ Apart(run[u], y)
    BY <1>15 DEF Apart
  <2>2. \A u, v \in Workers : u # v => Apart(run'[u], run'[v])
    BY <1>6, <2>1 DEF IdInv, OneOwner
  <2>3. \A u, v \in Workers : u # v => Apart(run[u], run[v])'
    BY <2>2
  <2>4. \A v \in Workers : UniqueRows(run[v], master)'
    BY <1>18
  <2>5. QED
    BY <1>17, <2>3, <2>4 DEF OneOwner
<1>20. Alone'
  <2> SUFFICES ASSUME ~overlapped'
               PROVE  /\ \A u, v \in Workers :
                           u # v => ~(run'[u].pc \in OpenPc /\ run'[v].pc \in OpenPc)
                      /\ \A v \in Workers : Lone(run'[v], master', link')
    BY DEF Alone
  <2>1. \A v \in Workers : run'[v].pc \notin OpenPc /\ run'[v].txn = NoTxn
    <3>1. x.pc \in OpenPc
      BY <1>1 DEF OpenPc
    <3>2. \A v \in Workers \ {w} : run[v].pc \notin OpenPc
      BY <1>1, <3>1 DEF IdInv, Alone
    <3>3. \A v \in Workers \ {w} : run[v].txn = NoTxn
      BY <3>2 DEF IdInv, Local, LocalPc
    <3>4. QED
      BY <1>5, <1>6, <1>15, <3>2, <3>3
  <2>2. ASSUME NEW v \in Workers PROVE Lone(run'[v], master', link')
    <3>1. /\ \A i \in Ids : RowOf(run'[v], master', i) = master'[i]
          /\ \A p \in Raws : LinkOf(run'[v], link', p) = link'[p]
      BY <2>1, NoTxnKind DEF RowOf, LinkOf
    <3>2. NoOrphan(run'[v], master', link')
      BY <1>14, <3>1 DEF NoOrphanMaster, NoOrphan
    <3>3. run'[v].pc # "update" /\ run'[v].pc # "link new"
      BY <2>1 DEF OpenPc
    <3>4. QED
      BY <3>2, <3>3 DEF Lone, ReadIsCurrent
  <2>3. QED
    BY <2>1, <2>2
<1>21. Pending'
  <2>1. Drains \subseteq Workers
    BY DEF Workers
  <2>2. ASSUME faults' = 0, NEW v \in Drains, run'[v].pc # "idle" PROVE lease' = v
    BY <1>1, <1>6, <2>1, <2>2 DEF IdInv, Pending
  <2>3. ASSUME faults' = 0, ~overlapped', NEW i \in owed'
        PROVE  \E v \in Drains : i \in run'[v].resolved
    <3>1. CASE i \in owed
      <4>1. PICK v \in Drains : i \in run[v].resolved
        BY <1>1, <2>3, <3>1 DEF IdInv, Pending
      <4>2. QED
        BY <1>5, <1>6, <2>1, <4>1
    <3>2. CASE i \notin owed
      BY <1>3, <1>5, <1>6, <2>3, <3>2
    <3>3. QED
      BY <3>1, <3>2
  <2>4. QED
    BY <2>2, <2>3 DEF Pending
<1>22. \A v \in Workers : Local(v, run[v], master, link, raw)'
  BY <1>16
<1>23. QED
  BY <1>11, <1>12, <1>13, <1>14, <1>19, <1>20, <1>21, <1>22 DEF IdInv

\* Every step preserves the invariant.
LEMMA StepResolution == ASSUME IdInv, [Next]_vars PROVE IdInv'
<1>1. ASSUME NEW p \in Raws, Stage(p) PROVE IdInv'
  BY <1>1, StageStep
<1>2. ASSUME NEW w \in Workers, BatchStep(w) PROVE IdInv'
  BY <1>2, FetchStep, EmptyStep, FindStep, LinkStep, UpdateStep, ReuseStep, CreateStep,
     LinkNewStep, MarkStep, CommitStep, ViolationStep, DeadlockStep DEF BatchStep
<1>3. ASSUME NEW w \in Workers, DrainStep(w) PROVE IdInv'
  BY <1>3, StartDrainStep, RefreshStep, LostStep, ProjectStep, FinishStep DEF DrainStep
<1>4. ASSUME NEW w \in Workers, StartTrigger(w) \/ Throttled(w) PROVE IdInv'
  BY <1>4, StartTriggerStep, ThrottleStep
<1>5. ASSUME NEW w \in Workers, Raise(w) \/ Crash(w) PROVE IdInv'
  BY <1>5, FaultStep
<1>6. CASE ExpireLive \/ ExpireDead
  BY <1>6, ExpireStep
<1>7. CASE UNCHANGED vars
  <2>1. /\ UNCHANGED <<tables, run, owed, overlapped, triggered>>
        /\ statusRow' = statusRow /\ lease' = lease /\ faults' = faults
    BY <1>7 DEF vars, tables
  <2>2. /\ statusRow' \in Triggers \cup {None} /\ lease' \in Drains \cup {None}
        /\ faults' \in 0..MaxFaults
        /\ faults = 0 => \A v \in Drains : run[v].pc # "idle" => lease = v
    BY <2>1 DEF IdInv, TypeOK, Pending
  <2>3. QED
    BY <2>1, <2>2, LocksStep
<1>8. QED
  BY <1>1, <1>2, <1>3, <1>4, <1>5, <1>6, <1>7 DEF Next

-----------------------------------------------------------------------------
\* The worker's state has its types for any number of workers, profiles,
\* observations and masters: no row, link or mark lies outside the tables.
THEOREM IdentityTypeCorrect == Spec => []TypeOK
<1>1. IdInv => TypeOK
  BY DEF IdInv
<1>2. Init => IdInv
  BY InitResolution
<1>3. IdInv /\ [Next]_vars => IdInv'
  BY StepResolution
<1>4. QED
  BY <1>1, <1>2, <1>3, PTL DEF Spec

\* Processed rows are linked to masters that exist, batches that do not overlap
\* orphan no master, and no address has two owners.
THEOREM IdentityLinks == Spec => []LinksConsistent
<1>1. IdInv => LinksConsistent
  BY DEF IdInv, OneOwner, LinksConsistent
<1>2. Init => IdInv
  BY InitResolution
<1>3. IdInv /\ [Next]_vars => IdInv'
  BY StepResolution
<1>4. QED
  BY <1>1, <1>2, <1>3, PTL DEF Spec

\* A drain that meets no failure projects every master its batches resolved.
THEOREM IdentityDrains == Spec => []DrainsProject
<1>1. IdInv => DrainsProject
  <2>1. ASSUME IdInv, faults = 0, ~overlapped, \A w \in Drains : run[w].pc = "idle"
        PROVE  owed = {}
    <3>1. \A w \in Drains : run[w].resolved = {}
      BY <2>1 DEF IdInv, Local, LocalPc, Workers
    <3>2. QED
      BY <2>1, <3>1 DEF IdInv, Pending
  <2>2. QED
    BY <2>1 DEF DrainsProject
<1>2. Init => IdInv
  BY InitResolution
<1>3. IdInv /\ [Next]_vars => IdInv'
  BY StepResolution
<1>4. QED
  BY <1>1, <1>2, <1>3, PTL DEF Spec
=============================================================================
