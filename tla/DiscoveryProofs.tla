-------------------------- MODULE DiscoveryProofs --------------------------
(***************************************************************************)
(* The safety properties of Discovery, for any directory, candidates, ids  *)
(* and workers.  DiscInv says what the discovery knows of a directory only *)
(* it writes: the ids it may not use, the candidates whose addresses are   *)
(* new, and that there are ids left for all of them.                       *)
(***************************************************************************)
EXTENDS Discovery, FiniteSetTheorems, TLAPS

Less == {p \in Nat \X Nat : p[1] < p[2]}

LEMMA LessWellFounded == IsWellFoundedOn(Less, Nat)
<1>1. Less = OpToRel(<, Nat)
  BY Zenon DEF Less, OpToRel
<1> QED
  BY <1>1, NatLessThanWellFounded, Zenon

(* A set of numbers that is not empty has its minimum. *)
LEMMA MinIn ==
  ASSUME NEW I \in SUBSET Nat, I # {}
  PROVE  Min(I) \in I
<1>1. PICK x \in I : \A y \in I : ~(<<y, x>> \in Less)
  BY LessWellFounded, WFMin
<1>2. ASSUME NEW y \in I PROVE x <= y
  <2> DEFINE p == <<y, x>>
  <2>1. p \in Nat \X Nat /\ p[1] = y /\ p[2] = x
    OBVIOUS
  <2>2. p \notin Less
    BY <1>1
  <2> HIDE DEF p
  <2> QED
    BY <2>1, <2>2 DEF Less
<1> QED
  BY <1>2 DEF Min

(* The list of a finite set has each of its elements once. *)
LEMMA ListFacts ==
  ASSUME NEW S, IsFiniteSet(S)
  PROVE  /\ SetToSeq(S) \in Seq(S) /\ Len(SetToSeq(S)) = Cardinality(S)
         /\ IsInjective(SetToSeq(S)) /\ Cardinality(S) \in Nat
<1>1. Cardinality(S) \in Nat /\ \E f \in [1 .. Cardinality(S) -> S] : IsInjective(f)
  BY FS_CardinalityType DEF ExistsBijection, Bijection, Injection
<1>2. SetToSeq(S) \in [1 .. Cardinality(S) -> S] /\ IsInjective(SetToSeq(S))
  BY <1>1 DEF SetToSeq
<1> HIDE DEF SetToSeq
<1> QED
  BY <1>1, <1>2

Ids(d)   == {d[f].id : f \in Present(d)}
Addrs(d) == {AddressOf[d[f].rev] : f \in Present(d)}

(* The index of the first candidate that may still be promoted. *)
From == IF disc.pc = "probe" THEN 1 ELSE disc.next

Ready ==
  /\ Ids(dir) \subseteq disc.used
  /\ IsInjective(disc.todo)
  /\ \A i \in From .. Len(disc.todo) : AddressOf[disc.todo[i]] \notin Addrs(dir)
  /\ Cardinality(disc.used) + Len(disc.todo) + 1 <= Cardinality(DeviceIds) + From

DiscInv ==
  /\ TypeOK /\ Valid(dir)
  /\ AtDisc("read") => disc.names = Present(dir)
  /\ AtDisc("probe") \/ AtDisc("promote") => Ready

(* While an id is left, the discovery finds one. *)
LEMMA NewIdFacts ==
  ASSUME NEW r \in Found, disc.used \subseteq DeviceIds,
         Cardinality(disc.used) < Cardinality(DeviceIds)
  PROVE  NewId(r) \in DeviceIds \ disc.used
<1> DEFINE s == IdsTried[r]
           I == {i \in 1 .. Len(s) : s[i] \notin disc.used}
<1>1. s \in Seq(DeviceIds) /\ ToSet(s) = DeviceIds /\ IsFiniteSet(DeviceIds)
  BY DiscoveryAssumption
<1>2. Cardinality(DeviceIds) \in Nat
  BY <1>1, FS_CardinalityType
<1>3. disc.used # DeviceIds
  BY <1>2
<1>4. PICK id \in DeviceIds : id \notin disc.used
  BY <1>3
<1>5. PICK i \in 1 .. Len(s) : s[i] = id
  BY <1>1, <1>4 DEF ToSet
<1>6. I # {} /\ I \in SUBSET Nat
  BY <1>1, <1>4, <1>5
<1>7. Min(I) \in I
  BY <1>6, MinIn
<1>8. NewId(r) = s[Min(I)]
  BY <1>6 DEF NewId, SelectInSeq
<1> HIDE DEF I, s
<1> QED
  BY <1>1, <1>7, <1>8 DEF I

LEMMA UsedFacts ==
  ASSUME TypeOK, disc # None
  PROVE  /\ disc \in Discovering /\ disc.used \subseteq DeviceIds /\ IsFiniteSet(disc.used)
         /\ Cardinality(disc.used) \in Nat /\ Cardinality(DeviceIds) \in Nat
<1>1. disc \in Discovering /\ disc.used \subseteq DeviceIds
  BY DEF TypeOK, Discovering
<1> QED
  BY <1>1, DiscoveryAssumption, FS_Subset, FS_CardinalityType

LEMMA DiscInit == Init => DiscInv
<1> SUFFICES ASSUME Init PROVE DiscInv
  OBVIOUS
<1>1. TypeOKDir /\ Valid(dir)
  BY DEF Init, InitDir, TypeOKDir
<1> QED
  BY <1>1 DEF Init, DiscInv, TypeOK, AtDisc

(* What a candidate that is promoted finds. *)
LEMMA PromotableFacts ==
  ASSUME DiscInv, Promotable
  PROVE  /\ disc \in Discovering /\ disc.pc = "promote" /\ Ready
         /\ disc.next \in 1 .. Len(disc.todo) /\ disc.promoted < MaxNew
         /\ Candidate \in Found /\ NewId(Candidate) \in DeviceIds \ disc.used
<1>1. /\ disc # None /\ disc.pc = "promote" /\ disc.next <= Len(disc.todo)
      /\ disc.promoted < MaxNew
  BY DEF Promotable, Explores, Answered, AtDisc
<1>2. disc \in Discovering /\ Ready /\ TypeOK
  BY <1>1 DEF DiscInv, AtDisc, TypeOK
<1>3. disc.todo \in Seq(Found) /\ disc.next \in Nat \ {0}
  BY <1>2 DEF Discovering
<1>4. disc.next \in 1 .. Len(disc.todo) /\ Candidate \in Found
  BY <1>1, <1>3 DEF Candidate
<1>5. Cardinality(disc.used) < Cardinality(DeviceIds)
  BY <1>1, <1>2, <1>3, UsedFacts DEF Ready, From
<1>6. NewId(Candidate) \in DeviceIds \ disc.used
  BY <1>1, <1>2, <1>4, <1>5, UsedFacts, NewIdFacts
<1> QED
  BY <1>1, <1>2, <1>4, <1>6

(* A new file: an id of its own, an address of its own, and no named file of
   another device under it. *)
LEMMA PromoteFacts ==
  ASSUME DiscInv, Promote
  PROVE  LET id == NewId(Candidate)
             f  == FileOf[id]
         IN  /\ f \in Files /\ f \notin Named(dir)
             /\ dir' = [dir EXCEPT ![f] = [id |-> id, rev |-> Candidate]]
             /\ dir' \in Directory /\ Valid(dir')
             /\ Ids(dir') \subseteq Ids(dir) \union {id}
             /\ Addrs(dir') \subseteq Addrs(dir) \union {AddressOf[Candidate]}
             /\ AddressOf[Candidate] \notin Addrs(dir)
<1> DEFINE id == NewId(Candidate)
           f  == FileOf[id]
           content == [id |-> id, rev |-> Candidate]
<1>1. /\ disc \in Discovering /\ disc.pc = "promote" /\ Ready
      /\ disc.next \in 1 .. Len(disc.todo)
      /\ Candidate \in Found /\ id \in DeviceIds \ disc.used
  BY PromotableFacts DEF Promote
<1>2. dir' = [dir EXCEPT ![f] = content]
  BY DEF Promote
<1>3. dir \in Directory /\ Valid(dir)
  BY DEF DiscInv, TypeOK, TypeOKDir
<1>4. f \in Files /\ Candidate \in Revs \ BadRevs
  BY <1>1, DevicesDirAssumption, DiscoveryAssumption
<1>5. content.id = id /\ content.rev = Candidate /\ content \in Content
  BY <1>1, <1>4 DEF Content
<1> HIDE DEF content, id
<1>6. id \notin Ids(dir) /\ id \in DeviceIds
  BY <1>1 DEF Ready
<1>7. \A g \in Files : dir'[g] = IF g = f THEN content ELSE dir[g]
  BY <1>2, <1>3 DEF Directory
<1>8. Present(dir') \subseteq Present(dir) \union {f}
  BY <1>7 DEF Present
<1>9. \A g \in Present(dir') : g # f => g \in Present(dir) /\ dir'[g] = dir[g]
  BY <1>7 DEF Present
<1>10. dir' \in Directory
  BY <1>2, <1>3, <1>4, <1>5 DEF Directory
<1>11. dir'[f] = content
  BY <1>4, <1>7
<1>12. Valid(dir')
  <2>1. \A g \in Present(dir') : dir'[g].rev \notin BadRevs
    BY <1>3, <1>4, <1>5, <1>9, <1>11 DEF Valid
  <2>2. \A g \in Present(dir) : dir[g].id # id
    BY <1>6 DEF Ids
  <2>3. \A g, h \in Present(dir') : dir'[g].id = dir'[h].id => g = h
    BY <1>3, <1>5, <1>9, <1>11, <2>2 DEF Valid
  <2> QED
    BY <2>1, <2>3 DEF Valid
<1>13. Ids(dir') \subseteq Ids(dir) \union {id}
  BY <1>5, <1>9, <1>11 DEF Ids
<1>14. Addrs(dir') \subseteq Addrs(dir) \union {AddressOf[Candidate]}
  BY <1>5, <1>9, <1>11 DEF Addrs
<1>15. AddressOf[Candidate] \notin Addrs(dir)
  <2>1. disc.next \in From .. Len(disc.todo)
    BY <1>1 DEF From
  <2> QED
    BY <1>1, <2>1 DEF Ready, Candidate
<1>16. f \notin Named(dir)
  <2> SUFFICES ASSUME f \in Present(dir), FileOf[dir[f].id] = f PROVE FALSE
    BY DEF Named
  <2>1. dir[f].id \in Ids(dir)
    BY DEF Ids
  <2>2. dir[f].id \in DeviceIds
    BY <1>1, <2>1, UsedFacts DEF Ready, Discovering
  <2>3. dir[f].id = id
    BY <1>6, <2>2, DevicesDirAssumption, DiscoveryAssumption DEF IsInjective
  <2> QED
    BY <1>6, <2>1, <2>3
<1> QED
  BY <1>2, <1>4, <1>10, <1>12, <1>13, <1>14, <1>15, <1>16 DEF content, id

(* The steps before a file is written, and those of the pool. *)
LEMMA ScanKeeps == DiscInv /\ Scan => DiscInv'
<1> SUFFICES ASSUME DiscInv, Scan PROVE DiscInv'
  OBVIOUS
<1>1. PICK S \in SUBSET Found :
        LET new == {r \in S : ~Known(r)}
        IN  /\ Cardinality(LoadedIds) + Cardinality(new) <= Cardinality(DeviceIds)
            /\ disc' = [disc EXCEPT !.pc = "probe", !.used = LoadedIds,
                                    !.todo = SetToSeq(new)]
  BY DEF Scan
<1> DEFINE new == {r \in S : ~Known(r)}
<1>2. /\ disc # None /\ disc.pc = "read" /\ disc \in Discovering /\ disc.names = Present(dir)
      /\ UNCHANGED <<dir, cli, pool>> /\ TypeOK /\ Valid(dir)
  BY DEF Scan, DiscInv, TypeOK, AtDisc
<1>3. /\ Cardinality(LoadedIds) + Cardinality(new) <= Cardinality(DeviceIds)
      /\ disc' = [disc EXCEPT !.pc = "probe", !.used = LoadedIds, !.todo = SetToSeq(new)]
  BY <1>1
<1>4. LoadedIds = Ids(dir)
  BY <1>2 DEF LoadedIds, Ids
<1>5. \A r \in new : AddressOf[r] \notin Addrs(dir)
  BY <1>2 DEF Known, Addrs
<1>6. new \subseteq Found /\ IsFiniteSet(new)
  BY DiscoveryAssumption, FS_Subset
<1> HIDE DEF new
<1> DEFINE todo == SetToSeq(new)
<1>7. /\ todo \in Seq(new) /\ Len(todo) = Cardinality(new) /\ IsInjective(todo)
      /\ Cardinality(new) \in Nat
  BY <1>6, ListFacts
<1> HIDE DEF todo
<1>8. todo \in Seq(Found)
  BY <1>6, <1>7
<1>9. LoadedIds \subseteq DeviceIds
  BY <1>2, <1>4 DEF Ids, Present, TypeOK, TypeOKDir, Directory, Content
<1>10. IsFiniteSet(LoadedIds) /\ Cardinality(LoadedIds) \in Nat /\ Cardinality(DeviceIds) \in Nat
  BY <1>9, DiscoveryAssumption, FS_Subset, FS_CardinalityType
<1>11. /\ disc' \in Discovering /\ disc'.pc = "probe" /\ disc'.used = LoadedIds
       /\ disc'.todo = todo
  BY <1>2, <1>3, <1>8, <1>9 DEF Discovering, todo
<1>12. TypeOK'
  BY <1>2, <1>11 DEF TypeOK, TypeOKDir, pool
<1>13. Ready'
  <2>1. From' = 1
    BY <1>11 DEF From
  <2>2. \A i \in 1 .. Len(todo) : todo[i] \in new
    BY <1>7
  <2>3. \A i \in From' .. Len(disc'.todo) : AddressOf[disc'.todo[i]] \notin Addrs(dir')
    BY <1>2, <1>5, <1>11, <2>1, <2>2
  <2>4. Cardinality(disc'.used) + Len(disc'.todo) + 1 <= Cardinality(DeviceIds) + From'
    BY <1>3, <1>7, <1>10, <1>11, <2>1
  <2> QED
    BY <1>2, <1>4, <1>7, <1>11, <2>3, <2>4 DEF Ready
<1> QED
  BY <1>2, <1>11, <1>12, <1>13 DEF DiscInv, AtDisc

LEMMA PoolKeeps ==
  ASSUME DiscInv, NEW w \in Workers, Feed(w) \/ Probed(w)
  PROVE  DiscInv'
<1>1. TypeOK /\ Valid(dir) /\ UNCHANGED <<dir, cli>>
  BY DEF DiscInv, Feed, Probed
<1>2. CASE Feed(w)
  <2>1. /\ disc # None /\ disc.pc = "probe" /\ disc \in Discovering /\ Ready
        /\ disc.next \in Nat \ {0}
    BY <1>2 DEF Feed, AtDisc, DiscInv, TypeOK, Discovering
  <2>2. /\ disc' = [disc EXCEPT !.next = disc.next + 1]
        /\ worker' = [worker EXCEPT ![w] = disc.next] /\ answer' = answer
    BY <1>2 DEF Feed
  <2>3. /\ disc' \in Discovering /\ disc'.pc = "probe" /\ disc'.used = disc.used
        /\ disc'.todo = disc.todo
    BY <2>1, <2>2 DEF Discovering
  <2>4. TypeOK'
    BY <1>1, <2>1, <2>2, <2>3 DEF TypeOK, TypeOKDir
  <2>5. Ready'
    BY <1>1, <2>1, <2>3 DEF Ready, From
  <2> QED
    BY <1>1, <2>3, <2>4, <2>5 DEF DiscInv, AtDisc
<1>3. CASE Probed(w)
  <2>1. /\ worker' = [worker EXCEPT ![w] = 0] /\ disc' = disc /\ worker[w] # 0
        /\ \E a \in Answers : answer' = Append(answer, [idx |-> worker[w], what |-> a])
    BY <1>3 DEF Probed
  <2>2. worker[w] \in Nat \ {0} /\ worker' \in [Workers -> Nat]
    BY <1>1, <2>1 DEF TypeOK
  <2>3. answer' \in Seq([idx : Nat \ {0}, what : Answers])
    BY <1>1, <2>1, <2>2 DEF TypeOK
  <2>4. TypeOK'
    BY <1>1, <2>1, <2>2, <2>3 DEF TypeOK, TypeOKDir
  <2> QED
    BY <1>1, <2>1, <2>4 DEF DiscInv, AtDisc, Ready, From
<1> QED
  BY <1>2, <1>3

(* A candidate is gone through, with an id used up or not. *)
LEMMA PassKeeps ==
  ASSUME DiscInv, Promote \/ PromoteFails \/ Skip
  PROVE  DiscInv' /\ disc' \in Discovering
<1>1. TypeOK /\ Valid(dir) /\ UNCHANGED <<cli, pool>>
  BY DEF DiscInv, Promote, PromoteFails, Skip
<1>2. disc # None /\ disc.pc = "promote" /\ disc.next <= Len(disc.todo)
  BY DEF Promote, PromoteFails, Skip, Promotable, Explores, Answered, AtDisc
<1>3. disc \in Discovering /\ Ready
  BY <1>2 DEF DiscInv, AtDisc, TypeOK
<1>4. /\ disc.next \in 1 .. Len(disc.todo) /\ Len(disc.todo) \in Nat
      /\ disc.used \subseteq DeviceIds /\ disc.promoted \in 0 .. MaxNew
      /\ disc.todo \in Seq(Found)
  BY <1>2, <1>3 DEF Discovering
<1> DEFINE id == NewId(Candidate)
<1>5. /\ Promote => /\ disc' = [disc EXCEPT !.used = disc.used \union {id},
                                            !.next = disc.next + 1,
                                            !.promoted = disc.promoted + 1]
                    /\ disc.promoted < MaxNew /\ id \in DeviceIds \ disc.used
      /\ PromoteFails => /\ disc' = [disc EXCEPT !.used = disc.used \union {id},
                                                 !.next = disc.next + 1]
                         /\ id \in DeviceIds \ disc.used
      /\ Skip => disc' = [disc EXCEPT !.next = disc.next + 1]
  <2>1. Promote => /\ disc' = [disc EXCEPT !.used = disc.used \union {id},
                                           !.next = disc.next + 1,
                                           !.promoted = disc.promoted + 1]
                   /\ disc.promoted < MaxNew /\ id \in DeviceIds \ disc.used
    BY PromotableFacts DEF Promote
  <2>2. PromoteFails => /\ disc' = [disc EXCEPT !.used = disc.used \union {id},
                                                !.next = disc.next + 1]
                        /\ id \in DeviceIds \ disc.used
    BY PromotableFacts DEF PromoteFails
  <2>3. Skip => disc' = [disc EXCEPT !.next = disc.next + 1]
    BY DEF Skip
  <2> QED
    BY <2>1, <2>2, <2>3
<1> HIDE DEF id
<1>6. PICK more \in {{}, {id}} :
        /\ Promote => more = {id}
        /\ disc' \in Discovering /\ disc'.pc = "promote" /\ disc'.todo = disc.todo
        /\ disc'.used = disc.used \union more /\ disc'.next = disc.next + 1
  <2>1. disc.next + 1 \in Nat \ {0}
    BY <1>4
  <2>2. CASE Promote
    <3>1. disc.used \union {id} \subseteq DeviceIds /\ disc.promoted + 1 \in 0 .. MaxNew
      BY <1>4, <1>5, <2>2, DiscoveryAssumption
    <3>2. /\ disc' \in Discovering /\ disc'.pc = "promote" /\ disc'.todo = disc.todo
          /\ disc'.used = disc.used \union {id} /\ disc'.next = disc.next + 1
      BY <1>2, <1>3, <1>5, <2>1, <2>2, <3>1, ZenonT(30) DEF Discovering
    <3> QED
      BY <3>2
  <2>3. CASE PromoteFails /\ ~Promote
    <3>1. disc.used \union {id} \subseteq DeviceIds
      BY <1>4, <1>5, <2>3
    <3>2. /\ disc' \in Discovering /\ disc'.pc = "promote" /\ disc'.todo = disc.todo
          /\ disc'.used = disc.used \union {id} /\ disc'.next = disc.next + 1
      BY <1>2, <1>3, <1>5, <2>1, <2>3, <3>1, ZenonT(30) DEF Discovering
    <3> QED
      BY <2>3, <3>2
  <2>4. CASE Skip /\ ~Promote
    <3>1. /\ disc' \in Discovering /\ disc'.pc = "promote" /\ disc'.todo = disc.todo
          /\ disc'.used = disc.used /\ disc'.next = disc.next + 1
      BY <1>2, <1>3, <1>5, <2>1, <2>4 DEF Discovering
    <3> QED
      BY <2>4, <3>1
  <2> QED
    BY <2>2, <2>3, <2>4
<1>7. /\ dir' \in Directory /\ Valid(dir')
      /\ Ids(dir') \subseteq Ids(dir) \union more
      /\ Addrs(dir') \subseteq Addrs(dir) \union {AddressOf[Candidate]}
  <2>1. CASE Promote
    <3>1. /\ dir' \in Directory /\ Valid(dir')
          /\ Ids(dir') \subseteq Ids(dir) \union {id}
          /\ Addrs(dir') \subseteq Addrs(dir) \union {AddressOf[Candidate]}
      BY <2>1, PromoteFacts DEF id
    <3> QED
      BY <1>6, <2>1, <3>1
  <2>2. CASE PromoteFails \/ Skip
    BY <1>1, <2>2 DEF PromoteFails, Skip, TypeOK, TypeOKDir
  <2> QED
    BY <2>1, <2>2
<1>8. TypeOK'
  BY <1>1, <1>6, <1>7 DEF TypeOK, TypeOKDir, pool
<1>9. Ready'
  <2>1. From = disc.next /\ From' = disc.next + 1
    BY <1>2, <1>6 DEF From
  <2>2. \A i \in From' .. Len(disc'.todo) : AddressOf[disc'.todo[i]] \notin Addrs(dir')
    <3> SUFFICES ASSUME NEW i \in disc.next + 1 .. Len(disc.todo)
                 PROVE  AddressOf[disc.todo[i]] \notin Addrs(dir')
      BY <1>6, <2>1
    <3>1. i \in From .. Len(disc.todo) /\ i # disc.next /\ i \in 1 .. Len(disc.todo)
      BY <1>4, <2>1
    <3>2. AddressOf[disc.todo[i]] \notin Addrs(dir)
      BY <1>3, <3>1 DEF Ready
    <3>3. disc.todo[i] # Candidate /\ disc.todo[i] \in Found /\ Candidate \in Found
      BY <1>3, <1>4, <3>1 DEF Ready, IsInjective, Candidate
    <3>4. AddressOf[disc.todo[i]] # AddressOf[Candidate]
      BY <3>3, DiscoveryAssumption
    <3> QED
      BY <1>7, <3>2, <3>4
  <2>3. Cardinality(disc'.used) <= Cardinality(disc.used) + 1
        /\ Cardinality(disc'.used) \in Nat
    <3>1. IsFiniteSet(disc.used) /\ Cardinality(disc.used) \in Nat
      BY <1>1, <1>2, UsedFacts
    <3> DEFINE U == disc.used
    <3>2. /\ IsFiniteSet(U \union {id})
          /\ Cardinality(U \union {id}) = IF id \in U THEN Cardinality(U) ELSE Cardinality(U) + 1
      BY <3>1, FS_AddElement
    <3>3. Cardinality(U \union {id}) \in Nat
      BY <3>2, FS_CardinalityType
    <3>4. disc'.used = U \/ disc'.used = U \union {id}
      BY <1>6
    <3> DEFINE n == Cardinality(U)
               m == Cardinality(U \union {id})
    <3>5. m = n \/ m = n + 1
      BY <3>2
    <3>6. Cardinality(disc'.used) = n \/ Cardinality(disc'.used) = m
      BY <3>4
    <3>7. n \in Nat /\ m \in Nat
      BY <3>1, <3>3
    <3> HIDE DEF n, m
    <3>8. Cardinality(disc'.used) \in Nat /\ Cardinality(disc'.used) <= n + 1
      BY <3>5, <3>6, <3>7
    <3> QED
      BY <3>8 DEF n
  <2>4. Cardinality(disc'.used) + Len(disc'.todo) + 1 <= Cardinality(DeviceIds) + From'
    BY <1>1, <1>2, <1>3, <1>4, <1>6, <2>1, <2>3, UsedFacts, SMTT(30) DEF Ready
  <2>5. Ids(dir') \subseteq disc'.used
    BY <1>3, <1>6, <1>7 DEF Ready
  <2> QED
    BY <1>3, <1>6, <2>2, <2>4, <2>5 DEF Ready
<1> QED
  BY <1>6, <1>7, <1>8, <1>9 DEF DiscInv, AtDisc

LEMMA DiscStep == DiscInv /\ [Next]_vars => DiscInv'
<1> SUFFICES ASSUME DiscInv, [Next]_vars PROVE DiscInv'
  OBVIOUS
<1>1. TypeOK /\ Valid(dir)
  BY DEF DiscInv
<1>2. CASE ListFiles
  <2>1. /\ disc # None /\ disc.pc = "load" /\ disc \in Discovering
        /\ disc' = [disc EXCEPT !.pc = "read", !.names = Present(dir)]
        /\ UNCHANGED <<dir, cli, pool>>
    BY <1>1, <1>2 DEF ListFiles, AtDisc, TypeOK
  <2>2. Present(dir) \subseteq Files
    BY DEF Present
  <2>3. disc' \in Discovering /\ disc'.pc = "read" /\ disc'.names = Present(dir)
    BY <2>1, <2>2 DEF Discovering
  <2> QED
    BY <1>1, <2>1, <2>3 DEF DiscInv, TypeOK, TypeOKDir, AtDisc, pool
<1>3. CASE Scan
  BY <1>3, ScanKeeps
<1>4. CASE Fails \/ ExplorationBreaks \/ Done \/ Killed
  <2>1. disc' = None /\ worker' = [w \in Workers |-> 0] /\ answer' = <<>>
        /\ UNCHANGED <<dir, cli>>
    BY <1>4 DEF Fails, ExplorationBreaks, Done, Killed, EndDisc
  <2> QED
    BY <1>1, <2>1 DEF DiscInv, TypeOK, TypeOKDir, AtDisc
<1>5. CASE \E w \in Workers : Feed(w) \/ Probed(w)
  BY <1>5, PoolKeeps
<1>6. CASE PoolEnds
  <2>1. /\ disc # None /\ disc.pc = "probe" /\ disc \in Discovering /\ Ready
        /\ disc' = [disc EXCEPT !.pc = "promote", !.next = 1]
        /\ UNCHANGED <<dir, cli, pool>>
    BY <1>1, <1>6 DEF PoolEnds, AtDisc, TypeOK, DiscInv
  <2>2. /\ disc' \in Discovering /\ disc'.pc = "promote" /\ disc'.next = 1
        /\ disc'.used = disc.used /\ disc'.todo = disc.todo
    <3>1. 1 \in Nat \ {0}
      OBVIOUS
    <3> QED
      BY <2>1, <3>1 DEF Discovering
  <2>3. Ready'
    BY <2>1, <2>2 DEF Ready, From
  <2> QED
    BY <1>1, <2>1, <2>2, <2>3 DEF DiscInv, TypeOK, TypeOKDir, AtDisc, pool
<1>7. CASE Promote \/ PromoteFails \/ Skip
  BY <1>7, PassKeeps
<1>8. CASE \E apply \in BOOLEAN : RunDiscovery(apply)
  <2>1. PICK apply \in BOOLEAN : RunDiscovery(apply)
    BY <1>8
  <2>2. /\ disc' = [pc |-> "load", apply |-> apply, names |-> {}, used |-> {},
                    todo |-> <<>>, next |-> 1, promoted |-> 0]
        /\ UNCHANGED <<dir, cli, pool>>
    BY <2>1 DEF RunDiscovery
  <2>3. <<>> \in Seq(Found) /\ 0 \in 0 .. MaxNew
    BY DiscoveryAssumption
  <2>4. disc' \in Discovering /\ disc'.pc = "load"
    BY <2>2, <2>3 DEF Discovering
  <2> QED
    BY <1>1, <2>2, <2>4 DEF DiscInv, TypeOK, TypeOKDir, AtDisc, pool
<1>9. CASE UNCHANGED vars
  BY <1>9 DEF vars, pool, DiscInv, TypeOK, TypeOKDir, AtDisc, Ready, From
<1> QED
  BY <1>2, <1>3, <1>4, <1>5, <1>6, <1>7, <1>8, <1>9 DEF Next, DiscoveryStep

(* In every reachable state the discovery knows the ids and the addresses of the
   directory and has ids for the candidates that are left. *)
THEOREM DiscoveryInvariant == Spec => []DiscInv
  BY DiscInit, DiscStep, PTL DEF Spec

(* Directory, discovery, workers and answers stay in their domains. *)
THEOREM DiscoveryTypeCorrect == Spec => []TypeOK
<1>1. DiscInv => TypeOK
  BY DEF DiscInv
<1> QED
  BY <1>1, DiscoveryInvariant, PTL

(* Only a promotion writes the directory. *)
LEMMA OnlyPromoteWrites ==
  ASSUME [Next]_vars, dir' # dir
  PROVE  Promote
  BY DEF Next, DiscoveryStep, RunDiscovery, ListFiles, Scan, Fails, Feed, Probed, PoolEnds,
         PromoteFails, Skip, ExplorationBreaks, Done, Killed, vars

(* A device whose file has the name of its id is never overwritten:
   promote.go:38-85. *)
THEOREM NamedAreKept == Spec => NamedDevicesStay
<1>1. DiscInv /\ [Next]_vars => [\A f \in Named(dir) : dir'[f] = dir[f]]_vars
  <2> SUFFICES ASSUME DiscInv, [Next]_vars, NEW f \in Named(dir) PROVE dir'[f] = dir[f]
    OBVIOUS
  <2>1. CASE dir' = dir
    BY <2>1
  <2>2. CASE dir' # dir
    <3>1. Promote
      BY <2>2, OnlyPromoteWrites
    <3> DEFINE g == FileOf[NewId(Candidate)]
               content == [id |-> NewId(Candidate), rev |-> Candidate]
    <3>2. dir' = [dir EXCEPT ![g] = content] /\ g # f
      BY <3>1, PromoteFacts
    <3> QED
      BY <3>2
  <2> QED
    BY <2>1, <2>2
<1> QED
  BY <1>1, DiscoveryInvariant, PTL DEF Spec, NamedDevicesStay

(* What discovery writes keeps the directory one the agent can load, and it adds
   no second device of an address: service.go:55-82, promote.go:38-50. *)
THEOREM OnlyNewIsAdded == Spec => AddsOnlyNew
<1>1. DiscInv /\ [Next]_vars =>
        [ /\ Valid(dir')
          /\ \A addr \in Addresses :
               DevicesAt(dir', addr) = {} \/ Cardinality(DevicesAt(dir', addr)) = 1
                 \/ DevicesAt(dir', addr) \subseteq DevicesAt(dir, addr) ]_vars
  <2> SUFFICES ASSUME DiscInv, [Next]_vars
      PROVE /\ Valid(dir')
            /\ \A addr \in Addresses :
                 DevicesAt(dir', addr) = {} \/ Cardinality(DevicesAt(dir', addr)) = 1
                   \/ DevicesAt(dir', addr) \subseteq DevicesAt(dir, addr)
    OBVIOUS
  <2>1. CASE dir' = dir
    BY <2>1 DEF DiscInv
  <2>2. CASE dir' # dir
    <3>1. Promote
      BY <2>2, OnlyPromoteWrites
    <3> DEFINE g == FileOf[NewId(Candidate)]
               content == [id |-> NewId(Candidate), rev |-> Candidate]
               at == AddressOf[Candidate]
    <3>2. /\ dir' = [dir EXCEPT ![g] = content] /\ g \in Files /\ Valid(dir')
          /\ at \notin Addrs(dir)
      BY <3>1, PromoteFacts
    <3>3. content.rev = Candidate /\ dir \in Directory
      BY DEF DiscInv, TypeOK, TypeOKDir
    <3> HIDE DEF g, content
    <3>4. \A f \in Files : dir'[f] = IF f = g THEN content ELSE dir[f]
      BY <3>2, <3>3 DEF Directory
    <3>5. ASSUME NEW addr \in Addresses, addr = at
          PROVE  DevicesAt(dir', addr) \subseteq {g}
      BY <3>2, <3>4, <3>5 DEF DevicesAt, Present, Addrs
    <3>6. ASSUME NEW addr \in Addresses, addr # at
          PROVE  DevicesAt(dir', addr) \subseteq DevicesAt(dir, addr)
      BY <3>3, <3>4, <3>6 DEF DevicesAt, Present
    <3>7. Cardinality({g}) = 1
      BY FS_Singleton
    <3>8. ASSUME NEW addr \in Addresses
          PROVE  DevicesAt(dir', addr) = {} \/ Cardinality(DevicesAt(dir', addr)) = 1
                   \/ DevicesAt(dir', addr) \subseteq DevicesAt(dir, addr)
      <4>1. CASE addr = at
        <5>1. DevicesAt(dir', addr) = {} \/ DevicesAt(dir', addr) = {g}
          BY <3>5, <4>1
        <5> QED
          BY <3>7, <5>1
      <4>2. CASE addr # at
        BY <3>6, <4>2
      <4> QED
        BY <4>1, <4>2
    <3> QED
      BY <3>2, <3>8
  <2> QED
    BY <2>1, <2>2
<1> QED
  BY <1>1, DiscoveryInvariant, PTL DEF Spec, AddsOnlyNew
-----------------------------------------------------------------------------
(* The pool of probes *)

(* Each of the indices 1 .. n is with one worker or has one answer. *)
Dealt(n, f, s) ==
  /\ f \in [Workers -> 0 .. n] /\ s \in Seq([idx : Nat \ {0}, what : Answers])
  /\ \A k \in DOMAIN s : s[k].idx \in 1 .. n
  /\ \A v, w \in Workers : f[v] = f[w] => f[v] = 0 \/ v = w
  /\ \A j, k \in DOMAIN s : s[j].idx = s[k].idx => j = k
  /\ \A w \in Workers, k \in DOMAIN s : s[k].idx # f[w]
  /\ \A i \in 1 .. n : \/ \E w \in Workers : f[w] = i
                       \/ \E k \in DOMAIN s : s[k].idx = i

ProbeInv ==
  /\ AtDisc("probe") => /\ disc.next <= Len(disc.todo) + 1
                        /\ Dealt(disc.next - 1, worker, answer)
  /\ AtDisc("promote") => Dealt(Len(disc.todo), worker, answer)
  /\ ~AtDisc("probe") => worker = [w \in Workers |-> 0]
  /\ ~AtDisc("probe") /\ ~AtDisc("promote") => answer = <<>>
  /\ AtDisc("load") \/ AtDisc("read") => disc.next = 1

LEMMA DealtNone == Dealt(0, [w \in Workers |-> 0], <<>>)
  BY DEF Dealt

LEMMA DealtFed ==
  ASSUME NEW n \in Nat, NEW f, NEW s, NEW w \in Workers, Dealt(n, f, s), f[w] = 0
  PROVE  Dealt(n + 1, [f EXCEPT ![w] = n + 1], s)
<1> DEFINE g == [f EXCEPT ![w] = n + 1]
<1>1. /\ f \in [Workers -> 0 .. n] /\ s \in Seq([idx : Nat \ {0}, what : Answers])
      /\ \A k \in DOMAIN s : s[k].idx \in 1 .. n
  BY DEF Dealt
<1>2. g \in [Workers -> 0 .. n + 1] /\ g[w] = n + 1 /\ \A v \in Workers \ {w} : g[v] = f[v]
  BY <1>1
<1>3. \A k \in DOMAIN s : s[k].idx \in 1 .. n + 1
  BY <1>1
<1> HIDE DEF g
<1>4. \A v \in Workers : f[v] \in 0 .. n
  BY <1>1
<1>5. \A u, v \in Workers : g[u] = g[v] => g[u] = 0 \/ u = v
  BY <1>2, <1>4 DEF Dealt
<1>6. \A v \in Workers, k \in DOMAIN s : s[k].idx # g[v]
  BY <1>1, <1>2 DEF Dealt
<1>7. ASSUME NEW i \in 1 .. n + 1
      PROVE  (\E v \in Workers : g[v] = i) \/ \E k \in DOMAIN s : s[k].idx = i
  <2>1. CASE i = n + 1
    BY <1>2, <2>1
  <2>2. CASE i \in 1 .. n
    <3>1. ASSUME NEW v \in Workers, f[v] = i PROVE g[v] = i
      BY <1>2, <2>2, <3>1
    <3> QED
      BY <2>2, <3>1 DEF Dealt
  <2> QED
    BY <2>1, <2>2
<1> QED
  BY <1>1, <1>2, <1>3, <1>5, <1>6, <1>7 DEF Dealt, g

LEMMA DealtProbed ==
  ASSUME NEW n \in Nat, NEW f, NEW s, NEW w \in Workers, NEW a \in Answers,
         Dealt(n, f, s), f[w] # 0
  PROVE  Dealt(n, [f EXCEPT ![w] = 0], Append(s, [idx |-> f[w], what |-> a]))
<1> DEFINE g == [f EXCEPT ![w] = 0]
           e == [idx |-> f[w], what |-> a]
           t == Append(s, e)
<1>1. /\ f \in [Workers -> 0 .. n] /\ s \in Seq([idx : Nat \ {0}, what : Answers])
      /\ \A k \in DOMAIN s : s[k].idx \in 1 .. n
  BY DEF Dealt
<1>2. /\ g \in [Workers -> 0 .. n] /\ g[w] = 0
      /\ \A v \in Workers \ {w} : g[v] = f[v]
  BY <1>1
<1>3. f[w] \in 1 .. n /\ e \in [idx : Nat \ {0}, what : Answers] /\ e.idx = f[w]
  BY <1>1
<1> HIDE DEF g, e
<1>4. /\ t \in Seq([idx : Nat \ {0}, what : Answers]) /\ Len(s) \in Nat
      /\ DOMAIN s = 1 .. Len(s) /\ DOMAIN t = 1 .. Len(s) + 1 /\ t[Len(s) + 1] = e
      /\ \A k \in 1 .. Len(s) : t[k] = s[k]
  BY <1>1, <1>3
<1> HIDE DEF t
<1>5. \A k \in 1 .. Len(s) : s[k].idx # f[w]
  BY <1>4 DEF Dealt
<1>6. \A u, v \in Workers : g[u] = g[v] => g[u] = 0 \/ u = v
  BY <1>2 DEF Dealt
<1>7. ASSUME NEW j \in DOMAIN t, NEW k \in DOMAIN t, t[j].idx = t[k].idx PROVE j = k
  <2>1. CASE j \in 1 .. Len(s) /\ k \in 1 .. Len(s)
    <3>1. s[j].idx = s[k].idx
      BY <1>4, <1>7, <2>1
    <3> QED
      BY <1>4, <2>1, <3>1 DEF Dealt
  <2>2. CASE j \in 1 .. Len(s) /\ k = Len(s) + 1
    BY <1>3, <1>4, <1>5, <1>7, <2>2
  <2>3. CASE j = Len(s) + 1 /\ k \in 1 .. Len(s)
    BY <1>3, <1>4, <1>5, <1>7, <2>3
  <2> QED
    BY <1>4, <2>1, <2>2, <2>3
<1>7a. \A k \in DOMAIN t : t[k].idx \in 1 .. n
  BY <1>1, <1>3, <1>4
<1>8. ASSUME NEW v \in Workers, NEW k \in DOMAIN t PROVE t[k].idx # g[v]
  <2>1. CASE v = w
    BY <1>2, <1>7a, <2>1
  <2>2. CASE v # w /\ k \in 1 .. Len(s)
    BY <1>2, <1>4, <2>2 DEF Dealt
  <2>3. CASE v # w /\ k = Len(s) + 1
    <3>1. f[v] # f[w]
      BY <2>3 DEF Dealt
    <3> QED
      BY <1>2, <1>3, <1>4, <2>3, <3>1
  <2> QED
    BY <1>4, <2>1, <2>2, <2>3
<1>9. ASSUME NEW i \in 1 .. n
      PROVE  (\E v \in Workers : g[v] = i) \/ \E k \in DOMAIN t : t[k].idx = i
  <2>1. CASE i = f[w]
    <3>1. Len(s) + 1 \in DOMAIN t /\ t[Len(s) + 1].idx = i
      BY <1>3, <1>4, <2>1
    <3> QED
      BY <3>1
  <2>2. ASSUME NEW v \in Workers, f[v] = i, i # f[w] PROVE g[v] = i
    BY <1>2, <2>2
  <2>3. ASSUME NEW k \in DOMAIN s, s[k].idx = i PROVE k \in DOMAIN t /\ t[k].idx = i
    BY <1>4, <2>3
  <2> QED
    BY <2>1, <2>2, <2>3 DEF Dealt
<1> QED
  BY <1>2, <1>4, <1>6, <1>7, <1>8, <1>9, <1>7a DEF Dealt, g, e, t

(* While a worker has an index there is one answer at least to come. *)
LEMMA DealtRoom ==
  ASSUME NEW n \in Nat, NEW f, NEW s, NEW w \in Workers, Dealt(n, f, s), f[w] # 0
  PROVE  Len(s) < n
<1> DEFINE I == {s[k].idx : k \in DOMAIN s}
           h == [k \in 1 .. Len(s) |-> s[k].idx]
<1>1. /\ DOMAIN s = 1 .. Len(s) /\ Len(s) \in Nat
      /\ f[w] \in 1 .. n
      /\ \A k \in DOMAIN s : s[k].idx \in 1 .. n /\ s[k].idx # f[w]
  BY DEF Dealt
<1>2. I \subseteq (1 .. n) \ {f[w]}
  BY <1>1
<1>3. h \in Bijection(1 .. Len(s), I)
  <2>1. h \in [1 .. Len(s) -> I] /\ \A i \in I : \E k \in 1 .. Len(s) : h[k] = i
    BY <1>1
  <2>2. \A j, k \in 1 .. Len(s) : h[j] = h[k] => j = k
    BY <1>1 DEF Dealt
  <2> HIDE DEF h, I
  <2> QED
    BY <2>1, <2>2 DEF Bijection, Injection, Surjection, IsInjective
<1> HIDE DEF I, h
<1>4. /\ IsFiniteSet(1 .. Len(s)) /\ Cardinality(1 .. Len(s)) = Len(s)
      /\ IsFiniteSet(1 .. n) /\ Cardinality(1 .. n) = n
  <2>1. \A m \in Nat : IsFiniteSet(1 .. m) /\ Cardinality(1 .. m) = m
    BY FS_Interval
  <2> QED
    BY <1>1, <2>1
<1>5. Cardinality(I) = Len(s)
  BY <1>3, <1>4, FS_Bijection DEF ExistsBijection
<1>6. IsFiniteSet((1 .. n) \ {f[w]}) /\ Cardinality((1 .. n) \ {f[w]}) = n - 1
  BY <1>1, <1>4, FS_RemoveElement
<1>7. Cardinality(I) <= Cardinality((1 .. n) \ {f[w]})
  BY <1>2, <1>6, FS_Subset
<1> QED
  BY <1>1, <1>5, <1>6, <1>7

LEMMA ProbeStep == DiscInv /\ ProbeInv /\ [Next]_vars => ProbeInv'
<1> SUFFICES ASSUME DiscInv, ProbeInv, [Next]_vars PROVE ProbeInv'
  OBVIOUS
<1>1. /\ worker \in [Workers -> Nat] /\ answer \in Seq([idx : Nat \ {0}, what : Answers])
      /\ disc = None \/ disc \in Discovering
  BY DEF DiscInv, TypeOK
<1>2. CASE ListFiles
  <2>1. /\ disc # None /\ disc.pc = "load" /\ disc \in Discovering /\ UNCHANGED pool
        /\ disc' = [disc EXCEPT !.pc = "read", !.names = Present(dir)]
    BY <1>1, <1>2 DEF ListFiles, AtDisc
  <2>2. disc'.pc = "read" /\ disc'.next = disc.next
    BY <2>1 DEF Discovering
  <2> QED
    BY <2>1, <2>2 DEF ProbeInv, AtDisc, pool
<1>3. CASE Scan
  <2>1. DiscInv'
    BY <1>3, ScanKeeps
  <2>2. PICK u, t : disc' = [disc EXCEPT !.pc = "probe", !.used = u, !.todo = t]
    BY <1>3 DEF Scan
  <2>3. disc # None /\ disc \in Discovering /\ disc.pc = "read" /\ UNCHANGED pool
    BY <1>1, <1>3 DEF Scan, AtDisc
  <2>4. disc'.pc = "probe" /\ disc'.next = disc.next
    BY <2>2, <2>3 DEF Discovering
  <2>5. disc' = None \/ disc'.todo \in Seq(Found)
    BY <2>1 DEF DiscInv, TypeOK, Discovering
  <2>6. disc.next = 1 /\ worker = [w \in Workers |-> 0] /\ answer = <<>>
    BY <2>3 DEF ProbeInv, AtDisc
  <2>7. Dealt(disc'.next - 1, worker', answer')
    BY <2>3, <2>4, <2>6, DealtNone DEF pool
  <2>8. disc' = None \/ disc'.next <= Len(disc'.todo) + 1
    BY <2>4, <2>5, <2>6
  <2> QED
    BY <2>3, <2>4, <2>6, <2>7, <2>8 DEF ProbeInv, AtDisc, pool
<1>4. ASSUME NEW w \in Workers, Feed(w) PROVE ProbeInv'
  <2>1. /\ disc # None /\ disc \in Discovering /\ disc.pc = "probe"
        /\ disc.next <= Len(disc.todo) /\ worker[w] = 0 /\ answer' = answer
        /\ disc' = [disc EXCEPT !.next = disc.next + 1]
        /\ worker' = [worker EXCEPT ![w] = disc.next]
    BY <1>1, <1>4 DEF Feed, AtDisc
  <2>2. disc.next \in Nat \ {0} /\ Len(disc.todo) \in Nat /\ disc.next + 1 \in Nat \ {0}
    BY <2>1 DEF Discovering
  <2>3. /\ disc' \in Discovering /\ disc'.pc = "probe" /\ disc'.todo = disc.todo
        /\ disc'.next = disc.next + 1
    BY <2>1, <2>2 DEF Discovering
  <2>4. disc' # None
    BY <2>3, DiscoveringAssumption
  <2> DEFINE n == disc.next - 1
  <2>5. n \in Nat /\ n + 1 = disc.next /\ disc'.next - 1 = n + 1
    BY <2>2, <2>3
  <2>6. Dealt(n, worker, answer)
    BY <2>1 DEF ProbeInv, AtDisc
  <2> HIDE DEF n
  <2>7. Dealt(n + 1, [worker EXCEPT ![w] = n + 1], answer)
    BY <2>1, <2>5, <2>6, DealtFed
  <2>8. Dealt(disc'.next - 1, worker', answer')
    BY <2>1, <2>5, <2>7
  <2>9. disc'.next <= Len(disc'.todo) + 1
    BY <2>1, <2>2, <2>3
  <2> QED
    BY <2>3, <2>4, <2>8, <2>9 DEF ProbeInv, AtDisc
<1>5. ASSUME NEW w \in Workers, Probed(w) PROVE ProbeInv'
  <2>1. PICK a \in Answers :
          /\ worker[w] # 0 /\ disc' = disc /\ worker' = [worker EXCEPT ![w] = 0]
          /\ answer' = Append(answer, [idx |-> worker[w], what |-> a])
    BY <1>5 DEF Probed
  <2>2. AtDisc("probe")
    BY <2>1 DEF ProbeInv
  <2>3. disc \in Discovering /\ disc.pc = "probe" /\ disc.next - 1 \in Nat
    BY <1>1, <2>2 DEF AtDisc, Discovering
  <2>4. Dealt(disc.next - 1, worker, answer) /\ disc.next <= Len(disc.todo) + 1
    BY <2>2 DEF ProbeInv
  <2>5. Dealt(disc.next - 1, [worker EXCEPT ![w] = 0],
              Append(answer, [idx |-> worker[w], what |-> a]))
    BY <2>1, <2>3, <2>4, DealtProbed
  <2> QED
    BY <2>1, <2>2, <2>3, <2>4, <2>5 DEF ProbeInv, AtDisc
<1>6. CASE PoolEnds
  <2>1. /\ disc # None /\ disc \in Discovering /\ disc.pc = "probe"
        /\ disc.next > Len(disc.todo) /\ UNCHANGED pool
        /\ \A w \in Workers : worker[w] = 0
        /\ disc' = [disc EXCEPT !.pc = "promote", !.next = 1]
    BY <1>1, <1>6 DEF PoolEnds, AtDisc
  <2>2. disc'.pc = "promote" /\ disc'.todo = disc.todo
    BY <2>1 DEF Discovering
  <2>3. Dealt(disc.next - 1, worker, answer) /\ disc.next <= Len(disc.todo) + 1
    BY <2>1 DEF ProbeInv, AtDisc
  <2>4. disc.next - 1 = Len(disc.todo)
    BY <2>1, <2>3 DEF Discovering
  <2>5. worker = [w \in Workers |-> 0]
    BY <1>1, <2>1
  <2>6. /\ worker' = [w \in Workers |-> 0]
        /\ Dealt(Len(disc'.todo), worker', answer')
    BY <2>1, <2>2, <2>3, <2>4, <2>5 DEF pool
  <2>7. disc' # None
    <3>1. 1 \in Nat \ {0}
      OBVIOUS
    <3>2. disc' \in Discovering
      BY <2>1, <3>1 DEF Discovering
    <3> QED
      BY <3>2, DiscoveringAssumption
  <2> QED
    BY <2>2, <2>6, <2>7 DEF ProbeInv, AtDisc
<1>7. CASE Promote \/ PromoteFails \/ Skip
  <2>1. /\ disc # None /\ disc \in Discovering /\ disc.pc = "promote" /\ UNCHANGED pool
    BY <1>1, <1>7 DEF Promote, PromoteFails, Skip, Promotable, Explores, Answered, AtDisc
  <2>2. disc'.pc = "promote" /\ disc'.todo = disc.todo
    BY <1>7, <2>1 DEF Promote, PromoteFails, Skip, Discovering
  <2>3. worker = [w \in Workers |-> 0] /\ Dealt(Len(disc.todo), worker, answer)
    BY <2>1 DEF ProbeInv, AtDisc
  <2>4. worker' = worker /\ Dealt(Len(disc'.todo), worker', answer')
    BY <2>1, <2>2, <2>3 DEF pool
  <2>5. disc' # None
    BY <1>7, PassKeeps, DiscoveringAssumption
  <2> QED
    BY <2>2, <2>3, <2>4, <2>5 DEF ProbeInv, AtDisc
<1>8. CASE Fails \/ ExplorationBreaks \/ Done \/ Killed
  <2>1. disc' = None /\ worker' = [w \in Workers |-> 0] /\ answer' = <<>>
    BY <1>8 DEF Fails, ExplorationBreaks, Done, Killed, EndDisc
  <2>2. /\ ~AtDisc("probe")' /\ ~AtDisc("promote")'
        /\ ~AtDisc("load")' /\ ~AtDisc("read")'
    BY <2>1 DEF AtDisc
  <2> QED
    BY <2>1, <2>2 DEF ProbeInv
<1>9. ASSUME NEW apply \in BOOLEAN, RunDiscovery(apply) PROVE ProbeInv'
  <2>1. disc = None /\ disc'.pc = "load" /\ disc'.next = 1 /\ UNCHANGED pool
    BY <1>9 DEF RunDiscovery
  <2>2. /\ ~AtDisc("probe") /\ ~AtDisc("promote")
        /\ ~AtDisc("probe")' /\ ~AtDisc("promote")'
    BY <2>1 DEF AtDisc
  <2>3. worker' = [w \in Workers |-> 0] /\ answer' = <<>>
    BY <2>1, <2>2 DEF ProbeInv, pool
  <2> QED
    BY <2>1, <2>2, <2>3 DEF ProbeInv
<1>10. CASE UNCHANGED vars
  BY <1>10 DEF vars, pool, ProbeInv, AtDisc
<1> QED
  BY <1>2, <1>3, <1>4, <1>5, <1>6, <1>7, <1>8, <1>9, <1>10 DEF Next, DiscoveryStep

(* In every reachable state each index that was handed over is with one worker
   or has one answer. *)
THEOREM ProbeInvariant == Spec => []ProbeInv
<1>1. Init => ProbeInv
  BY DEF Init, ProbeInv, AtDisc
<1> QED
  BY <1>1, ProbeStep, DiscoveryInvariant, PTL DEF Spec

(* No probe waits for room for its answer, and each candidate has one answer
   when they are promoted: service.go:192-227. *)
THEOREM CandidatesAreProbedOnce == Spec => []EachIsProbedOnce
<1>1. DiscInv /\ ProbeInv => EachIsProbedOnce
  <2> SUFFICES ASSUME DiscInv, ProbeInv PROVE EachIsProbedOnce
    OBVIOUS
  <2>1. disc = None \/ disc \in Discovering
    BY DEF DiscInv, TypeOK
  <2>2. ASSUME NEW w \in Workers, worker[w] # 0 PROVE Len(answer) < Len(disc.todo)
    <3>1. AtDisc("probe")
      BY <2>2 DEF ProbeInv
    <3>2. /\ Dealt(disc.next - 1, worker, answer) /\ disc.next <= Len(disc.todo) + 1
          /\ disc.next - 1 \in Nat /\ Len(disc.todo) \in Nat /\ Len(answer) \in Nat
      BY <2>1, <3>1 DEF ProbeInv, AtDisc, Discovering, Dealt
    <3>3. Len(answer) < disc.next - 1
      BY <2>2, <3>2, DealtRoom
    <3> QED
      BY <2>1, <3>1, <3>2, <3>3 DEF AtDisc, Discovering
  <2>3. ASSUME AtDisc("promote"), NEW i \in 1 .. Len(disc.todo)
        PROVE  Cardinality({k \in DOMAIN answer : answer[k].idx = i}) = 1
    <3>1. Dealt(Len(disc.todo), worker, answer) /\ worker = [w \in Workers |-> 0]
      BY <2>3 DEF ProbeInv, AtDisc
    <3>2. \A w \in Workers : worker[w] # i
      BY <3>1
    <3>3. PICK k \in DOMAIN answer : answer[k].idx = i
      BY <3>1, <3>2 DEF Dealt
    <3>4. {j \in DOMAIN answer : answer[j].idx = i} = {k}
      BY <3>1, <3>3 DEF Dealt
    <3> QED
      BY <3>4, FS_Singleton
  <2> QED
    BY <2>2, <2>3 DEF EachIsProbedOnce
<1> QED
  BY <1>1, ProbeInvariant, DiscoveryInvariant, PTL
=============================================================================
