-------------------------- MODULE GenerationsLemmas -------------------------
(***************************************************************************)
(* What the operators of Generations do to the registry and the directory, *)
(* for any number of generations, inodes, handles and legacy records: each *)
(* lemma says what one function of compact.c or path.c preserves.          *)
(***************************************************************************)
EXTENDS Generations, SequenceTheorems, WellFoundedInduction, TLAPS

Registries ==
    {r \in [gen : [Gens -> Records], leg : Seq(LegacyRecords)] : Len(r.leg) <= MaxLegacy}

\* Two legacy records have the same inode only if the older one is of an
\* unlinked file that nobody has open any more.
Bucket(r) ==
    /\ \A g \in Gens : ~r.gen[g].present => r.gen[g] = NoRecord
    /\ \A n \in DOMAIN r.leg : r.leg[n].rec.present
    /\ \A m, n \in DOMAIN r.leg :
           m < n /\ r.leg[m].ino = r.leg[n].ino =>
               r.leg[n].rec.unlinked /\ r.leg[n].rec.handles = {}

Sound(r) == r \in Registries /\ Bucket(r)

\* A record of inode i has not seen an unlink; no record of inode i has a handle.
Linked(r, i) == \E n \in DOMAIN r.leg : r.leg[n].ino = i /\ ~r.leg[n].rec.unlinked
Unheld(r, i) == \A n \in DOMAIN r.leg : r.leg[n].ino = i => r.leg[n].rec.handles = {}

\* Handle h is on a record that refuses writes.
Refused(r, h) ==
    \/ \E g \in Gens : Holds(r.gen[g], h) /\ r.gen[g].superseded
    \/ \E n \in DOMAIN r.leg : Holds(r.leg[n].rec, h) /\ r.leg[n].rec.superseded

\* Record b is record a after a step that moves no handle.
Evolves(a, b) ==
    /\ b.handles = a.handles
    /\ a.superseded => b.superseded
    /\ a.unlinked => b.unlinked
    /\ b.present \/ b = a

\* Registry q has the handles of registry r where they were.
Retains(r, q) ==
    /\ \A g \in Gens : q.gen[g].handles = r.gen[g].handles
                       /\ (r.gen[g].handles # {} /\ r.gen[g].superseded => q.gen[g].superseded)
    /\ \A n \in DOMAIN r.leg : r.leg[n].rec.handles # {} =>
           \E m \in DOMAIN q.leg :
               /\ q.leg[m].ino = r.leg[n].ino /\ q.leg[m].rec.handles = r.leg[n].rec.handles
               /\ r.leg[n].rec.superseded => q.leg[m].rec.superseded
    /\ \A m \in DOMAIN q.leg : q.leg[m].rec.handles # {} =>
           \E n \in DOMAIN r.leg :
               q.leg[m].ino = r.leg[n].ino /\ q.leg[m].rec.handles = r.leg[n].rec.handles

\* A legacy record is added at the head of the bucket.
Inserted(r, i, rec) == [r EXCEPT !.leg = <<[ino |-> i, rec |-> rec]>> \o @]

\* Record a refuses writes and has lost the handles H.
Refusing(a, H) == [a EXCEPT !.superseded = TRUE, !.handles = @ \ H]

\* Registry q is r with record old of storage st, at position p of the bucket if
\* it is a legacy one, replaced by new.
Superseding(r, q, st, H, old, new, p) ==
    /\ q \in Registries
    /\ old \in Records /\ new \in Records /\ new.present
    /\ new.superseded /\ new.handles = old.handles \ H
    /\ new.unlinked = old.unlinked /\ new.gc = old.gc /\ new.alias = old.alias
    /\ ~st.legacy =>
         /\ q.leg = r.leg /\ old = r.gen[st.ino]
         /\ \A x \in Gens : q.gen[x] = IF x = st.ino THEN new ELSE r.gen[x]
    /\ st.legacy =>
         /\ q.gen = r.gen /\ p \in DOMAIN r.leg /\ r.leg[p].ino = st.ino
         /\ old = r.leg[p].rec /\ DOMAIN q.leg = DOMAIN r.leg
         /\ \A n \in DOMAIN r.leg :
              /\ q.leg[n].ino = r.leg[n].ino
              /\ q.leg[n].rec = IF n = p THEN new ELSE r.leg[n].rec

\* The writers H move from the record of storage st to that of generation g.
HandedOver(r, st, g, H) ==
    [Supersede(r, st, H) EXCEPT !.gen[g].present = TRUE, !.gen[g].handles = @ \cup H]

\* Registry q is r after the handoff of H: the record of st refuses writes and has
\* lost H, the new record of g has H.
HandsOver(r, q, st, g, H) ==
    /\ Sound(q)
    /\ q.gen[g].present /\ q.gen[g].handles = H /\ q.gen[g].gc = "none"
    /\ ~q.gen[g].alias /\ ~q.gen[g].unlinked
    /\ \A x \in Gens \ {g} :
        /\ q.gen[x].present = r.gen[x].present /\ q.gen[x].gc = r.gen[x].gc
        /\ q.gen[x].alias = r.gen[x].alias /\ q.gen[x].unlinked = r.gen[x].unlinked
        /\ r.gen[x].superseded => q.gen[x].superseded
        /\ q.gen[x].handles = IF ~st.legacy /\ x = st.ino THEN r.gen[x].handles \ H
                              ELSE r.gen[x].handles
        /\ ~st.legacy /\ x = st.ino /\ Found(r, st, FALSE) => q.gen[x].superseded
    /\ DOMAIN q.leg = DOMAIN r.leg
    /\ \A n \in DOMAIN r.leg :
        /\ q.leg[n].ino = r.leg[n].ino /\ q.leg[n].rec.unlinked = r.leg[n].rec.unlinked
        /\ r.leg[n].rec.superseded => q.leg[n].rec.superseded
        /\ LET here == st.legacy /\ n = First(LegacyAt(r, st.ino, FALSE)) IN
            /\ q.leg[n].rec.handles = IF here THEN r.leg[n].rec.handles \ H
                                      ELSE r.leg[n].rec.handles
            /\ here /\ Found(r, st, FALSE) => q.leg[n].rec.superseded

\* What Linked says of an inode with handles in registry r it says in q.
KeepsLinks(r, q) == \A i : Linked(r, i) /\ ~Unheld(r, i) => Linked(q, i)

\* Handle h in state s is on the record of its storage, and has a record that
\* saw no unlink if its inode is one of N.
Attached(r, s, h, N) ==
    /\ \A g \in Gens : h \in r.gen[g].handles <=> s.open /\ ~s.legacy /\ s.data = g
    /\ \A n \in DOMAIN r.leg : h \in r.leg[n].rec.handles =>
           s.open /\ s.legacy /\ s.data = r.leg[n].ino
    /\ s.open /\ s.legacy =>
           /\ \E n \in DOMAIN r.leg : h \in r.leg[n].rec.handles
           /\ s.data \in N => Linked(r, s.data)

\* Two states of a handle differ at most in what is not about its storage.
SameStorage(s, t) == t.open = s.open /\ t.legacy = s.legacy /\ t.data = s.data

\* Registry q is r with handle h on the record of storage st.
Registers(r, q, st, h) ==
    /\ Sound(q)
    /\ \A t, M : t.open /\ t.legacy = st.legacy /\ t.data = st.ino => Attached(q, t, h, M)
    /\ \A x \in Handles \ {h} :
         /\ \A u, v, L, M : Attached(r, u, x, L) /\ SameStorage(u, v)
                            /\ (v.data \in M => v.data \in L) => Attached(q, v, x, M)
         /\ Refused(r, x) => Refused(q, x)
    /\ \A g \in Gens : /\ q.gen[g].gc = r.gen[g].gc /\ q.gen[g].alias = r.gen[g].alias
                       /\ q.gen[g].unlinked = r.gen[g].unlinked
                       /\ q.gen[g] = r.gen[g] \/ (~st.legacy /\ g = st.ino)

\* Registry q is r without handle h.
Unregisters(r, q, h) ==
    /\ Sound(q)
    /\ \A t, M : ~t.open => Attached(q, t, h, M)
    /\ \A x \in Handles \ {h} :
         /\ \A u, v, L, M : Attached(r, u, x, L) /\ SameStorage(u, v)
                            /\ (v.data \in M => v.data \in L) => Attached(q, v, x, M)
         /\ Refused(r, x) => Refused(q, x)
    /\ \A g \in Gens :
         /\ q.gen[g].handles = r.gen[g].handles \ {h}
         /\ q.gen[g].present = r.gen[g].present /\ q.gen[g].gc = r.gen[g].gc
         /\ q.gen[g].alias = r.gen[g].alias /\ q.gen[g].unlinked = r.gen[g].unlinked

\* Record b is record a, marked for collection.
Marks(a, b, installAliases) ==
    /\ b.present /\ b.handles = a.handles /\ b.superseded = a.superseded
    /\ b.unlinked = a.unlinked
    /\ b.gc = IF a.gc = "none" THEN "pending" ELSE a.gc
    /\ b.alias = IF a.unlinked THEN a.alias ELSE a.alias \/ installAliases

\* Record b is record a, claimed for collection if it was pending.
Claims(a, b) ==
    /\ b.present = a.present /\ b.handles = a.handles /\ b.superseded = a.superseded
    /\ b.unlinked = a.unlinked /\ b.alias = a.alias
    /\ b.gc = IF a.gc = "pending" THEN "claimed" ELSE a.gc

-----------------------------------------------------------------------------
(* Sequences and records.                                                  *)

\* A set of numbers has a least element.
LEMMA LeastOf ==
    ASSUME NEW S \in SUBSET Nat, S # {}
    PROVE  First(S) \in S /\ \A m \in S : First(S) <= m
<1> DEFINE R == OpToRel(<, Nat)
<1>1. IsWellFoundedOn(R, Nat)
  BY NatLessThanWellFounded
<1>2. \A m, n \in Nat : n < m => <<n, m>> \in R
  BY DEF OpToRel
<1> HIDE DEF R
<1>3. PICK n \in S : \A m \in S : ~(<<m, n>> \in R)
  BY <1>1, WFMin
<1>4. ASSUME NEW m \in S PROVE n <= m
  <2>1. m < n => <<m, n>> \in R
    BY <1>2
  <2>2. QED
    BY <1>3, <2>1
<1>5. QED
  BY <1>4 DEF First

\* The parts of a registry.
LEMMA RegistryType ==
    ASSUME NEW r \in Registries
    PROVE  /\ r.gen \in [Gens -> Records] /\ r.leg \in Seq(LegacyRecords)
           /\ Len(r.leg) \in Nat /\ Len(r.leg) <= MaxLegacy
           /\ DOMAIN r.leg = 1 .. Len(r.leg)
           /\ \A n \in DOMAIN r.leg :
                /\ r.leg[n] \in LegacyRecords /\ r.leg[n].ino \in Names
                /\ r.leg[n].rec \in Records
<1>1. r.gen \in [Gens -> Records] /\ r.leg \in Seq(LegacyRecords) /\ Len(r.leg) <= MaxLegacy
  BY DEF Registries
<1>2. Len(r.leg) \in Nat /\ DOMAIN r.leg = 1 .. Len(r.leg)
  BY <1>1, LenProperties
<1>3. \A n \in DOMAIN r.leg : r.leg[n] \in LegacyRecords
  BY <1>1, <1>2, ElementOfSeq
<1>4. QED
  BY <1>1, <1>2, <1>3 DEF LegacyRecords

\* A registry from its parts.
LEMMA RegistryOf ==
    ASSUME NEW G \in [Gens -> Records], NEW L \in Seq(LegacyRecords), Len(L) <= MaxLegacy
    PROVE  [gen |-> G, leg |-> L] \in Registries
  BY DEF Registries

\* A bucket with every record replaced.
LEMMA BucketOf ==
    ASSUME NEW r \in Registries, NEW L, DOMAIN L = DOMAIN r.leg, L = [n \in DOMAIN r.leg |-> L[n]],
           \A n \in DOMAIN r.leg : L[n] \in LegacyRecords
    PROVE  L \in Seq(LegacyRecords) /\ Len(L) = Len(r.leg)
<1>1. Len(r.leg) \in Nat /\ DOMAIN r.leg = 1 .. Len(r.leg)
  BY RegistryType
<1>2. L \in [1 .. Len(r.leg) -> LegacyRecords]
  BY <1>1
<1>3. L \in Seq(LegacyRecords)
  BY <1>1, <1>2, SeqDef
<1>4. QED
  BY <1>1, <1>2, <1>3, LenProperties

\* The empty record is a record nobody is on.
LEMMA NoRecordType == NoRecord \in Records /\ NoRecord.handles = {} /\ ~NoRecord.present
                      /\ ~NoRecord.superseded /\ NoRecord.gc = "none" /\ ~NoRecord.alias
                      /\ ~NoRecord.unlinked
  BY DEF NoRecord, Records

\* A registry whose records evolved, and no handle moved.
LEMMA EvolvedSound ==
    ASSUME NEW r, Sound(r), NEW q \in Registries, DOMAIN q.leg = DOMAIN r.leg,
           \A g \in Gens : Evolves(r.gen[g], q.gen[g]),
           \A n \in DOMAIN r.leg :
              q.leg[n].ino = r.leg[n].ino /\ Evolves(r.leg[n].rec, q.leg[n].rec)
    PROVE  /\ Sound(q) /\ Retains(r, q)
           /\ (\A n \in DOMAIN r.leg : q.leg[n].rec.unlinked = r.leg[n].rec.unlinked)
              => KeepsLinks(r, q)
<1>1. Bucket(q)
  BY DEF Sound, Bucket, Evolves
<1>2. Retains(r, q)
  BY DEF Retains, Evolves
<1>3. (\A n \in DOMAIN r.leg : q.leg[n].rec.unlinked = r.leg[n].rec.unlinked) => KeepsLinks(r, q)
  BY DEF KeepsLinks, Linked
<1>4. QED
  BY <1>1, <1>2, <1>3 DEF Sound

-----------------------------------------------------------------------------
(* Records in the registry.                                                *)

\* The record of a generation is replaced.
LEMMA GenReplaced ==
    ASSUME NEW r \in Registries, NEW g \in Gens, NEW rec \in Records
    PROVE  LET q == [r EXCEPT !.gen[g] = rec]
           IN  /\ q \in Registries /\ q.leg = r.leg
               /\ \A x \in Gens : q.gen[x] = IF x = g THEN rec ELSE r.gen[x]
<1> DEFINE G == [r.gen EXCEPT ![g] = rec]
           q == [r EXCEPT !.gen[g] = rec]
<1>1. r.gen \in [Gens -> Records]
  BY RegistryType
<1>2. G \in [Gens -> Records] /\ \A x \in Gens : G[x] = IF x = g THEN rec ELSE r.gen[x]
  BY <1>1
<1>3. q.gen = G /\ q.leg = r.leg /\ q = [gen |-> G, leg |-> r.leg]
  BY DEF Registries
<1> HIDE DEF G, q
<1>4. q \in Registries
  BY <1>2, <1>3, RegistryType, RegistryOf
<1>5. QED
  BY <1>2, <1>3, <1>4 DEF q

\* Another bucket.
LEMMA LegChanged ==
    ASSUME NEW r \in Registries, NEW L
    PROVE  LET q == [r EXCEPT !.leg = L]
           IN  q.gen = r.gen /\ q.leg = L /\ q = [gen |-> r.gen, leg |-> L]
  BY DEF Registries

\* A legacy record is replaced.
LEMMA LegReplaced ==
    ASSUME NEW r \in Registries, NEW p \in DOMAIN r.leg, NEW rec \in Records
    PROVE  LET q == [r EXCEPT !.leg[p].rec = rec]
           IN  /\ q \in Registries /\ q.gen = r.gen /\ DOMAIN q.leg = DOMAIN r.leg
               /\ \A n \in DOMAIN r.leg :
                    /\ q.leg[n].ino = r.leg[n].ino
                    /\ q.leg[n].rec = IF n = p THEN rec ELSE r.leg[n].rec
<1> DEFINE e == [r.leg[p] EXCEPT !.rec = rec]
           L == [r.leg EXCEPT ![p] = e]
           q == [r EXCEPT !.leg[p].rec = rec]
<1>1. /\ r.leg \in Seq(LegacyRecords) /\ r.gen \in [Gens -> Records]
      /\ r.leg[p] \in LegacyRecords /\ DOMAIN r.leg = 1 .. Len(r.leg)
      /\ Len(r.leg) <= MaxLegacy
  BY RegistryType
<1>2. e \in LegacyRecords /\ e.ino = r.leg[p].ino /\ e.rec = rec
  BY <1>1 DEF LegacyRecords
<1>3. q = [r EXCEPT !.leg = L]
  OBVIOUS
<1>4. q.gen = r.gen /\ q.leg = L /\ q = [gen |-> r.gen, leg |-> L]
  BY <1>3, LegChanged
<1> HIDE DEF e, q
<1>5. /\ L \in Seq(LegacyRecords) /\ Len(L) = Len(r.leg)
      /\ \A n \in 1 .. Len(r.leg) : L[n] = IF n = p THEN e ELSE r.leg[n]
  BY <1>1, <1>2, ExceptSeq
<1>6. q \in Registries
  BY <1>1, <1>4, <1>5, RegistryOf
<1>7. DOMAIN L = DOMAIN r.leg
  OBVIOUS
<1> HIDE DEF L
<1>8. QED
  BY <1>1, <1>2, <1>4, <1>5, <1>6, <1>7 DEF q

\* A legacy record is added at the head of the bucket.
LEMMA LegInserted ==
    ASSUME NEW r \in Registries, Len(r.leg) < MaxLegacy, NEW i \in Names, NEW rec \in Records
    PROVE  LET q == Inserted(r, i, rec)
           IN  /\ q \in Registries /\ q.gen = r.gen
               /\ DOMAIN q.leg = 1 .. (Len(r.leg) + 1)
               /\ q.leg[1].ino = i /\ q.leg[1].rec = rec
               /\ \A n \in DOMAIN r.leg : n + 1 \in DOMAIN q.leg /\ q.leg[n + 1] = r.leg[n]
<1> DEFINE e == [ino |-> i, rec |-> rec]
           L == <<e>> \o r.leg
           q == Inserted(r, i, rec)
<1>1. /\ r.leg \in Seq(LegacyRecords) /\ r.gen \in [Gens -> Records]
      /\ DOMAIN r.leg = 1 .. Len(r.leg) /\ Len(r.leg) \in Nat
  BY RegistryType
<1>2. e \in LegacyRecords /\ e.ino = i /\ e.rec = rec
  BY DEF LegacyRecords
<1>3. q.gen = r.gen /\ q.leg = L /\ q = [gen |-> r.gen, leg |-> L]
  BY LegChanged DEF Inserted
<1> HIDE DEF e, q
<1>4. <<e>> \in Seq(LegacyRecords) /\ Len(<<e>>) = 1 /\ <<e>>[1] = e
  BY <1>2
<1>5. /\ L \in Seq(LegacyRecords) /\ Len(L) = 1 + Len(r.leg)
      /\ \A n \in 1 .. (1 + Len(r.leg)) : L[n] = IF n <= 1 THEN <<e>>[n] ELSE r.leg[n - 1]
  BY <1>1, <1>4, ConcatProperties
<1> HIDE DEF L
<1>6. DOMAIN L = 1 .. (Len(r.leg) + 1)
  BY <1>1, <1>5, LenProperties
<1>7. L[1] = e
  BY <1>1, <1>4, <1>5
<1>8. \A n \in DOMAIN r.leg : n + 1 \in DOMAIN L /\ L[n + 1] = r.leg[n]
  BY <1>1, <1>5, <1>6
<1>9. Len(L) <= MaxLegacy
  BY <1>1, <1>5, ConstantsAssumption
<1>10. q \in Registries
  BY <1>1, <1>3, <1>5, <1>9, RegistryOf
<1>11. QED
  BY <1>2, <1>3, <1>6, <1>7, <1>8, <1>10 DEF q

\* A legacy record is removed.
LEMMA LegRemoved ==
    ASSUME NEW r \in Registries, NEW p \in DOMAIN r.leg
    PROVE  LET L == RemoveAt(r.leg, p)
               q == [gen |-> r.gen, leg |-> L]
           IN  /\ q \in Registries /\ Len(L) = Len(r.leg) - 1
               /\ DOMAIN L = 1 .. (Len(r.leg) - 1)
               /\ \A n \in DOMAIN L : L[n] = IF n < p THEN r.leg[n] ELSE r.leg[n + 1]
<1> DEFINE a == SubSeq(r.leg, 1, p - 1)
           b == SubSeq(r.leg, p + 1, Len(r.leg))
           L == RemoveAt(r.leg, p)
<1>1. /\ r.leg \in Seq(LegacyRecords) /\ r.gen \in [Gens -> Records]
      /\ DOMAIN r.leg = 1 .. Len(r.leg) /\ Len(r.leg) \in Nat /\ Len(r.leg) <= MaxLegacy
      /\ p \in 1 .. Len(r.leg)
      /\ \A n \in 1 .. Len(r.leg) : r.leg[n] \in LegacyRecords
  BY RegistryType
<1>2. /\ a \in Seq(LegacyRecords) /\ Len(a) = p - 1
      /\ \A n \in 1 .. (p - 1) : a[n] = r.leg[n]
  <2>1. \A n \in 1 .. (p - 1) : r.leg[n] \in LegacyRecords
    BY <1>1
  <2>2. /\ a \in Seq(LegacyRecords) /\ Len(a) = IF 1 <= p - 1 THEN p - 1 - 1 + 1 ELSE 0
        /\ \A n \in 1 .. (p - 1 - 1 + 1) : a[n] = r.leg[1 + n - 1]
    BY <1>1, <2>1, SubSeqProperties
  <2>3. QED
    BY <1>1, <2>2
<1>3. /\ b \in Seq(LegacyRecords) /\ Len(b) = Len(r.leg) - p
      /\ \A n \in 1 .. (Len(r.leg) - p) : b[n] = r.leg[p + n]
  <2>1. \A n \in (p + 1) .. Len(r.leg) : r.leg[n] \in LegacyRecords
    BY <1>1
  <2>2. /\ b \in Seq(LegacyRecords)
        /\ Len(b) = IF p + 1 <= Len(r.leg) THEN Len(r.leg) - (p + 1) + 1 ELSE 0
        /\ \A n \in 1 .. (Len(r.leg) - (p + 1) + 1) : b[n] = r.leg[p + 1 + n - 1]
    BY <1>1, <2>1, SubSeqProperties, SMTT(30)
  <2>3. QED
    BY <1>1, <2>2
<1>4. L = a \o b
  BY DEF RemoveAt
<1> HIDE DEF a, b, L
<1>5. /\ L \in Seq(LegacyRecords) /\ Len(L) = Len(a) + Len(b)
      /\ \A n \in 1 .. (Len(a) + Len(b)) : L[n] = IF n <= Len(a) THEN a[n] ELSE b[n - Len(a)]
  BY <1>2, <1>3, <1>4, ConcatProperties
<1>6. Len(L) = Len(r.leg) - 1 /\ DOMAIN L = 1 .. (Len(r.leg) - 1)
  <2>1. Len(L) = Len(r.leg) - 1
    BY <1>1, <1>2, <1>3, <1>5
  <2>2. QED
    BY <1>5, <2>1, LenProperties
<1>7. \A n \in DOMAIN L : L[n] = IF n < p THEN r.leg[n] ELSE r.leg[n + 1]
  <2> SUFFICES ASSUME NEW n \in 1 .. (Len(r.leg) - 1)
               PROVE  L[n] = IF n < p THEN r.leg[n] ELSE r.leg[n + 1]
    BY <1>6
  <2>1. CASE n < p
    BY <1>1, <1>2, <1>3, <1>5, <2>1
  <2>2. CASE ~(n < p)
    <3>1. n - (p - 1) \in 1 .. (Len(r.leg) - p) /\ p + (n - (p - 1)) = n + 1
      BY <1>1, <2>2
    <3>2. L[n] = b[n - (p - 1)]
      BY <1>1, <1>2, <1>3, <1>5, <2>2, SMTT(30)
    <3>3. QED
      BY <1>3, <2>2, <3>1, <3>2
  <2>3. QED
    BY <2>1, <2>2
<1>8. Len(L) <= MaxLegacy
  BY <1>1, <1>6, ConstantsAssumption
<1>9. QED
  BY <1>1, <1>5, <1>6, <1>7, <1>8, RegistryOf DEF L

\* A storage that names a generation or an inode of the pair.
Proper(st) == st \in Storages /\ (~st.legacy => st.ino \in Gens)

\* The record that a search in the bucket finds.
LEMMA FirstFound ==
    ASSUME NEW r \in Registries, NEW i, NEW skip \in BOOLEAN, LegacyAt(r, i, skip) # {}
    PROVE  LET p == First(LegacyAt(r, i, skip))
           IN  /\ p \in DOMAIN r.leg /\ r.leg[p].ino = i /\ ~(skip /\ r.leg[p].rec.unlinked)
               /\ \A m \in LegacyAt(r, i, skip) : p <= m
<1> DEFINE S == LegacyAt(r, i, skip)
<1>1. S \in SUBSET Nat
  BY RegistryType DEF LegacyAt
<1>2. First(S) \in S /\ \A m \in S : First(S) <= m
  <2> HIDE DEF S
  <2>1. QED
    BY <1>1, LeastOf DEF S
<1>3. QED
  BY <1>2 DEF LegacyAt

\* What a search or an allocation returns.
LEMMA GetType ==
    ASSUME NEW r, Sound(r), NEW st, Proper(st), NEW skip \in BOOLEAN
    PROVE  LET a == RecordOf(r, st, skip)
               b == Get(r, st, skip)
           IN  /\ a \in Records /\ b \in Records /\ b.present
               /\ b.handles = a.handles /\ b.superseded = a.superseded /\ b.gc = a.gc
               /\ b.alias = a.alias /\ b.unlinked = a.unlinked
               /\ ~st.legacy => a = r.gen[st.ino]
               /\ Found(r, st, skip) => b = a
<1> DEFINE a == RecordOf(r, st, skip)
           b == Get(r, st, skip)
           S == LegacyAt(r, st.ino, skip)
<1>1. r \in Registries
  BY DEF Sound
<1>2. CASE ~st.legacy
  <2>1. r.gen[st.ino] \in Records
    BY <1>1, <1>2, RegistryType DEF Proper
  <2>2. a = r.gen[st.ino]
    BY <1>2, <2>1 DEF RecordOf, Found, Sound, Bucket, Proper
  <2>3. Found(r, st, skip) => a.present
    BY <1>2, <2>2 DEF Found
  <2>4. QED
    BY <1>2, <2>1, <2>2, <2>3 DEF Get, Records
<1>3. CASE st.legacy /\ S # {}
  <2>1. First(S) \in DOMAIN r.leg
    BY <1>1, <1>3, FirstFound
  <2>2. a = r.leg[First(S)].rec
    BY <1>3 DEF RecordOf, Found
  <2>3. a \in Records /\ a.present
    BY <1>1, <2>1, <2>2, RegistryType DEF Sound, Bucket
  <2>4. QED
    BY <1>3, <2>3 DEF Get, Records
<1>4. CASE st.legacy /\ S = {}
  <2>1. a = NoRecord /\ ~Found(r, st, skip)
    BY <1>4 DEF RecordOf, Found
  <2>2. QED
    BY <1>4, <2>1, NoRecordType DEF Get, Records
<1>5. QED
  BY <1>2, <1>3, <1>4

\* The record of a storage is replaced by one that evolved from it.
LEMMA ReplacedSound ==
    ASSUME NEW r, Sound(r), NEW st, Proper(st), NEW skip \in BOOLEAN, NEW rec \in Records,
           Evolves(Get(r, st, skip), rec), CanGet(r, st, skip),
           st.legacy /\ ~Found(r, st, skip) => skip /\ Unheld(r, st.ino)
    PROVE  LET q == WithRecord(r, st, skip, rec)
           IN  /\ Sound(q) /\ Retains(r, q)
               /\ rec.unlinked = Get(r, st, skip).unlinked => KeepsLinks(r, q)
               /\ st.legacy /\ skip /\ ~rec.unlinked => Linked(q, st.ino)
               /\ st.legacy => q.gen = r.gen
               /\ ~st.legacy => /\ q.leg = r.leg
                                /\ \A x \in Gens : q.gen[x] = IF x = st.ino THEN rec ELSE r.gen[x]
<1> DEFINE q == WithRecord(r, st, skip, rec)
           S == LegacyAt(r, st.ino, skip)
           p == First(S)
           old == RecordOf(r, st, skip)
<1>1. r \in Registries
  BY DEF Sound
<1>2. /\ old \in Records /\ rec.present /\ rec.handles = old.handles
      /\ (old.superseded => rec.superseded) /\ (old.unlinked => rec.unlinked)
      /\ ~st.legacy => old = r.gen[st.ino]
      /\ Get(r, st, skip).unlinked = old.unlinked
  BY GetType DEF Evolves
<1>3. Evolves(old, rec)
  BY <1>2 DEF Evolves
<1>4. CASE ~st.legacy
  <2>1. q = [r EXCEPT !.gen[st.ino] = rec]
    BY <1>4 DEF WithRecord
  <2>2. /\ q \in Registries /\ q.leg = r.leg
        /\ \A x \in Gens : q.gen[x] = IF x = st.ino THEN rec ELSE r.gen[x]
    BY <1>1, <1>4, <2>1, GenReplaced DEF Proper
  <2> HIDE DEF q, old
  <2>3. \A x \in Gens : Evolves(r.gen[x], q.gen[x])
    BY <1>2, <1>3, <1>4, <2>2 DEF Evolves, Sound, Bucket
  <2>4. \A n \in DOMAIN r.leg :
            q.leg[n].ino = r.leg[n].ino /\ Evolves(r.leg[n].rec, q.leg[n].rec)
    BY <2>2 DEF Evolves
  <2>5. QED
    BY <1>4, <2>2, <2>3, <2>4, EvolvedSound DEF q
<1>5. CASE st.legacy /\ S # {}
  <2>1. /\ p \in DOMAIN r.leg /\ r.leg[p].ino = st.ino
        /\ ~(skip /\ r.leg[p].rec.unlinked)
    BY <1>1, <1>5, FirstFound
  <2>2. old = r.leg[p].rec /\ q = [r EXCEPT !.leg[p].rec = rec]
    BY <1>5 DEF WithRecord, RecordOf, Found
  <2>3. /\ q \in Registries /\ q.gen = r.gen /\ DOMAIN q.leg = DOMAIN r.leg
        /\ \A n \in DOMAIN r.leg :
              /\ q.leg[n].ino = r.leg[n].ino
              /\ q.leg[n].rec = IF n = p THEN rec ELSE r.leg[n].rec
    BY <1>1, <2>1, <2>2, LegReplaced
  <2> HIDE DEF q, old, p
  <2>4. \A x \in Gens : Evolves(r.gen[x], q.gen[x])
    BY <2>3 DEF Evolves
  <2>5. \A n \in DOMAIN r.leg :
            q.leg[n].ino = r.leg[n].ino /\ Evolves(r.leg[n].rec, q.leg[n].rec)
    BY <1>3, <2>2, <2>3 DEF Evolves
  <2>6. /\ Sound(q) /\ Retains(r, q)
        /\ (\A n \in DOMAIN r.leg : q.leg[n].rec.unlinked = r.leg[n].rec.unlinked)
              => KeepsLinks(r, q)
    BY <2>3, <2>4, <2>5, EvolvedSound
  <2>7. rec.unlinked = Get(r, st, skip).unlinked => KeepsLinks(r, q)
    BY <1>2, <2>2, <2>3, <2>6
  <2>8. ~rec.unlinked => Linked(q, st.ino)
    BY <2>1, <2>3 DEF Linked
  <2>9. QED
    BY <1>5, <2>3, <2>6, <2>7, <2>8 DEF q
<1>6. CASE st.legacy /\ S = {}
  <2>1. /\ ~Found(r, st, skip) /\ skip /\ Unheld(r, st.ino) /\ Len(r.leg) < MaxLegacy
        /\ old = NoRecord
        /\ q = Inserted(r, st.ino, rec)
    BY <1>6 DEF Found, CanGet, WithRecord, RecordOf, Inserted
  <2>2. st.ino \in Names
    BY DEF Proper, Storages
  <2> HIDE DEF q, old
  <2>3. /\ q \in Registries /\ q.gen = r.gen
        /\ DOMAIN q.leg = 1 .. (Len(r.leg) + 1)
        /\ q.leg[1].ino = st.ino /\ q.leg[1].rec = rec
        /\ \A n \in DOMAIN r.leg : n + 1 \in DOMAIN q.leg /\ q.leg[n + 1] = r.leg[n]
    BY <1>1, <2>1, <2>2, LegInserted
  <2>4. rec.handles = {} /\ rec.present
    BY <1>2, <2>1, NoRecordType
  <2>5. DOMAIN r.leg = 1 .. Len(r.leg) /\ Len(r.leg) \in Nat
    BY <1>1, RegistryType
  <2>6. \A n \in DOMAIN q.leg : n = 1 \/ (n - 1 \in DOMAIN r.leg /\ q.leg[n] = r.leg[n - 1])
    <3> SUFFICES ASSUME NEW n \in DOMAIN q.leg, n # 1
                 PROVE  n - 1 \in DOMAIN r.leg /\ q.leg[n] = r.leg[n - 1]
      OBVIOUS
    <3>1. n - 1 \in DOMAIN r.leg /\ (n - 1) + 1 = n
      BY <2>3, <2>5
    <3>2. QED
      BY <2>3, <3>1
  <2>7. \A n \in DOMAIN r.leg : r.leg[n].ino = st.ino => r.leg[n].rec.unlinked
    BY <1>6, <2>1 DEF LegacyAt
  <2>8. Bucket(q)
    <3>1. \A g \in Gens : ~q.gen[g].present => q.gen[g] = NoRecord
      BY <2>3 DEF Sound, Bucket
    <3>2. \A n \in DOMAIN q.leg : q.leg[n].rec.present
      BY <2>3, <2>4, <2>6 DEF Sound, Bucket
    <3>3. ASSUME NEW m \in DOMAIN q.leg, NEW n \in DOMAIN q.leg, m < n,
                 q.leg[m].ino = q.leg[n].ino
          PROVE  q.leg[n].rec.unlinked /\ q.leg[n].rec.handles = {}
      <4>1. n # 1 /\ n - 1 \in DOMAIN r.leg /\ q.leg[n] = r.leg[n - 1]
        BY <2>3, <2>5, <2>6, <3>3
      <4>2. CASE m = 1
        BY <2>1, <2>3, <2>7, <3>3, <4>1, <4>2 DEF Unheld
      <4>3. CASE m # 1
        <5>1. m - 1 \in DOMAIN r.leg /\ q.leg[m] = r.leg[m - 1] /\ m - 1 < n - 1
          BY <2>3, <2>5, <2>6, <3>3, <4>3
        <5>2. QED
          BY <3>3, <4>1, <5>1 DEF Sound, Bucket
      <4>4. QED
        BY <4>2, <4>3
    <3>4. QED
      BY <3>1, <3>2, <3>3 DEF Bucket
  <2>9. Retains(r, q)
    <3>1. \A n \in DOMAIN r.leg :
            \E m \in DOMAIN q.leg : q.leg[m] = r.leg[n]
      BY <2>3
    <3>2. \A m \in DOMAIN q.leg : q.leg[m].rec.handles # {} =>
            \E n \in DOMAIN r.leg : q.leg[m] = r.leg[n]
      BY <2>3, <2>4, <2>6
    <3>3. QED
      BY <2>3, <3>1, <3>2 DEF Retains
  <2>10. KeepsLinks(r, q)
    BY <2>3 DEF KeepsLinks, Linked
  <2>11. ~rec.unlinked => Linked(q, st.ino)
    <3>1. 1 \in DOMAIN q.leg
      BY <2>3, <2>5
    <3>2. QED
      BY <2>3, <3>1 DEF Linked
  <2>12. QED
    BY <1>6, <2>3, <2>8, <2>9, <2>10, <2>11 DEF q, Sound
<1>7. QED
  BY <1>4, <1>5, <1>6

-----------------------------------------------------------------------------
(* What the operations of the registry retain.                             *)

\* Retaining is transitive.
LEMMA RetainsTwice ==
    ASSUME NEW r, NEW q, NEW z, Retains(r, q), Retains(q, z)
    PROVE  Retains(r, z) /\ (KeepsLinks(r, q) /\ KeepsLinks(q, z) => KeepsLinks(r, z))
<1>1. \A g \in Gens : /\ z.gen[g].handles = r.gen[g].handles
                      /\ r.gen[g].handles # {} /\ r.gen[g].superseded => z.gen[g].superseded
  BY DEF Retains
<1>2. ASSUME NEW n \in DOMAIN r.leg, r.leg[n].rec.handles # {}
      PROVE  \E m \in DOMAIN z.leg :
               /\ z.leg[m].ino = r.leg[n].ino /\ z.leg[m].rec.handles = r.leg[n].rec.handles
               /\ r.leg[n].rec.superseded => z.leg[m].rec.superseded
  <2>1. PICK k \in DOMAIN q.leg :
               /\ q.leg[k].ino = r.leg[n].ino /\ q.leg[k].rec.handles = r.leg[n].rec.handles
               /\ r.leg[n].rec.superseded => q.leg[k].rec.superseded
    BY <1>2 DEF Retains
  <2>2. PICK m \in DOMAIN z.leg :
               /\ z.leg[m].ino = q.leg[k].ino /\ z.leg[m].rec.handles = q.leg[k].rec.handles
               /\ q.leg[k].rec.superseded => z.leg[m].rec.superseded
    BY <1>2, <2>1 DEF Retains
  <2>3. QED
    BY <2>1, <2>2
<1>3. ASSUME NEW m \in DOMAIN z.leg, z.leg[m].rec.handles # {}
      PROVE  \E n \in DOMAIN r.leg :
               z.leg[m].ino = r.leg[n].ino /\ z.leg[m].rec.handles = r.leg[n].rec.handles
  <2>1. PICK k \in DOMAIN q.leg :
               z.leg[m].ino = q.leg[k].ino /\ z.leg[m].rec.handles = q.leg[k].rec.handles
    BY <1>3 DEF Retains
  <2>2. PICK n \in DOMAIN r.leg :
               q.leg[k].ino = r.leg[n].ino /\ q.leg[k].rec.handles = r.leg[n].rec.handles
    BY <1>3, <2>1 DEF Retains
  <2>3. QED
    BY <2>1, <2>2
<1>4. ASSUME KeepsLinks(r, q), KeepsLinks(q, z), NEW i, Linked(r, i), ~Unheld(r, i)
      PROVE  Linked(z, i)
  <2>1. Linked(q, i)
    BY <1>4 DEF KeepsLinks
  <2>2. PICK n \in DOMAIN r.leg : r.leg[n].ino = i /\ r.leg[n].rec.handles # {}
    BY <1>4 DEF Unheld
  <2>3. \E m \in DOMAIN q.leg : q.leg[m].ino = i /\ q.leg[m].rec.handles # {}
    BY <2>2 DEF Retains
  <2>4. ~Unheld(q, i)
    BY <2>3 DEF Unheld
  <2>5. QED
    BY <1>4, <2>1, <2>4 DEF KeepsLinks
<1>5. KeepsLinks(r, q) /\ KeepsLinks(q, z) => KeepsLinks(r, z)
  BY <1>4 DEF KeepsLinks
<1>6. QED
  BY <1>1, <1>2, <1>3, <1>5 DEF Retains

\* A registry retains what it has.
LEMMA RetainsItself ==
    ASSUME NEW r
    PROVE  Retains(r, r) /\ KeepsLinks(r, r)
  BY DEF Retains, KeepsLinks

\* Handles stay on their records and stay refused.
LEMMA AttachedStays ==
    ASSUME NEW r, NEW q, Retains(r, q), NEW h \in Handles
    PROVE  /\ \A s, t, N, M :
                Attached(r, s, h, N) /\ SameStorage(s, t) /\ KeepsLinks(r, q)
                /\ (t.data \in M => t.data \in N) => Attached(q, t, h, M)
           /\ Refused(r, h) => Refused(q, h)
<1>1. ASSUME NEW s, NEW t, NEW N, NEW M, Attached(r, s, h, N), SameStorage(s, t), KeepsLinks(r, q),
             t.data \in M => t.data \in N
      PROVE  Attached(q, t, h, M)
  <2>1. \A g \in Gens : h \in q.gen[g].handles <=> t.open /\ ~t.legacy /\ t.data = g
    BY <1>1 DEF Attached, SameStorage, Retains
  <2>2. ASSUME NEW m \in DOMAIN q.leg, h \in q.leg[m].rec.handles
        PROVE  t.open /\ t.legacy /\ t.data = q.leg[m].ino
    <3>1. PICK n \in DOMAIN r.leg :
               q.leg[m].ino = r.leg[n].ino /\ q.leg[m].rec.handles = r.leg[n].rec.handles
      BY <2>2 DEF Retains
    <3>2. QED
      BY <1>1, <2>2, <3>1 DEF Attached, SameStorage
  <2>3. ASSUME t.open, t.legacy
        PROVE  /\ \E m \in DOMAIN q.leg : h \in q.leg[m].rec.handles
               /\ t.data \in M => Linked(q, t.data)
    <3>1. s.open /\ s.legacy /\ s.data = t.data
      BY <1>1, <2>3 DEF SameStorage
    <3>2. PICK n \in DOMAIN r.leg : h \in r.leg[n].rec.handles
      BY <1>1, <3>1 DEF Attached
    <3>3. r.leg[n].ino = t.data
      BY <1>1, <3>1, <3>2 DEF Attached
    <3>4. \E m \in DOMAIN q.leg : h \in q.leg[m].rec.handles
      BY <3>2 DEF Retains
    <3>5. ~Unheld(r, t.data)
      BY <3>2, <3>3 DEF Unheld
    <3>6. t.data \in M => Linked(r, t.data)
      BY <1>1, <3>1 DEF Attached
    <3>7. QED
      BY <1>1, <3>4, <3>5, <3>6 DEF KeepsLinks
  <2>4. QED
    BY <2>1, <2>2, <2>3 DEF Attached
<1>2. ASSUME NEW g \in Gens, Holds(r.gen[g], h), r.gen[g].superseded
      PROVE  Refused(q, h)
  <2>1. Holds(q.gen[g], h) /\ q.gen[g].superseded
    BY <1>2 DEF Retains, Holds
  <2>2. QED
    BY <2>1 DEF Refused
<1>3. ASSUME NEW n \in DOMAIN r.leg, Holds(r.leg[n].rec, h), r.leg[n].rec.superseded
      PROVE  Refused(q, h)
  <2>1. PICK m \in DOMAIN q.leg : /\ q.leg[m].rec.handles = r.leg[n].rec.handles
                                  /\ q.leg[m].rec.superseded
    BY <1>3 DEF Retains, Holds
  <2>2. QED
    BY <1>3, <2>1 DEF Refused, Holds
<1>4. QED
  BY <1>1, <1>2, <1>3 DEF Refused

\* mark_generation_for_gc_locked marks one record.
LEMMA MarkSound ==
    ASSUME NEW r, Sound(r), NEW st, Proper(st), NEW alias \in BOOLEAN, CanGet(r, st, alias),
           st.legacy /\ ~Found(r, st, alias) => alias /\ Unheld(r, st.ino)
    PROVE  LET q == MarkForGC(r, st, alias)
           IN  /\ Sound(q) /\ Retains(r, q) /\ KeepsLinks(r, q)
               /\ st.legacy => q.gen = r.gen /\ (alias => Linked(q, st.ino))
               /\ ~st.legacy =>
                    /\ q.leg = r.leg
                    /\ \A x \in Gens : IF x = st.ino THEN Marks(r.gen[x], q.gen[x], alias)
                                       ELSE q.gen[x] = r.gen[x]
<1> DEFINE rec == Get(r, st, alias)
           gc == IF rec.gc = "none" THEN "pending" ELSE rec.gc
           al == IF rec.unlinked THEN rec.alias ELSE rec.alias \/ alias
           new == [rec EXCEPT !.gc = gc, !.alias = al]
           q == WithRecord(r, st, alias, new)
<1>1. /\ rec \in Records /\ rec.present /\ RecordOf(r, st, alias) \in Records
      /\ rec.handles = RecordOf(r, st, alias).handles
      /\ rec.superseded = RecordOf(r, st, alias).superseded
      /\ rec.gc = RecordOf(r, st, alias).gc /\ rec.alias = RecordOf(r, st, alias).alias
      /\ rec.unlinked = RecordOf(r, st, alias).unlinked
      /\ ~st.legacy => RecordOf(r, st, alias) = r.gen[st.ino]
  BY GetType
<1>2. MarkForGC(r, st, alias) = q
  BY DEF MarkForGC
<1>3. st.legacy /\ alias => ~rec.unlinked
  <2>1. CASE st.legacy /\ alias /\ Found(r, st, TRUE)
    <3>1. LegacyAt(r, st.ino, TRUE) # {}
      BY <2>1 DEF Found
    <3>2. ~r.leg[First(LegacyAt(r, st.ino, TRUE))].rec.unlinked
      BY <3>1, FirstFound DEF Sound
    <3>3. QED
      BY <1>1, <2>1, <3>2 DEF RecordOf
  <2>2. CASE st.legacy /\ alias /\ ~Found(r, st, TRUE)
    BY <1>1, <2>2, NoRecordType DEF RecordOf
  <2>3. QED
    BY <2>1, <2>2
<1> HIDE DEF rec
<1>4. gc \in {"pending", "claimed"} /\ al \in BOOLEAN
  BY <1>1 DEF Records
<1>5. gc = (IF rec.gc = "none" THEN "pending" ELSE rec.gc)
      /\ al = (IF rec.unlinked THEN rec.alias ELSE rec.alias \/ alias)
  OBVIOUS
<1> HIDE DEF gc, al
<1>6. /\ new \in Records /\ new.present /\ new.handles = rec.handles
      /\ new.superseded = rec.superseded /\ new.unlinked = rec.unlinked
      /\ new.gc = gc /\ new.alias = al
  BY <1>1, <1>4 DEF Records
<1> HIDE DEF new
<1>7. Evolves(rec, new)
  BY <1>6 DEF Evolves
<1>8. /\ Sound(q) /\ Retains(r, q)
      /\ new.unlinked = rec.unlinked => KeepsLinks(r, q)
      /\ st.legacy /\ alias /\ ~new.unlinked => Linked(q, st.ino)
      /\ st.legacy => q.gen = r.gen
      /\ ~st.legacy => /\ q.leg = r.leg
                       /\ \A x \in Gens : q.gen[x] = IF x = st.ino THEN new ELSE r.gen[x]
  BY <1>6, <1>7, ReplacedSound DEF rec
<1>9. ~st.legacy => Marks(r.gen[st.ino], new, alias)
  BY <1>1, <1>5, <1>6 DEF Marks
<1>10. QED
  BY <1>2, <1>3, <1>6, <1>8, <1>9

\* Registry q is r with the record of generation g marked.
GenMarked(r, q, g, alias) ==
    /\ Sound(q) /\ Retains(r, q) /\ KeepsLinks(r, q)
    /\ Marks(r.gen[g], q.gen[g], alias)
    /\ \A x \in Gens \ {g} : q.gen[x] = r.gen[x]

\* The record of a generation is marked.
LEMMA GenMarkSound ==
    ASSUME NEW r, Sound(r), NEW st, Proper(st), ~st.legacy, NEW alias \in BOOLEAN
    PROVE  GenMarked(r, MarkForGC(r, st, alias), st.ino, alias)
<1> DEFINE q == MarkForGC(r, st, alias)
<1>1. CanGet(r, st, alias) /\ st.ino \in Gens
  BY DEF CanGet, Proper
<1>2. /\ Sound(q) /\ Retains(r, q) /\ KeepsLinks(r, q)
      /\ \A x \in Gens : IF x = st.ino THEN Marks(r.gen[x], q.gen[x], alias)
                         ELSE q.gen[x] = r.gen[x]
  BY <1>1, MarkSound
<1> HIDE DEF q
<1>3. GenMarked(r, q, st.ino, alias)
  BY <1>1, <1>2 DEF GenMarked
<1>4. QED
  BY <1>3 DEF q

\* claim_generation_gc_batch claims what is pending.
LEMMA ClaimedSound ==
    ASSUME NEW r, Sound(r)
    PROVE  LET q == Claimed(r)
           IN  /\ Sound(q) /\ Retains(r, q) /\ KeepsLinks(r, q)
               /\ \A g \in Gens : Claims(r.gen[g], q.gen[g])
<1> DEFINE claim(rec) == [rec EXCEPT !.gc = IF @ = "pending" THEN "claimed" ELSE @]
           G == [g \in Gens |-> claim(r.gen[g])]
           L == [n \in DOMAIN r.leg |-> [r.leg[n] EXCEPT !.rec = claim(@)]]
           q == Claimed(r)
<1>1. r \in Registries
  BY DEF Sound
<1>2. ASSUME NEW a \in Records
      PROVE  claim(a) \in Records /\ Claims(a, claim(a)) /\ (a.gc # "pending" => claim(a) = a)
  BY DEF Records, Claims
<1>3. q = [gen |-> G, leg |-> L]
  BY DEF Claimed
<1>4. /\ r.gen \in [Gens -> Records] /\ Len(r.leg) <= MaxLegacy
      /\ \A n \in DOMAIN r.leg : r.leg[n] \in LegacyRecords /\ r.leg[n].rec \in Records
  BY <1>1, RegistryType
<1>5. G \in [Gens -> Records]
  BY <1>2, <1>4
<1>6. \A n \in DOMAIN r.leg : /\ L[n] \in LegacyRecords /\ L[n].ino = r.leg[n].ino
                              /\ L[n].rec = claim(r.leg[n].rec)
  BY <1>2, <1>4 DEF LegacyRecords
<1>7. DOMAIN L = DOMAIN r.leg /\ L = [n \in DOMAIN r.leg |-> L[n]]
  OBVIOUS
<1>8. \A g \in Gens : G[g] = claim(r.gen[g])
  OBVIOUS
<1> HIDE DEF G, L, claim
<1>9. L \in Seq(LegacyRecords) /\ Len(L) = Len(r.leg)
  BY <1>1, <1>6, <1>7, BucketOf
<1>10. q \in Registries /\ q.gen = G /\ q.leg = L
  BY <1>3, <1>4, <1>5, <1>9, RegistryOf
<1>11. \A g \in Gens : Claims(r.gen[g], q.gen[g]) /\ Evolves(r.gen[g], q.gen[g])
  <2> SUFFICES ASSUME NEW g \in Gens
               PROVE  Claims(r.gen[g], q.gen[g]) /\ Evolves(r.gen[g], q.gen[g])
    OBVIOUS
  <2>1. r.gen[g] \in Records /\ q.gen[g] = claim(r.gen[g])
    BY <1>4, <1>8, <1>10
  <2>2. Claims(r.gen[g], q.gen[g]) /\ (r.gen[g].gc # "pending" => q.gen[g] = r.gen[g])
    BY <1>2, <2>1
  <2>3. ~r.gen[g].present => r.gen[g].gc = "none"
    BY NoRecordType DEF Sound, Bucket
  <2>4. QED
    BY <2>2, <2>3 DEF Claims, Evolves
<1>12. \A n \in DOMAIN r.leg :
          /\ q.leg[n].ino = r.leg[n].ino
          /\ Claims(r.leg[n].rec, q.leg[n].rec) /\ Evolves(r.leg[n].rec, q.leg[n].rec)
  <2> SUFFICES ASSUME NEW n \in DOMAIN r.leg
               PROVE  /\ q.leg[n].ino = r.leg[n].ino
                      /\ Claims(r.leg[n].rec, q.leg[n].rec)
                      /\ Evolves(r.leg[n].rec, q.leg[n].rec)
    OBVIOUS
  <2>1. r.leg[n].rec \in Records /\ q.leg[n].rec = claim(r.leg[n].rec) /\ r.leg[n].rec.present
        /\ q.leg[n].ino = r.leg[n].ino
    BY <1>4, <1>6, <1>10 DEF Sound, Bucket
  <2>2. Claims(r.leg[n].rec, q.leg[n].rec)
    BY <1>2, <2>1
  <2>3. QED
    BY <2>1, <2>2 DEF Claims, Evolves
<1>13. DOMAIN q.leg = DOMAIN r.leg
  BY <1>7, <1>10
<1>14. /\ Sound(q) /\ Retains(r, q)
       /\ (\A n \in DOMAIN r.leg : q.leg[n].rec.unlinked = r.leg[n].rec.unlinked)
              => KeepsLinks(r, q)
  BY <1>10, <1>11, <1>12, <1>13, EvolvedSound
<1>15. QED
  BY <1>11, <1>12, <1>14 DEF Claims

\* mark_generations_unlinked_locked marks every record.
LEMMA UnlinkedSound ==
    ASSUME NEW r, Sound(r)
    PROVE  LET q == MarkUnlinked(r)
           IN  /\ Sound(q) /\ Retains(r, q)
               /\ \A g \in Gens :
                    /\ q.gen[g].handles = r.gen[g].handles
                    /\ ~q.gen[g].alias /\ q.gen[g].present = r.gen[g].present
                    /\ r.gen[g].present => q.gen[g].unlinked /\ q.gen[g].gc # "none"
                    /\ r.gen[g].gc # "none" => q.gen[g].gc = r.gen[g].gc
                    /\ q.gen[g].gc = "claimed" => r.gen[g].gc = "claimed"
<1> DEFINE gone(rec) == [rec EXCEPT !.unlinked = TRUE, !.alias = FALSE,
                                    !.gc = IF @ = "none" THEN "pending" ELSE @]
           G == [g \in Gens |-> IF r.gen[g].present THEN gone(r.gen[g]) ELSE r.gen[g]]
           L == [n \in DOMAIN r.leg |-> [r.leg[n] EXCEPT !.rec = gone(@)]]
           q == MarkUnlinked(r)
<1>1. r \in Registries
  BY DEF Sound
<1>2. ASSUME NEW a \in Records
      PROVE  /\ gone(a) \in Records /\ gone(a).handles = a.handles /\ gone(a).unlinked
             /\ ~gone(a).alias /\ gone(a).superseded = a.superseded
             /\ gone(a).present = a.present
             /\ gone(a).gc = IF a.gc = "none" THEN "pending" ELSE a.gc
  BY DEF Records
<1>3. q = [gen |-> G, leg |-> L]
  BY DEF MarkUnlinked
<1>4. /\ r.gen \in [Gens -> Records] /\ Len(r.leg) <= MaxLegacy
      /\ \A n \in DOMAIN r.leg : r.leg[n] \in LegacyRecords /\ r.leg[n].rec \in Records
  BY <1>1, RegistryType
<1>5. G \in [Gens -> Records]
  BY <1>2, <1>4
<1>6. \A n \in DOMAIN r.leg : /\ L[n] \in LegacyRecords /\ L[n].ino = r.leg[n].ino
                              /\ L[n].rec = gone(r.leg[n].rec)
  BY <1>2, <1>4 DEF LegacyRecords
<1>7. DOMAIN L = DOMAIN r.leg /\ L = [n \in DOMAIN r.leg |-> L[n]]
  OBVIOUS
<1>8. \A g \in Gens : G[g] = IF r.gen[g].present THEN gone(r.gen[g]) ELSE r.gen[g]
  OBVIOUS
<1> HIDE DEF G, L, gone
<1>9. L \in Seq(LegacyRecords) /\ Len(L) = Len(r.leg)
  BY <1>1, <1>6, <1>7, BucketOf
<1>10. q \in Registries /\ q.gen = G /\ q.leg = L
  BY <1>3, <1>4, <1>5, <1>9, RegistryOf
<1>11. ASSUME NEW g \in Gens
       PROVE  /\ Evolves(r.gen[g], q.gen[g])
              /\ q.gen[g].handles = r.gen[g].handles
              /\ ~q.gen[g].alias /\ q.gen[g].present = r.gen[g].present
              /\ r.gen[g].present => q.gen[g].unlinked /\ q.gen[g].gc # "none"
              /\ r.gen[g].gc # "none" => q.gen[g].gc = r.gen[g].gc
              /\ q.gen[g].gc = "claimed" => r.gen[g].gc = "claimed"
  <2>1. r.gen[g] \in Records
    BY <1>4
  <2>2. CASE r.gen[g].present
    <3>1. q.gen[g] = gone(r.gen[g])
      BY <1>8, <1>10, <2>2
    <3>2. QED
      BY <1>2, <2>1, <2>2, <3>1 DEF Evolves
  <2>3. CASE ~r.gen[g].present
    <3>1. q.gen[g] = r.gen[g] /\ r.gen[g] = NoRecord
      BY <1>8, <1>10, <2>3 DEF Sound, Bucket
    <3>2. QED
      BY <2>3, <3>1, NoRecordType DEF Evolves
  <2>4. QED
    BY <2>2, <2>3
<1>12. ASSUME NEW n \in DOMAIN r.leg
       PROVE  q.leg[n].ino = r.leg[n].ino /\ Evolves(r.leg[n].rec, q.leg[n].rec)
  <2>1. r.leg[n].rec \in Records /\ q.leg[n].rec = gone(r.leg[n].rec) /\ r.leg[n].rec.present
        /\ q.leg[n].ino = r.leg[n].ino
    BY <1>4, <1>6, <1>10 DEF Sound, Bucket
  <2>2. QED
    BY <1>2, <2>1 DEF Evolves
<1>13. DOMAIN q.leg = DOMAIN r.leg
  BY <1>7, <1>10
<1>14. Sound(q) /\ Retains(r, q)
  BY <1>10, <1>11, <1>12, <1>13, EvolvedSound
<1>15. QED
  BY <1>11, <1>14

\* Recovery marks several generations.
LEMMA MarkedGensSound ==
    ASSUME NEW r, Sound(r), NEW X \in SUBSET Gens, NEW alias \in BOOLEAN
    PROVE  LET q == MarkedGens(r, X, alias)
           IN  /\ Sound(q) /\ Retains(r, q) /\ KeepsLinks(r, q) /\ q.leg = r.leg
               /\ \A g \in Gens : IF g \in X THEN Marks(r.gen[g], q.gen[g], alias)
                                  ELSE q.gen[g] = r.gen[g]
<1> DEFINE G == [g \in Gens |-> IF g \in X THEN MarkForGC(r, Generation(g), alias).gen[g]
                                ELSE r.gen[g]]
           q == MarkedGens(r, X, alias)
<1>1. r \in Registries /\ r.gen \in [Gens -> Records] /\ r.leg \in Seq(LegacyRecords)
      /\ Len(r.leg) <= MaxLegacy
  BY RegistryType DEF Sound
<1>2. q.gen = G /\ q.leg = r.leg /\ q = [gen |-> G, leg |-> r.leg]
  BY <1>1 DEF MarkedGens, Registries
<1>3. ASSUME NEW g \in X
      PROVE  LET z == MarkForGC(r, Generation(g), alias)
             IN  z.gen[g] \in Records /\ Marks(r.gen[g], z.gen[g], alias)
  <2>1. Proper(Generation(g)) /\ ~Generation(g).legacy /\ Generation(g).ino = g
    BY DEF Proper, Storages, Generation, Names, Inodes
  <2>2. CanGet(r, Generation(g), alias)
    BY <2>1 DEF CanGet
  <2> DEFINE z == MarkForGC(r, Generation(g), alias)
  <2>3. Sound(z) /\ \A x \in Gens : IF x = g THEN Marks(r.gen[x], z.gen[x], alias)
                                    ELSE z.gen[x] = r.gen[x]
    BY <2>1, <2>2, MarkSound
  <2> HIDE DEF z
  <2>4. z.gen \in [Gens -> Records]
    BY <2>3, RegistryType DEF Sound
  <2>5. QED
    BY <2>3, <2>4 DEF z
<1>4. \A g \in Gens : /\ G[g] \in Records
                      /\ IF g \in X THEN Marks(r.gen[g], G[g], alias) ELSE G[g] = r.gen[g]
  BY <1>1, <1>3
<1>5. DOMAIN G = Gens /\ G = [g \in Gens |-> G[g]]
  OBVIOUS
<1> HIDE DEF G, q
<1>6. G \in [Gens -> Records]
  BY <1>4, <1>5
<1>7. q \in Registries
  BY <1>1, <1>2, <1>6, RegistryOf
<1>8. \A g \in Gens : Evolves(r.gen[g], q.gen[g])
  BY <1>2, <1>4 DEF Evolves, Marks
<1>9. \A n \in DOMAIN r.leg :
         q.leg[n].ino = r.leg[n].ino /\ Evolves(r.leg[n].rec, q.leg[n].rec)
         /\ q.leg[n].rec.unlinked = r.leg[n].rec.unlinked
  BY <1>2 DEF Evolves
<1>10. DOMAIN q.leg = DOMAIN r.leg
  BY <1>2
<1>11. Sound(q) /\ Retains(r, q) /\ KeepsLinks(r, q)
  BY <1>7, <1>8, <1>9, <1>10, EvolvedSound
<1>12. QED
  BY <1>2, <1>4, <1>11 DEF q

\* A claimed generation waits for the next collection.
LEMMA GenPending ==
    ASSUME NEW r, Sound(r), NEW g \in Gens, r.gen[g].gc = "claimed"
    PROVE  LET q == [r EXCEPT !.gen[g] = [@ EXCEPT !.gc = "pending"]]
           IN  /\ Sound(q) /\ Retains(r, q) /\ KeepsLinks(r, q) /\ q.leg = r.leg
               /\ q.gen[g] = [r.gen[g] EXCEPT !.gc = "pending"]
               /\ \A x \in Gens \ {g} : q.gen[x] = r.gen[x]
<1> DEFINE rec == [r.gen[g] EXCEPT !.gc = "pending"]
           q == [r EXCEPT !.gen[g] = rec]
<1>1. r \in Registries /\ r.gen[g] \in Records /\ r.gen[g].present
  BY RegistryType, NoRecordType DEF Sound, Bucket
<1>2. /\ rec \in Records /\ rec.handles = r.gen[g].handles /\ rec.present
      /\ rec.superseded = r.gen[g].superseded /\ rec.unlinked = r.gen[g].unlinked
  BY <1>1 DEF Records
<1>3. rec = [r.gen[g] EXCEPT !.gc = "pending"]
  OBVIOUS
<1> HIDE DEF rec
<1>4. /\ q \in Registries /\ q.leg = r.leg
      /\ \A x \in Gens : q.gen[x] = IF x = g THEN rec ELSE r.gen[x]
  BY <1>1, <1>2, GenReplaced
<1>5. q = [r EXCEPT !.gen[g] = [@ EXCEPT !.gc = "pending"]]
  BY <1>3
<1> HIDE DEF q
<1>6. \A x \in Gens : Evolves(r.gen[x], q.gen[x])
  BY <1>2, <1>4 DEF Evolves
<1>7. \A n \in DOMAIN r.leg :
         q.leg[n].ino = r.leg[n].ino /\ Evolves(r.leg[n].rec, q.leg[n].rec)
         /\ q.leg[n].rec.unlinked = r.leg[n].rec.unlinked
  BY <1>4 DEF Evolves
<1>8. Sound(q) /\ Retains(r, q) /\ KeepsLinks(r, q)
  BY <1>4, <1>6, <1>7, EvolvedSound
<1>9. QED
  BY <1>3, <1>4, <1>5, <1>8

\* A generation without handles is retired.
LEMMA GenRetired ==
    ASSUME NEW r, Sound(r), NEW g \in Gens, r.gen[g].handles = {}
    PROVE  LET q == [r EXCEPT !.gen[g] = NoRecord]
           IN  /\ Sound(q) /\ Retains(r, q) /\ KeepsLinks(r, q) /\ q.leg = r.leg
               /\ \A x \in Gens : q.gen[x] = IF x = g THEN NoRecord ELSE r.gen[x]
<1> DEFINE q == [r EXCEPT !.gen[g] = NoRecord]
<1>1. r \in Registries
  BY DEF Sound
<1>2. /\ q \in Registries /\ q.leg = r.leg
      /\ \A x \in Gens : q.gen[x] = IF x = g THEN NoRecord ELSE r.gen[x]
  BY <1>1, NoRecordType, GenReplaced
<1> HIDE DEF q
<1>3. Bucket(q)
  BY <1>2 DEF Sound, Bucket
<1>4. Retains(r, q)
  BY <1>2, NoRecordType DEF Retains
<1>5. KeepsLinks(r, q)
  BY <1>2 DEF KeepsLinks, Linked
<1>6. QED
  BY <1>2, <1>3, <1>4, <1>5 DEF Sound, q

\* A claimed legacy record waits for the next collection.
LEMMA LegPending ==
    ASSUME NEW r, Sound(r), NEW p \in DOMAIN r.leg
    PROVE  LET q == [r EXCEPT !.leg = [@ EXCEPT ![p].rec.gc = "pending"]]
           IN  Sound(q) /\ Retains(r, q) /\ KeepsLinks(r, q) /\ q.gen = r.gen
<1> DEFINE rec == [r.leg[p].rec EXCEPT !.gc = "pending"]
           q == [r EXCEPT !.leg = [@ EXCEPT ![p].rec.gc = "pending"]]
<1>1. r \in Registries /\ r.leg[p].rec \in Records /\ r.leg[p].rec.present
      /\ r.leg[p] \in LegacyRecords
  BY RegistryType DEF Sound, Bucket
<1>2. /\ rec \in Records /\ rec.handles = r.leg[p].rec.handles /\ rec.present
      /\ rec.superseded = r.leg[p].rec.superseded /\ rec.unlinked = r.leg[p].rec.unlinked
  BY <1>1 DEF Records
<1>3. [r.leg EXCEPT ![p].rec.gc = "pending"] = [r.leg EXCEPT ![p].rec = rec]
  OBVIOUS
<1> HIDE DEF rec
<1>4. q = [r EXCEPT !.leg[p].rec = rec]
  BY <1>3
<1> HIDE DEF q
<1>5. /\ q \in Registries /\ q.gen = r.gen /\ DOMAIN q.leg = DOMAIN r.leg
      /\ \A n \in DOMAIN r.leg :
           /\ q.leg[n].ino = r.leg[n].ino
           /\ q.leg[n].rec = IF n = p THEN rec ELSE r.leg[n].rec
  BY <1>1, <1>2, <1>4, LegReplaced
<1>6. \A x \in Gens : Evolves(r.gen[x], q.gen[x])
  BY <1>5 DEF Evolves
<1>7. \A n \in DOMAIN r.leg :
         q.leg[n].ino = r.leg[n].ino /\ Evolves(r.leg[n].rec, q.leg[n].rec)
         /\ q.leg[n].rec.unlinked = r.leg[n].rec.unlinked
  BY <1>2, <1>5 DEF Evolves
<1>8. Sound(q) /\ Retains(r, q) /\ KeepsLinks(r, q)
  BY <1>5, <1>6, <1>7, EvolvedSound
<1>9. QED
  BY <1>5, <1>8 DEF q

\* A legacy record without handles is retired.
LEMMA LegRetired ==
    ASSUME NEW r, Sound(r), NEW p \in DOMAIN r.leg, r.leg[p].rec.handles = {}
    PROVE  LET q == [gen |-> r.gen, leg |-> RemoveAt(r.leg, p)]
           IN  Sound(q) /\ Retains(r, q) /\ KeepsLinks(r, q)
<1> DEFINE L == RemoveAt(r.leg, p)
           q == [gen |-> r.gen, leg |-> L]
<1>1. r \in Registries /\ DOMAIN r.leg = 1 .. Len(r.leg) /\ Len(r.leg) \in Nat
  BY RegistryType DEF Sound
<1>2. /\ q \in Registries /\ DOMAIN L = 1 .. (Len(r.leg) - 1)
      /\ \A n \in DOMAIN L : L[n] = IF n < p THEN r.leg[n] ELSE r.leg[n + 1]
  BY <1>1, LegRemoved
<1>3. q.gen = r.gen /\ q.leg = L
  OBVIOUS
<1> HIDE DEF L, q
<1>4. \A n \in DOMAIN r.leg \ {p} : \E m \in DOMAIN q.leg : q.leg[m] = r.leg[n]
  <2> SUFFICES ASSUME NEW n \in DOMAIN r.leg, n # p
               PROVE  \E m \in DOMAIN q.leg : q.leg[m] = r.leg[n]
    OBVIOUS
  <2>1. CASE n < p
    <3>1. n \in DOMAIN L /\ L[n] = r.leg[n]
      BY <1>1, <1>2, <2>1
    <3>2. QED
      BY <1>3, <3>1
  <2>2. CASE p < n
    <3>1. n - 1 \in DOMAIN L /\ ~(n - 1 < p) /\ (n - 1) + 1 = n
      BY <1>1, <1>2, <2>2
    <3>2. L[n - 1] = r.leg[n]
      BY <1>2, <3>1
    <3>3. QED
      BY <1>3, <3>1, <3>2
  <2>3. QED
    BY <1>1, <2>1, <2>2
<1>5. \A m \in DOMAIN q.leg : \E n \in DOMAIN r.leg \ {p} : q.leg[m] = r.leg[n]
  BY <1>1, <1>2, <1>3
<1>6. Bucket(q)
  <2>1. \A g \in Gens : ~q.gen[g].present => q.gen[g] = NoRecord
    BY <1>3 DEF Sound, Bucket
  <2>2. \A n \in DOMAIN q.leg : q.leg[n].rec.present
    BY <1>5 DEF Sound, Bucket
  <2>3. ASSUME NEW m \in DOMAIN q.leg, NEW n \in DOMAIN q.leg, m < n,
               q.leg[m].ino = q.leg[n].ino
        PROVE  q.leg[n].rec.unlinked /\ q.leg[n].rec.handles = {}
    <3> DEFINE x == IF m < p THEN m ELSE m + 1
               y == IF n < p THEN n ELSE n + 1
    <3>1. x \in DOMAIN r.leg /\ y \in DOMAIN r.leg /\ x < y
      BY <1>1, <1>2, <1>3, <2>3
    <3>2. q.leg[m] = r.leg[x] /\ q.leg[n] = r.leg[y]
      BY <1>2, <1>3
    <3> HIDE DEF x, y
    <3>3. QED
      BY <2>3, <3>1, <3>2 DEF Sound, Bucket
  <2>4. QED
    BY <2>1, <2>2, <2>3 DEF Bucket
<1>7. Retains(r, q)
  <2>1. ASSUME NEW n \in DOMAIN r.leg, r.leg[n].rec.handles # {}
        PROVE  \E m \in DOMAIN q.leg : q.leg[m] = r.leg[n]
    BY <1>4, <2>1
  <2>2. QED
    BY <1>3, <1>5, <2>1 DEF Retains
<1>8. KeepsLinks(r, q)
  <2> SUFFICES ASSUME NEW i, Linked(r, i), ~Unheld(r, i)
               PROVE  Linked(q, i)
    BY DEF KeepsLinks
  <2>1. PICK n \in DOMAIN r.leg : r.leg[n].ino = i /\ ~r.leg[n].rec.unlinked
    BY DEF Linked
  <2>2. PICK k \in DOMAIN r.leg : r.leg[k].ino = i /\ r.leg[k].rec.handles # {}
    BY DEF Unheld
  <2>3. ~(k < n) /\ ~(n < k)
    BY <2>1, <2>2 DEF Sound, Bucket
  <2>4. n # p
    BY <1>1, <2>2, <2>3
  <2>5. QED
    BY <1>4, <2>1, <2>4 DEF Linked
<1>9. QED
  BY <1>2, <1>6, <1>7, <1>8 DEF Sound, L, q

\* A registry whose records lost handles.
LEMMA ShrunkSound ==
    ASSUME NEW r, Sound(r), NEW q \in Registries, DOMAIN q.leg = DOMAIN r.leg,
           \A g \in Gens : q.gen[g].present \/ q.gen[g] = r.gen[g],
           \A n \in DOMAIN r.leg :
              /\ q.leg[n].ino = r.leg[n].ino /\ q.leg[n].rec.present
              /\ q.leg[n].rec.handles \subseteq r.leg[n].rec.handles
              /\ q.leg[n].rec.unlinked = r.leg[n].rec.unlinked
    PROVE  Sound(q) /\ \A i : Linked(r, i) => Linked(q, i)
<1>1. Bucket(q)
  BY DEF Sound, Bucket
<1>2. \A i : Linked(r, i) => Linked(q, i)
  BY DEF Linked
<1>3. QED
  BY <1>1, <1>2 DEF Sound

\* The registry finds the record that a handle is on by the identity of its
\* storage, and a second one of that identity has no handle.
LEMMA AttachedFound ==
    ASSUME NEW r, Sound(r), NEW h \in Handles, NEW s, NEW N, Attached(r, s, h, N), s.open,
           NEW st, Proper(st), s.legacy = st.legacy, s.data = st.ino
    PROVE  /\ Found(r, st, FALSE) /\ h \in Find(r, st).handles
           /\ st.legacy => \A n \in DOMAIN r.leg :
                 h \in r.leg[n].rec.handles => n = First(LegacyAt(r, st.ino, FALSE))
<1>1. CASE ~st.legacy
  <2>1. h \in r.gen[st.ino].handles
    BY <1>1 DEF Attached, Proper
  <2>2. r.gen[st.ino].present
    BY <1>1, <2>1, NoRecordType DEF Sound, Bucket, Proper
  <2>3. QED
    BY <1>1, <2>1, <2>2 DEF Found, Find, RecordOf
<1>2. CASE st.legacy
  <2> DEFINE S == LegacyAt(r, st.ino, FALSE)
             p == First(S)
  <2>1. PICK k \in DOMAIN r.leg : h \in r.leg[k].rec.handles
    BY <1>2 DEF Attached
  <2>2. ASSUME NEW n \in DOMAIN r.leg, h \in r.leg[n].rec.handles
        PROVE  n = p /\ S # {}
    <3>1. r.leg[n].ino = st.ino
      BY <2>2 DEF Attached
    <3>2. n \in S
      BY <2>2, <3>1 DEF LegacyAt
    <3>3. p \in DOMAIN r.leg /\ r.leg[p].ino = st.ino /\ p <= n
      BY <3>2, FirstFound DEF Sound
    <3>4. ~(p < n)
      BY <2>2, <3>1, <3>3 DEF Sound, Bucket
    <3>5. DOMAIN r.leg = 1 .. Len(r.leg) /\ Len(r.leg) \in Nat
      BY RegistryType DEF Sound
    <3> HIDE DEF p, S
    <3>6. QED
      BY <3>2, <3>3, <3>4, <3>5
  <2>3. S # {} /\ h \in r.leg[p].rec.handles
    BY <2>1, <2>2
  <2>4. QED
    BY <1>2, <2>2, <2>3 DEF Found, Find, RecordOf
<1>3. QED
  BY <1>1, <1>2

\* An inode under the names of the path has a record that saw no unlink, or no
\* handle.
LEMMA LinkedOrUnheld ==
    ASSUME NEW r, NEW S, NEW N, \A h \in Handles : Attached(r, S[h], h, N), r \in Registries,
           NEW i \in N
    PROVE  Linked(r, i) \/ Unheld(r, i)
<1> SUFFICES ASSUME NEW n \in DOMAIN r.leg, r.leg[n].ino = i, r.leg[n].rec.handles # {}
             PROVE  Linked(r, i)
  BY DEF Unheld
<1>1. r.leg[n].rec.handles \subseteq Handles
  BY RegistryType DEF Records
<1>2. PICK h \in Handles : h \in r.leg[n].rec.handles
  BY <1>1
<1>3. S[h].open /\ S[h].legacy /\ S[h].data = i
  BY <1>2 DEF Attached
<1>4. QED
  BY <1>3 DEF Attached

\* What is linked is found.
LEMMA LinkedFound ==
    ASSUME NEW r, NEW st, st.legacy, Linked(r, st.ino)
    PROVE  Found(r, st, TRUE)
  BY DEF Linked, Found, LegacyAt

\* The record that supersede changes, without the handles H.
LEMMA SupersedeShape ==
    ASSUME NEW r, Sound(r), NEW st, Proper(st), NEW H \in SUBSET Handles, Found(r, st, FALSE)
    PROVE  Superseding(r, Supersede(r, st, H), st, H, Find(r, st), Refusing(Find(r, st), H),
                       First(LegacyAt(r, st.ino, FALSE)))
<1> DEFINE old == Find(r, st)
           hh == old.handles \ H
           new == [old EXCEPT !.superseded = TRUE, !.handles = hh]
           p == First(LegacyAt(r, st.ino, FALSE))
           q == Supersede(r, st, H)
<1>1. r \in Registries
  BY DEF Sound
<1>2. old \in Records /\ old.present /\ (~st.legacy => old = r.gen[st.ino])
  <2>1. /\ Find(r, st) \in Records /\ Get(r, st, FALSE).present
        /\ Get(r, st, FALSE) = Find(r, st)
        /\ ~st.legacy => Find(r, st) = r.gen[st.ino]
    BY GetType DEF Find
  <2>2. QED
    BY <2>1
<1>3. q = WithRecord(r, st, FALSE, new)
  BY DEF Supersede
<1>4. st.legacy => /\ p \in DOMAIN r.leg /\ r.leg[p].ino = st.ino
                   /\ LegacyAt(r, st.ino, FALSE) # {} /\ old = r.leg[p].rec
  BY <1>1, FirstFound DEF Found, Find, RecordOf
<1>5. q = IF st.legacy THEN [r EXCEPT !.leg[p].rec = new] ELSE [r EXCEPT !.gen[st.ino] = new]
  BY <1>3, <1>4 DEF WithRecord, Found
<1> HIDE DEF old, p, q
<1>6. hh \subseteq Handles
  BY <1>2 DEF Records
<1>7. hh = old.handles \ H
  OBVIOUS
<1> HIDE DEF hh
<1>8. /\ new \in Records /\ new.present /\ new.superseded /\ new.handles = hh
      /\ new.unlinked = old.unlinked /\ new.gc = old.gc /\ new.alias = old.alias
  BY <1>2, <1>6 DEF Records
<1>9. new = Refusing(old, H)
  BY <1>7 DEF Refusing
<1> HIDE DEF new
<1>10. CASE ~st.legacy
  <2>1. st.ino \in Gens
    BY <1>10 DEF Proper
  <2>2. /\ q \in Registries /\ q.leg = r.leg
        /\ \A x \in Gens : q.gen[x] = IF x = st.ino THEN new ELSE r.gen[x]
    BY <1>1, <1>5, <1>8, <1>10, <2>1, GenReplaced
  <2>3. Superseding(r, q, st, H, old, new, p)
    BY <1>2, <1>7, <1>8, <1>10, <2>2 DEF Superseding
  <2>4. QED
    BY <1>9, <2>3 DEF old, q, p
<1>11. CASE st.legacy
  <2>1. /\ q \in Registries /\ q.gen = r.gen /\ DOMAIN q.leg = DOMAIN r.leg
        /\ \A n \in DOMAIN r.leg :
             /\ q.leg[n].ino = r.leg[n].ino
             /\ q.leg[n].rec = IF n = p THEN new ELSE r.leg[n].rec
    BY <1>1, <1>4, <1>5, <1>8, <1>11, LegReplaced
  <2>2. Superseding(r, q, st, H, old, new, p)
    BY <1>2, <1>4, <1>7, <1>8, <1>11, <2>1 DEF Superseding
  <2>3. QED
    BY <1>9, <2>2 DEF old, q, p
<1>12. QED
  BY <1>10, <1>11

\* A superseded storage keeps its handles, and they are refused.
LEMMA SupersedeSound ==
    ASSUME NEW r, Sound(r), NEW st, Proper(st)
    PROVE  LET q == Supersede(r, st, {})
           IN  /\ Sound(q) /\ Retains(r, q) /\ KeepsLinks(r, q)
               /\ \A h \in Find(r, st).handles : Refused(q, h)
               /\ \A g \in Gens :
                    /\ q.gen[g].present = r.gen[g].present /\ q.gen[g].gc = r.gen[g].gc
                    /\ q.gen[g].alias = r.gen[g].alias /\ q.gen[g].unlinked = r.gen[g].unlinked
<1>0. PICK H \in SUBSET Handles : H = {}
  OBVIOUS
<1> DEFINE q == Supersede(r, st, H)
           old == Find(r, st)
           new == Refusing(old, H)
           p == First(LegacyAt(r, st.ino, FALSE))
<1>1. CASE ~Found(r, st, FALSE)
  <2>1. q = r /\ old.handles = {}
    BY <1>1, NoRecordType DEF Supersede, Find, RecordOf
  <2>2. QED
    BY <1>0, <2>1, RetainsItself
<1>2. CASE Found(r, st, FALSE)
  <2>1. Superseding(r, q, st, H, old, new, p)
    BY <1>2, SupersedeShape
  <2> HIDE DEF q, new
  <2>2. old.present
    <3>1. /\ Get(r, st, FALSE).present /\ Get(r, st, FALSE) = old
      BY <1>2, GetType DEF Find
    <3>2. QED
      BY <3>1
  <2> HIDE DEF old, p
  <2>3. /\ Evolves(old, new)
        /\ \A x : Evolves(x, x)
    BY <1>0, <2>1 DEF Evolves, Superseding
  <2>4. ASSUME NEW g \in Gens
        PROVE  /\ Evolves(r.gen[g], q.gen[g])
               /\ q.gen[g].present = r.gen[g].present /\ q.gen[g].gc = r.gen[g].gc
               /\ q.gen[g].alias = r.gen[g].alias /\ q.gen[g].unlinked = r.gen[g].unlinked
    <3>1. q.gen[g] = r.gen[g] \/ (r.gen[g] = old /\ q.gen[g] = new)
      BY <2>1 DEF Superseding
    <3>2. CASE q.gen[g] = r.gen[g]
      BY <2>3, <3>2
    <3>3. CASE r.gen[g] = old /\ q.gen[g] = new
      <4>1. /\ new.present = old.present /\ new.gc = old.gc
            /\ new.alias = old.alias /\ new.unlinked = old.unlinked
        BY <2>1, <2>2 DEF Records, Superseding
      <4>2. QED
        BY <2>3, <3>3, <4>1
    <3>4. QED
      BY <3>1, <3>2, <3>3
  <2>5. \A n \in DOMAIN r.leg : /\ q.leg[n].ino = r.leg[n].ino
                                /\ Evolves(r.leg[n].rec, q.leg[n].rec)
                                /\ q.leg[n].rec.unlinked = r.leg[n].rec.unlinked
    BY <2>1, <2>3 DEF Superseding
  <2>6. DOMAIN q.leg = DOMAIN r.leg
    BY <2>1 DEF Superseding
  <2>7. q \in Registries
    BY <2>1 DEF Superseding
  <2>8. Sound(q) /\ Retains(r, q) /\ KeepsLinks(r, q)
    BY <2>4, <2>5, <2>6, <2>7, EvolvedSound
  <2>9. ASSUME NEW h \in old.handles
        PROVE  Refused(q, h)
    <3>1. CASE ~st.legacy
      <4>1. st.ino \in Gens /\ q.gen[st.ino] = new
        BY <2>1, <3>1 DEF Proper, Superseding
      <4>2. QED
        BY <1>0, <2>1, <4>1 DEF Refused, Holds, Superseding
    <3>2. CASE st.legacy
      <4>1. p \in DOMAIN q.leg /\ q.leg[p].rec = new
        BY <2>1, <3>2 DEF Superseding
      <4>2. QED
        BY <1>0, <2>1, <4>1 DEF Refused, Holds, Superseding
    <3>3. QED
      BY <3>1, <3>2
  <2>10. QED
    BY <1>0, <2>4, <2>8, <2>9 DEF q, old
<1>3. QED
  BY <1>1, <1>2

\* What a handoff does to the records of registry r.
LEMMA HandedOverShape ==
    ASSUME NEW r, Sound(r), NEW st, Proper(st), NEW g \in Gens, r.gen[g] = NoRecord,
           ~st.legacy => st.ino # g, NEW H \in SUBSET Handles, H \subseteq Find(r, st).handles
    PROVE  HandsOver(r, HandedOver(r, st, g, H), st, g, H)
<1> DEFINE m == Supersede(r, st, H)
           old == Find(r, st)
           new == Refusing(old, H)
           p == First(LegacyAt(r, st.ino, FALSE))
           q == HandedOver(r, st, g, H)
<1>1. r \in Registries
  BY DEF Sound
<1>2. /\ m \in Registries /\ Sound(m) /\ m.gen[g] = NoRecord
      /\ \A x \in Gens :
           /\ m.gen[x].present = r.gen[x].present /\ m.gen[x].gc = r.gen[x].gc
           /\ m.gen[x].alias = r.gen[x].alias /\ m.gen[x].unlinked = r.gen[x].unlinked
           /\ r.gen[x].superseded => m.gen[x].superseded
           /\ m.gen[x].handles = IF ~st.legacy /\ x = st.ino THEN r.gen[x].handles \ H
                                 ELSE r.gen[x].handles
           /\ ~st.legacy /\ x = st.ino /\ Found(r, st, FALSE) => m.gen[x].superseded
      /\ DOMAIN m.leg = DOMAIN r.leg
      /\ \A n \in DOMAIN r.leg :
           /\ m.leg[n].ino = r.leg[n].ino /\ m.leg[n].rec.unlinked = r.leg[n].rec.unlinked
           /\ r.leg[n].rec.superseded => m.leg[n].rec.superseded
           /\ m.leg[n].rec.handles = IF st.legacy /\ n = p THEN r.leg[n].rec.handles \ H
                                     ELSE r.leg[n].rec.handles
           /\ st.legacy /\ n = p /\ Found(r, st, FALSE) => m.leg[n].rec.superseded
  <2>1. CASE ~Found(r, st, FALSE)
    <3>1. m = r /\ H = {}
      BY <2>1, NoRecordType DEF Supersede, Find, RecordOf
    <3> HIDE DEF m
    <3>2. QED
      BY <1>1, <2>1, <3>1
  <2>2. CASE Found(r, st, FALSE)
    <3>1. Superseding(r, m, st, H, old, new, p)
      BY <2>2, SupersedeShape
    <3>2. Get(r, st, FALSE).present /\ Get(r, st, FALSE) = old
      BY <2>2, GetType DEF Find
    <3>3. old.present /\ old \in Records
      BY <3>1, <3>2 DEF Superseding
    <3> HIDE DEF m, old, new, p
    <3>4. /\ new.present /\ new.superseded /\ new.handles = old.handles \ H
          /\ new.unlinked = old.unlinked /\ new.gc = old.gc /\ new.alias = old.alias
          /\ m \in Registries
      BY <3>1 DEF Superseding
    <3>5. CASE ~st.legacy
      <4>1. /\ m.leg = r.leg /\ old = r.gen[st.ino]
            /\ \A x \in Gens : m.gen[x] = IF x = st.ino THEN new ELSE r.gen[x]
        BY <3>1, <3>5 DEF Superseding
      <4>2. Sound(m)
        <5>1. \A x \in Gens : m.gen[x].present \/ m.gen[x] = r.gen[x]
          BY <3>4, <4>1
        <5>2. \A n \in DOMAIN r.leg :
                  /\ m.leg[n].ino = r.leg[n].ino /\ m.leg[n].rec.present
                  /\ m.leg[n].rec.handles \subseteq r.leg[n].rec.handles
                  /\ m.leg[n].rec.unlinked = r.leg[n].rec.unlinked
          BY <4>1 DEF Sound, Bucket
        <5>3. DOMAIN m.leg = DOMAIN r.leg
          BY <4>1
        <5>4. QED
          BY <3>4, <5>1, <5>2, <5>3, ShrunkSound
      <4>3. ASSUME NEW x \in Gens
            PROVE  /\ m.gen[x].present = r.gen[x].present /\ m.gen[x].gc = r.gen[x].gc
                   /\ m.gen[x].alias = r.gen[x].alias /\ m.gen[x].unlinked = r.gen[x].unlinked
                   /\ r.gen[x].superseded => m.gen[x].superseded
                   /\ m.gen[x].handles = IF ~st.legacy /\ x = st.ino THEN r.gen[x].handles \ H
                                         ELSE r.gen[x].handles
                   /\ ~st.legacy /\ x = st.ino /\ Found(r, st, FALSE) => m.gen[x].superseded
        <5>1. CASE x = st.ino
          <6>1. m.gen[x] = new /\ r.gen[x] = old
            BY <4>1, <5>1
          <6>2. new.present = old.present
            BY <3>3, <3>4 DEF Records
          <6>3. QED
            BY <3>4, <3>5, <5>1, <6>1, <6>2
        <5>2. CASE x # st.ino
          <6>1. m.gen[x] = r.gen[x]
            BY <4>1, <5>2
          <6>2. QED
            BY <5>2, <6>1
        <5>3. QED
          BY <5>1, <5>2
      <4>4. m.gen[g] = NoRecord
        BY <3>5, <4>1
      <4>5. QED
        BY <3>4, <3>5, <4>1, <4>2, <4>3, <4>4
    <3>6. CASE st.legacy
      <4>1. /\ m.gen = r.gen /\ p \in DOMAIN r.leg /\ r.leg[p].ino = st.ino
            /\ old = r.leg[p].rec /\ DOMAIN m.leg = DOMAIN r.leg
            /\ \A n \in DOMAIN r.leg :
                 /\ m.leg[n].ino = r.leg[n].ino
                 /\ m.leg[n].rec = IF n = p THEN new ELSE r.leg[n].rec
        BY <3>1, <3>6 DEF Superseding
      <4>2. ASSUME NEW n \in DOMAIN r.leg
            PROVE  /\ m.leg[n].ino = r.leg[n].ino /\ m.leg[n].rec.present
                   /\ m.leg[n].rec.unlinked = r.leg[n].rec.unlinked
                   /\ r.leg[n].rec.superseded => m.leg[n].rec.superseded
                   /\ m.leg[n].rec.handles = IF st.legacy /\ n = p THEN r.leg[n].rec.handles \ H
                                             ELSE r.leg[n].rec.handles
                   /\ st.legacy /\ n = p /\ Found(r, st, FALSE) => m.leg[n].rec.superseded
        <5>1. CASE n = p
          <6>1. m.leg[n].rec = new /\ r.leg[n].rec = old
            BY <4>1, <5>1
          <6>2. QED
            BY <3>4, <3>6, <4>1, <5>1, <6>1
        <5>2. CASE n # p
          <6>1. m.leg[n].rec = r.leg[n].rec /\ r.leg[n].rec.present
            BY <4>1, <5>2 DEF Sound, Bucket
          <6>2. QED
            BY <4>1, <5>2, <6>1
        <5>3. QED
          BY <5>1, <5>2
      <4>3. Sound(m)
        <5>1. \A x \in Gens : m.gen[x].present \/ m.gen[x] = r.gen[x]
          BY <4>1
        <5>2. \A n \in DOMAIN r.leg :
                  /\ m.leg[n].ino = r.leg[n].ino /\ m.leg[n].rec.present
                  /\ m.leg[n].rec.handles \subseteq r.leg[n].rec.handles
                  /\ m.leg[n].rec.unlinked = r.leg[n].rec.unlinked
          BY <4>2
        <5>3. DOMAIN m.leg = DOMAIN r.leg
          BY <4>1
        <5>4. QED
          BY <3>4, <5>1, <5>2, <5>3, ShrunkSound
      <4>4. QED
        BY <3>4, <3>6, <4>1, <4>2, <4>3
    <3>7. QED
      BY <3>5, <3>6
  <2>3. QED
    BY <2>1, <2>2
<1> DEFINE hh == m.gen[g].handles \cup H
           rec == [m.gen[g] EXCEPT !.present = TRUE, !.handles = hh]
<1>3. q = [m EXCEPT !.gen[g] = rec]
  BY DEF HandedOver
<1> HIDE DEF m, q
<1>4. hh = H
  BY <1>2, NoRecordType
<1> HIDE DEF hh
<1>5. /\ rec \in Records /\ rec.present /\ rec.handles = H /\ rec.gc = "none"
      /\ ~rec.alias /\ ~rec.unlinked /\ ~rec.superseded
  BY <1>2, <1>4, NoRecordType DEF Records
<1> HIDE DEF rec
<1>6. /\ q \in Registries /\ q.leg = m.leg
      /\ \A x \in Gens : q.gen[x] = IF x = g THEN rec ELSE m.gen[x]
  BY <1>2, <1>3, <1>5, GenReplaced
<1>7. Sound(q)
  <2>1. \A x \in Gens : q.gen[x].present \/ q.gen[x] = m.gen[x]
    BY <1>5, <1>6
  <2>2. \A n \in DOMAIN m.leg :
            /\ q.leg[n].ino = m.leg[n].ino /\ q.leg[n].rec.present
            /\ q.leg[n].rec.handles \subseteq m.leg[n].rec.handles
            /\ q.leg[n].rec.unlinked = m.leg[n].rec.unlinked
    BY <1>2, <1>6 DEF Sound, Bucket
  <2>3. QED
    BY <1>2, <1>6, <2>1, <2>2, ShrunkSound
<1>8. \A x \in Gens : x = g \/ q.gen[x] = m.gen[x]
  BY <1>6
<1>9. /\ q.gen[g].present /\ q.gen[g].handles = H /\ q.gen[g].gc = "none"
      /\ ~q.gen[g].alias /\ ~q.gen[g].unlinked
  BY <1>5, <1>6
<1>10. p = First(LegacyAt(r, st.ino, FALSE))
  OBVIOUS
<1> HIDE DEF p
<1>11. ASSUME NEW x \in Gens \ {g}
       PROVE  /\ q.gen[x].present = r.gen[x].present /\ q.gen[x].gc = r.gen[x].gc
              /\ q.gen[x].alias = r.gen[x].alias /\ q.gen[x].unlinked = r.gen[x].unlinked
              /\ r.gen[x].superseded => q.gen[x].superseded
              /\ q.gen[x].handles = IF ~st.legacy /\ x = st.ino THEN r.gen[x].handles \ H
                                    ELSE r.gen[x].handles
              /\ ~st.legacy /\ x = st.ino /\ Found(r, st, FALSE) => q.gen[x].superseded
  <2>1. q.gen[x] = m.gen[x]
    BY <1>8
  <2>2. /\ m.gen[x].present = r.gen[x].present /\ m.gen[x].gc = r.gen[x].gc
        /\ m.gen[x].alias = r.gen[x].alias /\ m.gen[x].unlinked = r.gen[x].unlinked
        /\ r.gen[x].superseded => m.gen[x].superseded
        /\ m.gen[x].handles = IF ~st.legacy /\ x = st.ino THEN r.gen[x].handles \ H
                              ELSE r.gen[x].handles
        /\ ~st.legacy /\ x = st.ino /\ Found(r, st, FALSE) => m.gen[x].superseded
    BY <1>2, Zenon
  <2>3. QED
    BY <2>1, <2>2
<1>12. ASSUME NEW n \in DOMAIN r.leg
       PROVE  /\ q.leg[n].ino = r.leg[n].ino /\ q.leg[n].rec.unlinked = r.leg[n].rec.unlinked
              /\ r.leg[n].rec.superseded => q.leg[n].rec.superseded
              /\ q.leg[n].rec.handles = IF st.legacy /\ n = p THEN r.leg[n].rec.handles \ H
                                        ELSE r.leg[n].rec.handles
              /\ st.legacy /\ n = p /\ Found(r, st, FALSE) => q.leg[n].rec.superseded
  <2>1. q.leg[n] = m.leg[n]
    BY <1>6
  <2>2. /\ m.leg[n].ino = r.leg[n].ino /\ m.leg[n].rec.unlinked = r.leg[n].rec.unlinked
        /\ r.leg[n].rec.superseded => m.leg[n].rec.superseded
        /\ m.leg[n].rec.handles = IF st.legacy /\ n = p THEN r.leg[n].rec.handles \ H
                                  ELSE r.leg[n].rec.handles
        /\ st.legacy /\ n = p /\ Found(r, st, FALSE) => m.leg[n].rec.superseded
    BY <1>2, Zenon
  <2>3. QED
    BY <2>1, <2>2
<1>13. DOMAIN q.leg = DOMAIN r.leg
  BY <1>2, <1>6
<1>14. HandsOver(r, q, st, g, H)
  BY <1>7, <1>9, <1>10, <1>11, <1>12, <1>13 DEF HandsOver
<1>15. QED
  BY <1>14 DEF q

\* What a handoff of the handles H from st to generation g does to a handle.
Moves(r, q, st, g, H, h, s, N) ==
    /\ h \notin H => \A t, M : SameStorage(s, t) /\ (t.data \in M => t.data \in N)
                               => Attached(q, t, h, M)
    /\ h \notin H /\ (Refused(r, h) \/ h \in Find(r, st).handles) => Refused(q, h)
    /\ h \in H => \A t, M : t.open /\ ~t.legacy /\ t.data = g => Attached(q, t, h, M)

\* A handoff leaves every handle on the record of its storage.
LEMMA HandedOverSound ==
    ASSUME NEW r, Sound(r), NEW st, Proper(st), NEW g \in Gens, r.gen[g] = NoRecord,
           ~st.legacy => st.ino # g, NEW H \in SUBSET Handles,
           NEW q, HandsOver(r, q, st, g, H),
           NEW h \in Handles, NEW s, NEW N, Attached(r, s, h, N),
           h \in H => h \in Find(r, st).handles
    PROVE  Moves(r, q, st, g, H, h, s, N)
<1> DEFINE p == First(LegacyAt(r, st.ino, FALSE))
<1>0. r \in Registries
  BY DEF Sound
<1>1. q.gen[g].handles = H /\ r.gen[g].handles = {}
  BY NoRecordType DEF HandsOver
<1>2. \A x \in Gens \ {g} :
        /\ r.gen[x].superseded => q.gen[x].superseded
        /\ q.gen[x].handles = IF ~st.legacy /\ x = st.ino THEN r.gen[x].handles \ H
                              ELSE r.gen[x].handles
        /\ ~st.legacy /\ x = st.ino /\ Found(r, st, FALSE) => q.gen[x].superseded
  BY Zenon DEF HandsOver
<1>3. DOMAIN q.leg = DOMAIN r.leg
  BY DEF HandsOver
<1>4. \A n \in DOMAIN r.leg :
        /\ q.leg[n].ino = r.leg[n].ino /\ q.leg[n].rec.unlinked = r.leg[n].rec.unlinked
        /\ r.leg[n].rec.superseded => q.leg[n].rec.superseded
        /\ q.leg[n].rec.handles = IF st.legacy /\ n = p THEN r.leg[n].rec.handles \ H
                                  ELSE r.leg[n].rec.handles
        /\ st.legacy /\ n = p /\ Found(r, st, FALSE) => q.leg[n].rec.superseded
  BY Zenon DEF HandsOver
<1>5. h \in Find(r, st).handles => Found(r, st, FALSE)
  BY NoRecordType DEF Find, RecordOf
<1>6. h \in Find(r, st).handles =>
        IF st.legacy THEN p \in DOMAIN r.leg /\ h \in r.leg[p].rec.handles
        ELSE h \in r.gen[st.ino].handles
  <2>1. CASE ~st.legacy
    BY <1>5, <2>1 DEF Find, RecordOf
  <2>2. CASE st.legacy
    <3>1. Found(r, st, FALSE) => p \in DOMAIN r.leg
      BY <1>0, <2>2, FirstFound DEF Found
    <3>2. QED
      BY <1>5, <2>2, <3>1 DEF Find, RecordOf
  <2>3. QED
    BY <2>1, <2>2
<1> HIDE DEF p
<1>7. ASSUME h \notin H, NEW t, NEW M, SameStorage(s, t), t.data \in M => t.data \in N
      PROVE  Attached(q, t, h, M)
  <2>1. \A x \in Gens : h \in q.gen[x].handles <=> h \in r.gen[x].handles
    BY <1>1, <1>2, <1>7
  <2>2. \A n \in DOMAIN r.leg : h \in q.leg[n].rec.handles <=> h \in r.leg[n].rec.handles
    BY <1>4, <1>7
  <2>3. \A i : Linked(r, i) => Linked(q, i)
    BY <1>3, <1>4 DEF Linked
  <2>4. \A n \in DOMAIN r.leg : q.leg[n].ino = r.leg[n].ino
    BY <1>4
  <2>5. QED
    BY <1>3, <1>7, <2>1, <2>2, <2>3, <2>4 DEF Attached, SameStorage
<1>8. ASSUME h \notin H, Refused(r, h) \/ h \in Find(r, st).handles
      PROVE  Refused(q, h)
  <2>1. ASSUME NEW x \in Gens, Holds(r.gen[x], h), r.gen[x].superseded
        PROVE  Refused(q, h)
    <3>1. x # g
      BY <1>1, <2>1 DEF Holds
    <3>2. h \in q.gen[x].handles /\ q.gen[x].superseded
      BY <1>2, <1>8, <2>1, <3>1 DEF Holds
    <3>3. QED
      BY <3>2 DEF Refused, Holds
  <2>2. ASSUME NEW n \in DOMAIN r.leg, Holds(r.leg[n].rec, h), r.leg[n].rec.superseded
        PROVE  Refused(q, h)
    <3>1. h \in q.leg[n].rec.handles /\ q.leg[n].rec.superseded
      BY <1>4, <1>8, <2>2 DEF Holds
    <3>2. QED
      BY <1>3, <3>1 DEF Refused, Holds
  <2>3. ASSUME h \in Find(r, st).handles
        PROVE  Refused(q, h)
    <3>1. CASE ~st.legacy
      <4>1. st.ino \in Gens \ {g} /\ h \in r.gen[st.ino].handles
        BY <1>6, <2>3, <3>1 DEF Proper
      <4>2. h \in q.gen[st.ino].handles /\ q.gen[st.ino].superseded
        BY <1>2, <1>5, <1>8, <2>3, <3>1, <4>1
      <4>3. QED
        BY <4>1, <4>2 DEF Refused, Holds
    <3>2. CASE st.legacy
      <4>1. p \in DOMAIN r.leg /\ h \in r.leg[p].rec.handles
        BY <1>6, <2>3, <3>2
      <4>2. h \in q.leg[p].rec.handles /\ q.leg[p].rec.superseded
        BY <1>4, <1>5, <1>8, <2>3, <3>2, <4>1
      <4>3. QED
        BY <1>3, <4>1, <4>2 DEF Refused, Holds
    <3>3. QED
      BY <3>1, <3>2
  <2>4. QED
    BY <1>8, <2>1, <2>2, <2>3 DEF Refused
<1>9. ASSUME h \in H, NEW t, NEW M, t.open, ~t.legacy, t.data = g
      PROVE  Attached(q, t, h, M)
  <2>1. \A x \in Gens \ {g} : h \notin q.gen[x].handles
    <3> SUFFICES ASSUME NEW x \in Gens \ {g}, h \in q.gen[x].handles
                 PROVE  FALSE
      OBVIOUS
    <3>1. h \in r.gen[x].handles /\ (st.legacy \/ x # st.ino)
      BY <1>2, <1>9
    <3>2. s.open /\ ~s.legacy /\ s.data = x
      BY <3>1 DEF Attached
    <3>3. CASE ~st.legacy
      <4>1. h \in r.gen[st.ino].handles /\ st.ino \in Gens
        BY <1>6, <1>9, <3>3 DEF Proper
      <4>2. s.data = st.ino
        BY <4>1 DEF Attached
      <4>3. QED
        BY <3>1, <3>2, <3>3, <4>2
    <3>4. CASE st.legacy
      <4>1. p \in DOMAIN r.leg /\ h \in r.leg[p].rec.handles
        BY <1>6, <1>9, <3>4
      <4>2. s.legacy
        BY <4>1 DEF Attached
      <4>3. QED
        BY <3>2, <4>2
    <3>5. QED
      BY <3>3, <3>4
  <2>2. \A n \in DOMAIN q.leg : h \notin q.leg[n].rec.handles
    <3> SUFFICES ASSUME NEW n \in DOMAIN r.leg, h \in q.leg[n].rec.handles
                 PROVE  FALSE
      BY <1>3
    <3>1. h \in r.leg[n].rec.handles /\ ~(st.legacy /\ n = p)
      BY <1>4, <1>9
    <3>2. s.open /\ s.legacy /\ s.data = r.leg[n].ino
      BY <3>1 DEF Attached
    <3>3. CASE ~st.legacy
      <4>1. h \in r.gen[st.ino].handles /\ st.ino \in Gens
        BY <1>6, <1>9, <3>3 DEF Proper
      <4>2. ~s.legacy
        BY <4>1 DEF Attached
      <4>3. QED
        BY <3>2, <4>2
    <3>4. CASE st.legacy
      <4>1. p \in DOMAIN r.leg /\ h \in r.leg[p].rec.handles
        BY <1>6, <1>9, <3>4
      <4>2. r.leg[p].ino = s.data
        BY <4>1 DEF Attached
      <4>3. ~(p < n) /\ ~(n < p)
        BY <3>1, <3>2, <4>1, <4>2 DEF Sound, Bucket
      <4>4. p \in 1 .. Len(r.leg) /\ n \in 1 .. Len(r.leg) /\ Len(r.leg) \in Nat
        BY <1>0, <4>1, RegistryType
      <4>5. QED
        BY <3>1, <3>4, <4>3, <4>4
    <3>5. QED
      BY <3>3, <3>4
  <2>3. h \in q.gen[g].handles
    BY <1>1, <1>9
  <2>4. QED
    BY <1>9, <2>1, <2>2, <2>3 DEF Attached
<1>10. QED
  BY <1>7, <1>8, <1>9 DEF Moves

\* The registry after a handle was added to the record of its storage.
LEMMA RegisterSound ==
    ASSUME NEW r, Sound(r), NEW st, Proper(st), NEW h \in Handles, CanGet(r, st, TRUE),
           st.legacy => Linked(r, st.ino) \/ Unheld(r, st.ino),
           NEW s, NEW N, Attached(r, s, h, N), ~s.open
    PROVE  Registers(r, Register(r, st, h), st, h)
<1> DEFINE old == Get(r, st, TRUE)
           hh == old.handles \cup {h}
           new == [old EXCEPT !.handles = hh]
           q == Register(r, st, h)
           S == LegacyAt(r, st.ino, TRUE)
           p == First(S)
<1>0. r \in Registries
  BY DEF Sound
<1>1. /\ old \in Records /\ old.present /\ RecordOf(r, st, TRUE) \in Records
      /\ old.handles = RecordOf(r, st, TRUE).handles
      /\ old.superseded = RecordOf(r, st, TRUE).superseded
      /\ old.gc = RecordOf(r, st, TRUE).gc /\ old.alias = RecordOf(r, st, TRUE).alias
      /\ old.unlinked = RecordOf(r, st, TRUE).unlinked
      /\ ~st.legacy => RecordOf(r, st, TRUE) = r.gen[st.ino]
  BY GetType, ZenonT(30)
<1>2. q = WithRecord(r, st, TRUE, new)
  BY DEF Register
<1> HIDE DEF old
<1>3. hh \subseteq Handles
  BY <1>1 DEF Records
<1>4. hh = old.handles \cup {h}
  OBVIOUS
<1> HIDE DEF hh
<1>5. /\ new \in Records /\ new.present /\ new.handles = hh
      /\ new.superseded = old.superseded /\ new.unlinked = old.unlinked
      /\ new.gc = old.gc /\ new.alias = old.alias
  BY <1>1, <1>3 DEF Records
<1> HIDE DEF new
<1>6. /\ \A g \in Gens : h \notin r.gen[g].handles
      /\ \A n \in DOMAIN r.leg : h \notin r.leg[n].rec.handles
  BY DEF Attached
<1>7. CASE ~st.legacy
  <2>1. q = [r EXCEPT !.gen[st.ino] = new] /\ st.ino \in Gens
    BY <1>2, <1>7 DEF WithRecord, Proper
  <2> HIDE DEF q
  <2>2. /\ q \in Registries /\ q.leg = r.leg
        /\ \A x \in Gens : q.gen[x] = IF x = st.ino THEN new ELSE r.gen[x]
    BY <1>0, <1>5, <2>1, GenReplaced
  <2>3. Sound(q)
    <3>1. \A g \in Gens : q.gen[g].present \/ q.gen[g] = r.gen[g]
      BY <1>5, <2>2
    <3>2. QED
      BY <2>2, <3>1 DEF Sound, Bucket
  <2>4. \A t, M : t.open /\ t.legacy = st.legacy /\ t.data = st.ino => Attached(q, t, h, M)
    <3> SUFFICES ASSUME NEW t, NEW M, t.open, ~t.legacy, t.data = st.ino
                 PROVE  Attached(q, t, h, M)
      BY <1>7
    <3>1. \A g \in Gens : h \in q.gen[g].handles <=> g = st.ino
      BY <1>4, <1>5, <1>6, <2>2
    <3>2. QED
      BY <1>6, <2>2, <3>1 DEF Attached
  <2>5. ASSUME NEW x \in Handles \ {h}
        PROVE  /\ \A u, v, L, M : Attached(r, u, x, L) /\ SameStorage(u, v)
                                  /\ (v.data \in M => v.data \in L) => Attached(q, v, x, M)
               /\ Refused(r, x) => Refused(q, x)
    <3>1. \A g \in Gens : /\ x \in q.gen[g].handles <=> x \in r.gen[g].handles
                          /\ q.gen[g].superseded = r.gen[g].superseded
      BY <1>1, <1>4, <1>5, <1>7, <2>2
    <3>2. \A u, v, L, M : Attached(r, u, x, L) /\ SameStorage(u, v)
                          /\ (v.data \in M => v.data \in L) => Attached(q, v, x, M)
      BY <2>2, <3>1 DEF Attached, SameStorage, Linked
    <3>3. Refused(r, x) => Refused(q, x)
      BY <2>2, <3>1 DEF Refused, Holds
    <3>4. QED
      BY <3>2, <3>3
  <2>6. \A g \in Gens : /\ q.gen[g].gc = r.gen[g].gc /\ q.gen[g].alias = r.gen[g].alias
                        /\ q.gen[g].unlinked = r.gen[g].unlinked
                        /\ q.gen[g] = r.gen[g] \/ (~st.legacy /\ g = st.ino)
    BY <1>1, <1>5, <1>7, <2>2
  <2>7. Registers(r, q, st, h)
    BY <2>3, <2>4, <2>5, <2>6 DEF Registers
  <2>8. QED
    BY <2>7 DEF q
<1>8. CASE st.legacy /\ S # {}
  <2>1. /\ p \in DOMAIN r.leg /\ r.leg[p].ino = st.ino /\ ~r.leg[p].rec.unlinked
    BY <1>0, <1>8, FirstFound
  <2>2. q = [r EXCEPT !.leg[p].rec = new] /\ RecordOf(r, st, TRUE) = r.leg[p].rec
    BY <1>2, <1>8 DEF WithRecord, RecordOf, Found
  <2> HIDE DEF q, p, S
  <2>3. /\ q \in Registries /\ q.gen = r.gen /\ DOMAIN q.leg = DOMAIN r.leg
        /\ \A n \in DOMAIN r.leg :
              /\ q.leg[n].ino = r.leg[n].ino
              /\ q.leg[n].rec = IF n = p THEN new ELSE r.leg[n].rec
    BY <1>0, <1>5, <2>1, <2>2, LegReplaced
  <2>4. ASSUME NEW n \in DOMAIN r.leg
        PROVE  /\ q.leg[n].rec.present /\ q.leg[n].rec.unlinked = r.leg[n].rec.unlinked
               /\ q.leg[n].rec.superseded = r.leg[n].rec.superseded
               /\ \A x : x \in q.leg[n].rec.handles <=>
                            x \in r.leg[n].rec.handles \/ (n = p /\ x = h)
    <3>1. CASE n = p
      BY <1>1, <1>4, <1>5, <2>2, <2>3, <3>1, ZenonT(30)
    <3>2. CASE n # p
      BY <2>3, <3>2 DEF Sound, Bucket
    <3>3. QED
      BY <3>1, <3>2
  <2>5. Bucket(q)
    <3>1. ASSUME NEW m \in DOMAIN q.leg, NEW n \in DOMAIN q.leg, m < n,
                 q.leg[m].ino = q.leg[n].ino
          PROVE  q.leg[n].rec.unlinked /\ q.leg[n].rec.handles = {}
      <4>1. r.leg[n].rec.unlinked /\ r.leg[n].rec.handles = {}
        BY <2>3, <3>1 DEF Sound, Bucket
      <4>2. n # p
        BY <2>1, <4>1
      <4>3. QED
        BY <2>3, <4>1, <4>2
    <3>2. QED
      BY <2>3, <2>4, <3>1 DEF Sound, Bucket
  <2>6. \A i : Linked(r, i) => Linked(q, i)
    BY <2>3, <2>4 DEF Linked
  <2>7. \A t, M : t.open /\ t.legacy = st.legacy /\ t.data = st.ino => Attached(q, t, h, M)
    <3> SUFFICES ASSUME NEW t, NEW M, t.open, t.legacy, t.data = st.ino
                 PROVE  Attached(q, t, h, M)
      BY <1>8
    <3>1. \A n \in DOMAIN q.leg : h \in q.leg[n].rec.handles <=> n = p
      BY <1>6, <2>3, <2>4
    <3>2. Linked(q, st.ino)
      BY <2>1, <2>3, <2>4 DEF Linked
    <3>3. \A g \in Gens : h \notin q.gen[g].handles
      BY <1>6, <2>3
    <3>4. QED
      BY <2>1, <2>3, <3>1, <3>2, <3>3 DEF Attached
  <2>8. ASSUME NEW x \in Handles \ {h}
        PROVE  /\ \A u, v, L, M : Attached(r, u, x, L) /\ SameStorage(u, v)
                                  /\ (v.data \in M => v.data \in L) => Attached(q, v, x, M)
               /\ Refused(r, x) => Refused(q, x)
    <3>1. \A n \in DOMAIN r.leg : /\ x \in q.leg[n].rec.handles <=> x \in r.leg[n].rec.handles
                                  /\ q.leg[n].rec.superseded = r.leg[n].rec.superseded
      BY <2>4
    <3>2. \A u, v, L, M : Attached(r, u, x, L) /\ SameStorage(u, v)
                          /\ (v.data \in M => v.data \in L) => Attached(q, v, x, M)
      BY <2>3, <2>6, <3>1 DEF Attached, SameStorage
    <3>3. Refused(r, x) => Refused(q, x)
      BY <2>3, <3>1 DEF Refused, Holds
    <3>4. QED
      BY <3>2, <3>3
  <2>9. Registers(r, q, st, h)
    BY <2>3, <2>5, <2>7, <2>8 DEF Sound, Registers
  <2>10. QED
    BY <2>9 DEF q
<1>9. CASE st.legacy /\ S = {}
  <2>1. /\ Len(r.leg) < MaxLegacy /\ RecordOf(r, st, TRUE) = NoRecord
        /\ q = Inserted(r, st.ino, new)
    BY <1>2, <1>9 DEF Found, CanGet, WithRecord, RecordOf, Inserted
  <2>2. st.ino \in Names /\ Unheld(r, st.ino)
    <3>1. ~Linked(r, st.ino)
      BY <1>9 DEF Linked, LegacyAt
    <3>2. QED
      BY <1>9, <3>1 DEF Proper, Storages
  <2> HIDE DEF q
  <2>3. /\ q \in Registries /\ q.gen = r.gen
        /\ DOMAIN q.leg = 1 .. (Len(r.leg) + 1)
        /\ q.leg[1].ino = st.ino /\ q.leg[1].rec = new
        /\ \A n \in DOMAIN r.leg : n + 1 \in DOMAIN q.leg /\ q.leg[n + 1] = r.leg[n]
    BY <1>0, <1>5, <2>1, <2>2, LegInserted
  <2>4. hh = {h} /\ ~new.unlinked
    BY <1>1, <1>4, <1>5, <2>1, NoRecordType
  <2>5. DOMAIN r.leg = 1 .. Len(r.leg) /\ Len(r.leg) \in Nat
    BY <1>0, RegistryType
  <2>6. \A n \in DOMAIN q.leg : n = 1 \/ (n - 1 \in DOMAIN r.leg /\ q.leg[n] = r.leg[n - 1])
    <3> SUFFICES ASSUME NEW n \in DOMAIN q.leg, n # 1
                 PROVE  n - 1 \in DOMAIN r.leg /\ q.leg[n] = r.leg[n - 1]
      OBVIOUS
    <3>1. n - 1 \in DOMAIN r.leg /\ (n - 1) + 1 = n
      BY <2>3, <2>5
    <3>2. QED
      BY <2>3, <3>1
  <2>7. \A n \in DOMAIN r.leg : r.leg[n].ino = st.ino => r.leg[n].rec.unlinked
    BY <1>9 DEF LegacyAt
  <2>8. Bucket(q)
    <3>1. \A g \in Gens : ~q.gen[g].present => q.gen[g] = NoRecord
      BY <2>3 DEF Sound, Bucket
    <3>2. \A n \in DOMAIN q.leg : q.leg[n].rec.present
      BY <1>5, <2>3, <2>6 DEF Sound, Bucket
    <3>3. ASSUME NEW m \in DOMAIN q.leg, NEW n \in DOMAIN q.leg, m < n,
                 q.leg[m].ino = q.leg[n].ino
          PROVE  q.leg[n].rec.unlinked /\ q.leg[n].rec.handles = {}
      <4>1. n # 1 /\ n - 1 \in DOMAIN r.leg /\ q.leg[n] = r.leg[n - 1]
        BY <2>3, <2>5, <2>6, <3>3
      <4>2. CASE m = 1
        BY <2>2, <2>3, <2>7, <3>3, <4>1, <4>2 DEF Unheld
      <4>3. CASE m # 1
        <5>1. m - 1 \in DOMAIN r.leg /\ q.leg[m] = r.leg[m - 1] /\ m - 1 < n - 1
          BY <2>3, <2>5, <2>6, <3>3, <4>3, SMTT(30)
        <5>2. QED
          BY <3>3, <4>1, <5>1 DEF Sound, Bucket
      <4>4. QED
        BY <4>2, <4>3
    <3>4. QED
      BY <3>1, <3>2, <3>3 DEF Bucket
  <2>9. 1 \in DOMAIN q.leg
    BY <2>3, <2>5
  <2>10. \A t, M : t.open /\ t.legacy = st.legacy /\ t.data = st.ino => Attached(q, t, h, M)
    <3> SUFFICES ASSUME NEW t, NEW M, t.open, t.legacy, t.data = st.ino
                 PROVE  Attached(q, t, h, M)
      BY <1>9
    <3>1. \A n \in DOMAIN q.leg : h \in q.leg[n].rec.handles => n = 1
      BY <1>6, <2>6
    <3>2. Linked(q, st.ino)
      BY <2>3, <2>4, <2>9 DEF Linked
    <3>3. \A g \in Gens : h \notin q.gen[g].handles
      BY <1>6, <2>3
    <3>4. h \in q.leg[1].rec.handles
      BY <1>5, <2>3, <2>4
    <3>5. QED
      BY <2>3, <2>9, <3>1, <3>2, <3>3, <3>4 DEF Attached
  <2>11. ASSUME NEW x \in Handles \ {h}
        PROVE  /\ \A u, v, L, M : Attached(r, u, x, L) /\ SameStorage(u, v)
                                  /\ (v.data \in M => v.data \in L) => Attached(q, v, x, M)
               /\ Refused(r, x) => Refused(q, x)
    <3>1. \A n \in DOMAIN r.leg : \E m \in DOMAIN q.leg : q.leg[m] = r.leg[n]
      BY <2>3
    <3>2. \A m \in DOMAIN q.leg : x \in q.leg[m].rec.handles =>
              \E n \in DOMAIN r.leg : q.leg[m] = r.leg[n]
      BY <1>5, <2>3, <2>4, <2>6
    <3>3. \A i : Linked(r, i) => Linked(q, i)
      BY <3>1 DEF Linked
    <3>4. ASSUME NEW u, NEW v, NEW L, NEW M, Attached(r, u, x, L), SameStorage(u, v),
                 v.data \in M => v.data \in L
          PROVE  Attached(q, v, x, M)
      <4>1. \A g \in Gens : x \in q.gen[g].handles <=> v.open /\ ~v.legacy /\ v.data = g
        BY <2>3, <3>4 DEF Attached, SameStorage
      <4>2. \A m \in DOMAIN q.leg : x \in q.leg[m].rec.handles =>
                v.open /\ v.legacy /\ v.data = q.leg[m].ino
        BY <3>2, <3>4 DEF Attached, SameStorage
      <4>3. v.open /\ v.legacy => /\ \E m \in DOMAIN q.leg : x \in q.leg[m].rec.handles
                                  /\ v.data \in M => Linked(q, v.data)
        BY <3>1, <3>3, <3>4 DEF Attached, SameStorage
      <4>4. QED
        BY <4>1, <4>2, <4>3 DEF Attached
    <3>5. Refused(r, x) => Refused(q, x)
      BY <2>3, <3>1 DEF Refused, Holds
    <3>6. QED
      BY <3>4, <3>5
  <2>12. Registers(r, q, st, h)
    BY <2>3, <2>8, <2>10, <2>11, <1>9 DEF Sound, Registers
  <2>13. QED
    BY <2>12 DEF q
<1>10. QED
  BY <1>7, <1>8, <1>9

\* The registry after a handle left its record.
LEMMA UnregisterSound ==
    ASSUME NEW r, Sound(r), NEW h \in Handles
    PROVE  Unregisters(r, Unregister(r, h), h)
<1> DEFINE drop(rec) == [rec EXCEPT !.handles = @ \ {h}]
           G == [g \in Gens |-> drop(r.gen[g])]
           L == [n \in DOMAIN r.leg |-> [r.leg[n] EXCEPT !.rec = drop(@)]]
           q == Unregister(r, h)
<1>1. r \in Registries
  BY DEF Sound
<1>2. ASSUME NEW a \in Records
      PROVE  /\ drop(a) \in Records /\ drop(a).handles = a.handles \ {h}
             /\ drop(a).present = a.present /\ drop(a).superseded = a.superseded
             /\ drop(a).gc = a.gc /\ drop(a).alias = a.alias /\ drop(a).unlinked = a.unlinked
             /\ a.handles = {} => drop(a) = a
  BY DEF Records
<1>3. q = [gen |-> G, leg |-> L]
  BY DEF Unregister
<1>4. /\ r.gen \in [Gens -> Records] /\ Len(r.leg) <= MaxLegacy
      /\ \A n \in DOMAIN r.leg : r.leg[n] \in LegacyRecords /\ r.leg[n].rec \in Records
  BY <1>1, RegistryType
<1>5. G \in [Gens -> Records]
  BY <1>2, <1>4
<1>6. \A n \in DOMAIN r.leg : /\ L[n] \in LegacyRecords /\ L[n].ino = r.leg[n].ino
                              /\ L[n].rec = drop(r.leg[n].rec)
  BY <1>2, <1>4 DEF LegacyRecords
<1>7. DOMAIN L = DOMAIN r.leg /\ L = [n \in DOMAIN r.leg |-> L[n]]
  OBVIOUS
<1>8. \A g \in Gens : G[g] = drop(r.gen[g])
  OBVIOUS
<1> HIDE DEF G, L, drop
<1>9. L \in Seq(LegacyRecords) /\ Len(L) = Len(r.leg)
  BY <1>1, <1>6, <1>7, BucketOf
<1>10. q \in Registries /\ q.gen = G /\ q.leg = L /\ DOMAIN q.leg = DOMAIN r.leg
  BY <1>3, <1>4, <1>5, <1>7, <1>9, RegistryOf
<1> HIDE DEF q
<1>11. \A g \in Gens :
         /\ q.gen[g].handles = r.gen[g].handles \ {h}
         /\ q.gen[g].present = r.gen[g].present /\ q.gen[g].gc = r.gen[g].gc
         /\ q.gen[g].superseded = r.gen[g].superseded
         /\ q.gen[g].alias = r.gen[g].alias /\ q.gen[g].unlinked = r.gen[g].unlinked
         /\ r.gen[g].handles = {} => q.gen[g] = r.gen[g]
  <2> SUFFICES ASSUME NEW g \in Gens
               PROVE  /\ q.gen[g].handles = r.gen[g].handles \ {h}
                      /\ q.gen[g].present = r.gen[g].present /\ q.gen[g].gc = r.gen[g].gc
                      /\ q.gen[g].superseded = r.gen[g].superseded
                      /\ q.gen[g].alias = r.gen[g].alias
                      /\ q.gen[g].unlinked = r.gen[g].unlinked
                      /\ r.gen[g].handles = {} => q.gen[g] = r.gen[g]
    OBVIOUS
  <2>1. r.gen[g] \in Records /\ q.gen[g] = drop(r.gen[g])
    BY <1>4, <1>8, <1>10
  <2>2. QED
    BY <1>2, <2>1
<1>12. \A n \in DOMAIN r.leg :
         /\ q.leg[n].ino = r.leg[n].ino /\ q.leg[n].rec.handles = r.leg[n].rec.handles \ {h}
         /\ q.leg[n].rec.present /\ q.leg[n].rec.unlinked = r.leg[n].rec.unlinked
         /\ q.leg[n].rec.superseded = r.leg[n].rec.superseded
  <2> SUFFICES ASSUME NEW n \in DOMAIN r.leg
               PROVE  /\ q.leg[n].ino = r.leg[n].ino
                      /\ q.leg[n].rec.handles = r.leg[n].rec.handles \ {h}
                      /\ q.leg[n].rec.present /\ q.leg[n].rec.unlinked = r.leg[n].rec.unlinked
                      /\ q.leg[n].rec.superseded = r.leg[n].rec.superseded
    OBVIOUS
  <2>1. r.leg[n].rec \in Records /\ q.leg[n].rec = drop(r.leg[n].rec) /\ r.leg[n].rec.present
        /\ q.leg[n].ino = r.leg[n].ino
    BY <1>4, <1>6, <1>10 DEF Sound, Bucket
  <2>2. QED
    BY <1>2, <2>1
<1>13. Sound(q) /\ \A i : Linked(r, i) => Linked(q, i)
  <2>1. \A g \in Gens : q.gen[g].present \/ q.gen[g] = r.gen[g]
    <3> SUFFICES ASSUME NEW g \in Gens, ~r.gen[g].present
                 PROVE  q.gen[g] = r.gen[g]
      BY <1>11
    <3>1. r.gen[g].handles = {}
      BY NoRecordType DEF Sound, Bucket
    <3>2. QED
      BY <1>11, <3>1
  <2>2. \A n \in DOMAIN r.leg :
          /\ q.leg[n].ino = r.leg[n].ino /\ q.leg[n].rec.present
          /\ q.leg[n].rec.handles \subseteq r.leg[n].rec.handles
          /\ q.leg[n].rec.unlinked = r.leg[n].rec.unlinked
    BY <1>12
  <2>3. QED
    BY <1>10, <2>1, <2>2, ShrunkSound
<1>14. \A t, M : ~t.open => Attached(q, t, h, M)
  BY <1>10, <1>11, <1>12 DEF Attached
<1>15. ASSUME NEW x \in Handles \ {h}
       PROVE  /\ \A u, v, K, M : Attached(r, u, x, K) /\ SameStorage(u, v)
                                 /\ (v.data \in M => v.data \in K) => Attached(q, v, x, M)
              /\ Refused(r, x) => Refused(q, x)
  <2>1. \A g \in Gens : /\ x \in q.gen[g].handles <=> x \in r.gen[g].handles
                        /\ q.gen[g].superseded = r.gen[g].superseded
    BY <1>11
  <2>2. \A n \in DOMAIN r.leg : /\ x \in q.leg[n].rec.handles <=> x \in r.leg[n].rec.handles
                                /\ q.leg[n].rec.superseded = r.leg[n].rec.superseded
                                /\ q.leg[n].ino = r.leg[n].ino
    BY <1>12
  <2>3. \A u, v, K, M : Attached(r, u, x, K) /\ SameStorage(u, v)
                        /\ (v.data \in M => v.data \in K) => Attached(q, v, x, M)
    BY <1>10, <1>13, <2>1, <2>2 DEF Attached, SameStorage
  <2>4. Refused(r, x) => Refused(q, x)
    BY <1>10, <2>1, <2>2 DEF Refused, Holds
  <2>5. QED
    BY <2>3, <2>4
<1>16. Unregisters(r, q, h)
  BY <1>11, <1>13, <1>14, <1>15 DEF Unregisters
<1>17. QED
  BY <1>16 DEF q

\* Freeing an unused record that waits for no collection moves no handle.
LEMMA FreedSound ==
    ASSUME NEW r, Sound(r), NEW h \in Handles
    PROVE  LET q == Freed(r, h)
           IN  /\ Sound(q) /\ Retains(r, q) /\ KeepsLinks(r, q)
               /\ \A g \in Gens : q.gen[g] = r.gen[g]
                                  \/ (q.gen[g] = NoRecord /\ r.gen[g].gc = "none"
                                      /\ r.gen[g].handles = {})
<1> DEFINE c(g) == Holds(reg.gen[g], h) /\ Freeable(r.gen[g])
           G == [g \in Gens |-> IF c(g) THEN NoRecord ELSE r.gen[g]]
           a == [gen |-> G, leg |-> r.leg]
           gone == {n \in DOMAIN r.leg : Holds(reg.leg[n].rec, h) /\ Freeable(r.leg[n].rec)}
           q == Freed(r, h)
<1>1. /\ r \in Registries /\ r.gen \in [Gens -> Records] /\ r.leg \in Seq(LegacyRecords)
      /\ Len(r.leg) <= MaxLegacy /\ DOMAIN r.leg = 1 .. Len(r.leg)
  BY RegistryType DEF Sound
<1>2. \A g \in Gens : /\ G[g] = IF c(g) THEN NoRecord ELSE r.gen[g]
                      /\ c(g) => r.gen[g].gc = "none" /\ r.gen[g].handles = {}
  BY DEF Freeable
<1>3. q = [gen |-> G, leg |-> IF gone = {} THEN r.leg ELSE RemoveAt(r.leg, First(gone))]
  BY DEF Freed
<1>4. G \in [Gens -> Records]
  BY <1>1, NoRecordType
<1>5. \A n \in gone : n \in DOMAIN r.leg /\ r.leg[n].rec.handles = {}
  BY DEF Freeable
<1>6. gone \in SUBSET Nat
  BY <1>1
<1>7. a.gen = G /\ a.leg = r.leg
  OBVIOUS
<1> HIDE DEF c, G, gone, q
<1>8. a \in Registries
  BY <1>1, <1>4, RegistryOf
<1> HIDE DEF a
<1>9. Sound(a) /\ Retains(r, a) /\ KeepsLinks(r, a)
  <2>1. Bucket(a)
    BY <1>2, <1>7, NoRecordType DEF Sound, Bucket
  <2>2. Retains(r, a)
    BY <1>2, <1>7, NoRecordType DEF Retains
  <2>3. KeepsLinks(r, a)
    BY <1>7 DEF KeepsLinks, Linked
  <2>4. QED
    BY <1>8, <2>1, <2>2, <2>3 DEF Sound
<1>10. CASE gone = {}
  <2>1. q = a
    BY <1>3, <1>10 DEF a
  <2>2. QED
    BY <1>2, <1>7, <1>9, <2>1 DEF q
<1>11. CASE gone # {}
  <2> DEFINE p == First(gone)
             z == [gen |-> a.gen, leg |-> RemoveAt(a.leg, p)]
  <2>1. p \in gone
    BY <1>6, <1>11, LeastOf
  <2> HIDE DEF p
  <2>2. p \in DOMAIN a.leg /\ a.leg[p].rec.handles = {}
    BY <1>5, <1>7, <2>1
  <2>3. Sound(z) /\ Retains(a, z) /\ KeepsLinks(a, z)
    BY <1>9, <2>2, LegRetired
  <2>4. z.gen = a.gen
    OBVIOUS
  <2>5. q = z
    BY <1>3, <1>7, <1>11 DEF p
  <2> HIDE DEF z
  <2>6. Retains(r, q) /\ KeepsLinks(r, q)
    BY <1>9, <2>3, <2>5, RetainsTwice
  <2>7. QED
    BY <1>2, <1>7, <2>3, <2>4, <2>5, <2>6 DEF q
<1>12. QED
  BY <1>10, <1>11

-----------------------------------------------------------------------------
(* What the groups of system calls do to the directory.                    *)

\* The parts of a directory.
LEMMA DirType ==
    ASSUME NEW d \in Dirs
    PROVE  /\ d.cur \in Gens \cup {None} /\ d.data \in Names /\ d.meta \in Names
           /\ d.gen \in [Gens -> GenStates]
           /\ \A c \in Gens \cup {None} :
                LET e == [d EXCEPT !.cur = c]
                IN  e \in Dirs /\ e.cur = c /\ e.data = d.data /\ e.meta = d.meta /\ e.gen = d.gen
           /\ \A n \in Names :
                LET e == [d EXCEPT !.data = n]
                IN  e \in Dirs /\ e.cur = d.cur /\ e.data = n /\ e.meta = d.meta /\ e.gen = d.gen
           /\ \A n \in Names :
                LET e == [d EXCEPT !.meta = n]
                IN  e \in Dirs /\ e.cur = d.cur /\ e.data = d.data /\ e.meta = n /\ e.gen = d.gen
  BY DEF Dirs

\* The state of one generation directory is replaced.
LEMMA DirGenType ==
    ASSUME NEW d \in Dirs, NEW g \in Gens, NEW x \in GenStates
    PROVE  LET e == [d EXCEPT !.gen[g] = x]
           IN  /\ e \in Dirs /\ e.cur = d.cur /\ e.data = d.data /\ e.meta = d.meta
               /\ \A y \in Gens : e.gen[y] = IF y = g THEN x ELSE d.gen[y]
<1> DEFINE G == [d.gen EXCEPT ![g] = x]
           e == [d EXCEPT !.gen[g] = x]
<1>1. G \in [Gens -> GenStates] /\ \A y \in Gens : G[y] = IF y = g THEN x ELSE d.gen[y]
  BY DirType
<1>2. e = [d EXCEPT !.gen = G]
  OBVIOUS
<1> HIDE DEF G
<1>3. e \in Dirs /\ e.cur = d.cur /\ e.data = d.data /\ e.meta = d.meta /\ e.gen = G
  BY <1>1, <1>2 DEF Dirs
<1>4. QED
  BY <1>1, <1>3

\* The fields of an outcome.
LEMMA OutcomeParts ==
    ASSUME NEW d, NEW s, NEW o
    PROVE  /\ o = Synced(d) => o.dir = d /\ o.disk = d /\ o.ok
           /\ o = Failed(d, s) => o.dir = d /\ o.disk = s /\ ~o.ok
           /\ o = Synced(d) \/ o = Failed(d, s) => o.ok \in BOOLEAN
<1>1. ASSUME o = Synced(d) PROVE o.dir = d /\ o.disk = d /\ o.ok = TRUE
  BY <1>1 DEF Synced
<1>2. ASSUME o = Failed(d, s) PROVE o.dir = d /\ o.disk = s /\ o.ok = FALSE
  BY <1>2 DEF Failed
<1>3. QED
  BY <1>1, <1>2

\* What resolve_storage returns.
LEMMA ResolveType ==
    ASSUME NEW d \in Dirs, NEW st \in Resolve(d)
    PROVE  /\ st \in Storages /\ st.legacy \in BOOLEAN /\ st.ino \in Names
           /\ st.legacy <=> d.cur = None
           /\ st.legacy => st.ino = d.data
           /\ ~st.legacy => st.ino = d.cur /\ d.cur \in Gens /\ d.gen[d.cur] = "ready"
<1>1. d.cur \in Gens \cup {None} /\ d.data \in Names /\ None \notin Gens /\ Gens \subseteq Names
  BY DirType, ConstantsAssumption DEF Inodes, Names
<1>2. CASE d.cur = None
  <2>1. st = [legacy |-> TRUE, ino |-> d.data]
    BY <1>2 DEF Resolve, Legacy
  <2>2. st \in Storages /\ st.legacy = TRUE /\ st.ino = d.data
    BY <1>1, <2>1 DEF Storages
  <2>3. QED
    BY <1>1, <1>2, <2>2
<1>3. CASE d.cur # None
  <2>1. st = [legacy |-> FALSE, ino |-> d.cur]
    BY <1>3 DEF Resolve, Generation
  <2>2. d.gen[d.cur] = "ready"
    BY <1>3 DEF Resolve
  <2>3. d.cur \in Names
    BY <1>1, <1>3
  <2>4. st \in Storages /\ st.legacy = FALSE /\ st.ino = d.cur
    BY <2>1, <2>3 DEF Storages
  <2>5. QED
    BY <1>1, <1>3, <2>2, <2>3, <2>4
<1>4. QED
  BY <1>2, <1>3

\* An outcome that names a generation's files under the path.
Installs(d, s, g, o) ==
    /\ o.dir \in Dirs /\ o.disk \in Dirs /\ o.ok \in BOOLEAN
    /\ o.dir.cur = d.cur /\ o.dir.gen = d.gen /\ o.dir.data \in {d.data, g}
    /\ IF o.ok THEN o.disk = o.dir /\ o.dir.data = g /\ o.dir.meta = g ELSE o.disk = s

\* What install_generation_aliases does to the names, also when it fails.
LEMMA InstallType ==
    ASSUME NEW d \in Dirs, NEW s \in Dirs, NEW g \in Names, NEW o \in InstallAliases(d, s, g)
    PROVE  Installs(d, s, g, o)
<1> DEFINE d1 == [d EXCEPT !.data = g]
           d2 == [d1 EXCEPT !.meta = g]
<1>1. d1 \in Dirs /\ d1.cur = d.cur /\ d1.gen = d.gen /\ d1.data = g
  BY DirType
<1>2. o = Synced(d2) \/ \E x \in {d, d1, d2} : o = Failed(x, s)
  BY DEF InstallAliases
<1> HIDE DEF d1
<1>3. d2 \in Dirs /\ d2.cur = d.cur /\ d2.gen = d.gen /\ d2.data = g /\ d2.meta = g
  BY <1>1, DirType
<1> HIDE DEF d2
<1>4. CASE o = Synced(d2)
  <2>1. o.dir = d2 /\ o.disk = d2 /\ o.ok /\ o.ok \in BOOLEAN
    BY <1>4, OutcomeParts
  <2>2. QED
    BY <1>3, <2>1 DEF Installs
<1>5. ASSUME NEW x \in {d, d1, d2}, o = Failed(x, s) PROVE Installs(d, s, g, o)
  <2>1. o.dir = x /\ o.disk = s /\ ~o.ok /\ o.ok \in BOOLEAN
    BY <1>5, OutcomeParts
  <2>2. x \in Dirs /\ x.cur = d.cur /\ x.gen = d.gen /\ x.data \in {d.data, g}
    BY <1>1, <1>3
  <2>3. QED
    BY <2>1, <2>2 DEF Installs
<1>6. QED
  BY <1>2, <1>4, <1>5

\* An outcome that changes at most the meta name.
Saves(d, s, o) ==
    /\ o.dir \in Dirs /\ o.disk \in Dirs /\ o.ok \in BOOLEAN
    /\ o.dir.cur = d.cur /\ o.dir.gen = d.gen /\ o.dir.data = d.data
    /\ \/ o.disk.cur = s.cur /\ o.disk.gen = s.gen
       \/ o.disk.cur = d.cur /\ o.disk.gen = d.gen
    /\ o.disk.data \in {s.data, d.data}

\* What save_chunk_map_for_storage does to the names: none of them moves but meta.
LEMMA SaveType ==
    ASSUME NEW d \in Dirs, NEW s \in Dirs, NEW st \in Storages, NEW o \in SaveMap(d, s, st)
    PROVE  Saves(d, s, o)
<1>1. st.ino \in Names
  BY DEF Storages
<1>2. CASE st.legacy
  <2> DEFINE d1 == [d EXCEPT !.meta = st.ino]
  <2>1. d1 \in Dirs /\ d1.cur = d.cur /\ d1.gen = d.gen /\ d1.data = d.data
    BY <1>1, DirType
  <2>2. o \in {Synced(d1), Failed(d, s), Failed(d1, s)}
    BY <1>2 DEF SaveMap
  <2> HIDE DEF d1
  <2>3. PICK x \in {d, d1}, y \in {s, d1} : o.dir = x /\ o.disk = y /\ o.ok \in BOOLEAN
    BY <2>2, OutcomeParts
  <2>4. QED
    BY <2>1, <2>3 DEF Saves
<1>3. CASE ~st.legacy
  <2> DEFINE mark(x) == IF x.meta = st.ino THEN Stray ELSE x.meta
             d1 == [d EXCEPT !.meta = IF @ = st.ino THEN Stray ELSE @]
             s1 == [s EXCEPT !.meta = IF @ = st.ino THEN Stray ELSE @]
  <2>1. mark(d) \in Names /\ mark(s) \in Names
    BY DirType DEF Names
  <2>2. d1 = [d EXCEPT !.meta = mark(d)] /\ s1 = [s EXCEPT !.meta = mark(s)]
    OBVIOUS
  <2> HIDE DEF mark
  <2>3. /\ d1 \in Dirs /\ d1.cur = d.cur /\ d1.gen = d.gen /\ d1.data = d.data
        /\ s1 \in Dirs /\ s1.cur = s.cur /\ s1.gen = s.gen /\ s1.data = s.data
    BY <2>1, <2>2, DirType
  <2>4. \/ o \in {Failed(d, s), Failed(d1, s1)}
        \/ d.data = st.ino /\ o \in InstallAliases(d1, s1, st.ino)
        \/ o = [dir |-> d1, disk |-> s1, ok |-> TRUE]
    BY <1>3 DEF SaveMap
  <2> HIDE DEF d1, s1
  <2>5. CASE o \in {Failed(d, s), Failed(d1, s1)}
    <3>1. PICK x \in {d, d1}, y \in {s, s1} : o.dir = x /\ o.disk = y /\ o.ok \in BOOLEAN
      BY <2>5, OutcomeParts
    <3>2. QED
      BY <2>3, <3>1 DEF Saves
  <2>6. CASE d.data = st.ino /\ o \in InstallAliases(d1, s1, st.ino)
    <3>1. Installs(d1, s1, st.ino, o)
      BY <1>1, <2>3, <2>6, InstallType
    <3>2. QED
      BY <2>3, <2>6, <3>1 DEF Saves, Installs
  <2>7. CASE o = [dir |-> d1, disk |-> s1, ok |-> TRUE]
    BY <2>3, <2>7 DEF Saves
  <2>8. QED
    BY <2>4, <2>5, <2>6, <2>7
<1>4. QED
  BY <1>2, <1>3

\* An outcome that removes what there is of generation g.
Removes(d, s, g, o) ==
    /\ o.dir \in Dirs /\ o.disk \in Dirs /\ o.ok \in BOOLEAN
    /\ o.dir.cur = d.cur /\ o.dir.data = d.data /\ o.dir.meta = d.meta
    /\ \A x \in Gens \ {g} : o.dir.gen[x] = d.gen[x]
    /\ o.disk \in {s, o.dir}
    /\ o.ok => o.dir.gen[g] = "absent"

\* What remove_generation_storage does, also when it fails.
LEMMA RemoveType ==
    ASSUME NEW d \in Dirs, NEW s \in Dirs, NEW g \in Gens, NEW o \in RemoveGeneration(d, s, g)
    PROVE  Removes(d, s, g, o)
<1>1. "absent" \in GenStates
  BY DEF GenStates, Rank
<1>2. PICK x \in GenStates : LET e == [d EXCEPT !.gen[g] = x] IN
        \/ x = "absent" /\ o = Synced(e)
        \/ o = Failed(e, s)
        \/ o = Failed(e, e)
  BY <1>1 DEF RemoveGeneration
<1> DEFINE e == [d EXCEPT !.gen[g] = x]
<1>3. /\ e \in Dirs /\ e.cur = d.cur /\ e.data = d.data /\ e.meta = d.meta
      /\ \A y \in Gens : e.gen[y] = IF y = g THEN x ELSE d.gen[y]
  BY DirGenType
<1>4. (x = "absent" /\ o = Synced(e)) \/ o = Failed(e, s) \/ o = Failed(e, e)
  BY <1>2
<1> HIDE DEF e
<1>5. QED
  <2>1. CASE x = "absent" /\ o = Synced(e)
    BY <1>3, <2>1, OutcomeParts DEF Removes
  <2>2. CASE o = Failed(e, s)
    BY <1>3, <2>2, OutcomeParts DEF Removes
  <2>3. CASE o = Failed(e, e)
    BY <1>3, <2>3, OutcomeParts DEF Removes
  <2>4. QED
    BY <1>4, <2>1, <2>2, <2>3

\* An outcome of the publication of generation g.
Publishes(d, s, g, o) ==
    /\ o.dir \in Dirs /\ o.disk \in Dirs /\ o.ok \in BOOLEAN
    /\ o.dir.cur \in {d.cur, g}
    /\ o.dir.data = d.data /\ o.dir.meta = d.meta /\ o.dir.gen = d.gen
    /\ IF o.ok THEN o.dir.cur = g /\ o.disk = o.dir ELSE o.disk \in {s, d}

\* What publish_generation does, also when it fails.
LEMMA PublishType ==
    ASSUME NEW d \in Dirs, NEW s \in Dirs, NEW g \in Gens, NEW o \in Publish(d, s, g)
    PROVE  Publishes(d, s, g, o)
<1> DEFINE d1 == [d EXCEPT !.cur = g]
<1>1. d1 \in Dirs /\ d1.cur = g /\ d1.data = d.data /\ d1.meta = d.meta /\ d1.gen = d.gen
  BY DirType
<1>2. o \in {Synced(d1), Failed(d, s), Failed(d, d), Failed(d1, d)}
  BY DEF Publish
<1> HIDE DEF d1
<1>3. CASE o = Synced(d1)
  <2>1. o.dir = d1 /\ o.disk = d1 /\ o.ok /\ o.ok \in BOOLEAN
    BY <1>3, OutcomeParts
  <2>2. QED
    BY <1>1, <2>1 DEF Publishes
<1>4. CASE o = Failed(d, s) \/ o = Failed(d, d) \/ o = Failed(d1, d)
  <2>1. PICK x \in {d, d1}, y \in {s, d} : o.dir = x /\ o.disk = y /\ ~o.ok /\ o.ok \in BOOLEAN
    BY <1>4, OutcomeParts
  <2>2. QED
    BY <1>1, <2>1 DEF Publishes
<1>5. QED
  BY <1>2, <1>3, <1>4

\* An outcome of the part of a collection that removes the storage v of record rec.
Disposes(v, rec, d, s, o) ==
    /\ o.dir \in Dirs /\ o.disk \in Dirs /\ o.retire \in BOOLEAN /\ o.failed \in BOOLEAN
    /\ o.dir.cur = d.cur /\ o.dir.data = d.data
    /\ o.disk.cur \in {s.cur, d.cur} /\ o.disk.data \in {s.data, d.data}
    /\ \A x \in Gens : v.legacy \/ x # v.ino =>
           o.dir.gen[x] = d.gen[x] /\ o.disk.gen[x] \in {s.gen[x], d.gen[x]}
    /\ rec.handles # {} => o.dir = d /\ o.disk = s /\ ~o.retire
    /\ o.retire /\ ~v.legacy => o.dir.gen[v.ino] = "absent"
    /\ ~o.retire /\ ~o.failed /\ ~v.legacy => rec.handles # {}

\* What becomes of a claimed record once its aliases are installed.
LEMMA DisposeType ==
    ASSUME NEW d \in Dirs, NEW s \in Dirs, NEW v \in Storages, ~v.legacy => v.ino \in Gens,
           NEW rec \in Records, NEW o \in AfterAliases(v, rec, d, s)
    PROVE  Disposes(v, rec, d, s, o)
<1>1. CASE o = [dir |-> d, disk |-> s, retire |-> FALSE, failed |-> FALSE]
           /\ (v.legacy \/ rec.handles # {})
  BY <1>1 DEF Disposes
<1>2. CASE o = [dir |-> d, disk |-> s, retire |-> TRUE, failed |-> FALSE]
           /\ v.legacy /\ rec.handles = {}
  BY <1>2 DEF Disposes
<1>3. ASSUME ~v.legacy, rec.handles = {}, NEW e \in RemoveGeneration(d, s, v.ino),
             o = [dir |-> e.dir, disk |-> e.disk, retire |-> e.ok, failed |-> ~e.ok]
      PROVE  Disposes(v, rec, d, s, o)
  <2>1. Removes(d, s, v.ino, e)
    BY <1>3, RemoveType
  <2>2. o.dir = e.dir /\ o.disk = e.disk /\ o.retire = e.ok /\ o.failed = ~e.ok
    BY <1>3
  <2>3. /\ e.dir \in Dirs /\ e.disk \in Dirs /\ e.ok \in BOOLEAN
        /\ e.dir.cur = d.cur /\ e.dir.data = d.data
        /\ \A x \in Gens \ {v.ino} : e.dir.gen[x] = d.gen[x]
        /\ e.disk = s \/ e.disk = e.dir
        /\ e.ok => e.dir.gen[v.ino] = "absent"
    BY <2>1 DEF Removes
  <2>4. \A x \in Gens : v.legacy \/ x # v.ino =>
           e.dir.gen[x] = d.gen[x] /\ e.disk.gen[x] \in {s.gen[x], d.gen[x]}
    BY <1>3, <2>3
  <2>5. QED
    BY <1>3, <2>2, <2>3, <2>4 DEF Disposes
<1>4. QED
  BY <1>1, <1>2, <1>3 DEF AfterAliases

\* An outcome of the collection of storage v with record rec.
Collects(v, rec, o) ==
    /\ o.dir \in Dirs /\ o.disk \in Dirs /\ o.retire \in BOOLEAN /\ o.failed \in BOOLEAN
    /\ o.dir.cur = dir.cur /\ o.disk.cur \in {disk.cur, dir.cur}
    /\ o.dir.data = dir.data \/ (dir.cur # None /\ o.dir.data = dir.cur)
    /\ o.disk.data \in {disk.data, dir.data, o.dir.data}
    /\ \A x \in Gens : v.legacy \/ x # v.ino =>
           o.dir.gen[x] = dir.gen[x] /\ o.disk.gen[x] \in {disk.gen[x], dir.gen[x]}
    /\ rec.handles # {} => o.dir.gen = dir.gen /\ ~o.retire
    /\ ~v.legacy /\ v.ino = dir.cur => o.dir = dir /\ o.disk = disk /\ ~o.retire
    /\ rec.alias /\ ~v.legacy =>
         \/ o.dir.gen = dir.gen /\ o.disk.gen = disk.gen /\ o.disk.cur = disk.cur /\ ~o.retire
         \/ dir.cur # None /\ o.disk.cur = dir.cur
    /\ o.retire /\ ~v.legacy => o.dir.gen[v.ino] = "absent"
    /\ ~o.retire /\ ~o.failed /\ ~v.legacy /\ v.ino # dir.cur =>
         rec.handles # {} \/ (rec.alias /\ (LegacyRefs \/ dir.cur = None))

\* What perform_generation_gc_io does for a claimed record.
LEMMA CollectType ==
    ASSUME dir \in Dirs, disk \in Dirs, NEW v \in Storages, ~v.legacy => v.ino \in Gens,
           NEW rec \in Records, NEW o \in GCOutcomes(v, rec)
    PROVE  Collects(v, rec, o)
<1>1. CASE o \in Kept(TRUE)
  <2>1. o = [dir |-> dir, disk |-> disk, retire |-> FALSE, failed |-> TRUE]
    BY <1>1 DEF Kept
  <2>2. /\ o.dir = dir /\ o.disk = disk /\ o.retire \in BOOLEAN /\ o.failed \in BOOLEAN
        /\ ~o.retire /\ o.failed
    BY <2>1
  <2>3. QED
    BY <2>2 DEF Collects
<1>2. ASSUME NEW active \in Resolve(dir),
             o \in IF ~(rec.unlinked /\ v.legacy) /\ SameGeneration(v, active) THEN Kept(FALSE)
                   ELSE IF ~rec.alias THEN AfterAliases(v, rec, dir, disk)
                   ELSE IF LegacyRefs \/ active.legacy THEN Kept(FALSE)
                   ELSE UNION {IF e.ok THEN AfterAliases(v, rec, e.dir, e.disk)
                               ELSE {[dir |-> e.dir, disk |-> e.disk, retire |-> FALSE,
                                      failed |-> TRUE]} :
                                  e \in InstallAliases(dir, disk, active.ino)}
      PROVE  Collects(v, rec, o)
  <2>1. /\ active.legacy <=> dir.cur = None
        /\ ~active.legacy => active.ino = dir.cur
        /\ active.legacy \in BOOLEAN /\ v.legacy \in BOOLEAN
    BY <1>2, ResolveType DEF Storages
  <2>2. dir.cur \in Gens \cup {None} /\ None \notin Gens
    BY DirType, ConstantsAssumption DEF Inodes
  <2>3. CASE ~(rec.unlinked /\ v.legacy) /\ SameGeneration(v, active)
    <3>1. o = [dir |-> dir, disk |-> disk, retire |-> FALSE, failed |-> FALSE]
      BY <1>2, <2>3 DEF Kept
    <3>2. ~v.legacy => v.ino = dir.cur
      BY <2>1, <2>3 DEF SameGeneration
    <3>3. QED
      BY <3>1, <3>2 DEF Collects
  <2>4. CASE ~(~(rec.unlinked /\ v.legacy) /\ SameGeneration(v, active))
    <3>1. ~v.legacy => v.ino # dir.cur
      BY <2>1, <2>2, <2>4 DEF SameGeneration
    <3>2. CASE ~rec.alias
      <4>1. o \in AfterAliases(v, rec, dir, disk)
        BY <1>2, <2>4, <3>2
      <4>2. Disposes(v, rec, dir, disk, o)
        BY <4>1, DisposeType
      <4>3. QED
        BY <3>1, <3>2, <4>2 DEF Disposes, Collects
    <3>3. CASE rec.alias /\ (LegacyRefs \/ active.legacy)
      <4>1. o = [dir |-> dir, disk |-> disk, retire |-> FALSE, failed |-> FALSE]
        BY <1>2, <2>4, <3>3 DEF Kept
      <4>2. QED
        BY <2>1, <3>1, <3>3, <4>1 DEF Collects
    <3>4. CASE rec.alias /\ ~LegacyRefs /\ ~active.legacy
      <4>1. PICK e \in InstallAliases(dir, disk, active.ino) :
                o \in IF e.ok THEN AfterAliases(v, rec, e.dir, e.disk)
                      ELSE {[dir |-> e.dir, disk |-> e.disk, retire |-> FALSE, failed |-> TRUE]}
        BY <1>2, <2>4, <3>4
      <4>2. dir.cur # None /\ active.ino = dir.cur /\ active.ino \in Names
        BY <2>1, <2>2, <3>4 DEF Names, Inodes
      <4>3. Installs(dir, disk, dir.cur, e)
        BY <4>1, <4>2, InstallType
      <4>4. CASE e.ok
        <5>1. o \in AfterAliases(v, rec, e.dir, e.disk)
          BY <4>1, <4>4
        <5>2. /\ e.dir \in Dirs /\ e.disk \in Dirs /\ e.disk = e.dir
              /\ e.dir.cur = dir.cur /\ e.dir.gen = dir.gen /\ e.dir.data = dir.cur
          BY <4>3, <4>4 DEF Installs
        <5>3. Disposes(v, rec, e.dir, e.disk, o)
          BY <5>1, <5>2, DisposeType
        <5>4. QED
          BY <3>1, <4>2, <5>2, <5>3 DEF Disposes, Collects
      <4>5. CASE ~e.ok
        <5>1. o = [dir |-> e.dir, disk |-> e.disk, retire |-> FALSE, failed |-> TRUE]
          BY <4>1, <4>5
        <5>2. /\ e.dir \in Dirs /\ e.disk = disk
              /\ e.dir.cur = dir.cur /\ e.dir.gen = dir.gen /\ e.dir.data \in {dir.data, dir.cur}
          BY <4>3, <4>5 DEF Installs
        <5>3. QED
          BY <3>1, <4>2, <5>1, <5>2 DEF Collects
      <4>6. QED
        BY <4>4, <4>5
    <3>5. QED
      BY <3>2, <3>3, <3>4
  <2>5. QED
    BY <2>3, <2>4
<1>3. QED
  BY <1>1, <1>2 DEF GCOutcomes

=============================================================================
