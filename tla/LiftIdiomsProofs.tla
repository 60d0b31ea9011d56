-------------------------- MODULE LiftIdiomsProofs --------------------------
(***************************************************************************)
(* Proofs about LiftIdioms, for every list of packages and negatives,      *)
(* every set of outcomes a build may have and every number of runs: no     *)
(* negative is lost or shown twice, what the exit code says, an entry      *)
(* names the weakest invocation, and the file is a whole run's.            *)
(*                                                                         *)
(* The state of a half-done scan is described relative to the place it has *)
(* reached: what is built is exactly what stands before (lift, test), and  *)
(* every build is entered in one of three lists, by what it said.          *)
(***************************************************************************)
EXTENDS LiftIdioms, SequenceTheorems, TLAPS

----------------------------------------------------------------------------
(* The inductive invariant.                                                *)

EntryRec == [rel : Nat \ {0}, kind : {"default", "disable"}, diagnostics : SUBSET {"error", "warning"}]
BuildRec == [name : Negatives, out0 : Outcomes, out1 : Outcomes]

\* The place of the scan, and the shape of what it collects.
ScanType ==
    /\ lift \in 1..(Len(Lifts) + 1) /\ test \in Nat \ {0}
    /\ lift <= Len(Lifts) => test = 1 \/ test <= Len(Lifts[lift])
    /\ lift > Len(Lifts) => test = 1
    /\ built \subseteq BuildRec
    /\ regressions \in Seq(Negatives) /\ hostErrors \in Seq(Negatives)

\* The negatives that stand before the place of the scan.
Before(n) == n.pkg < lift \/ (n.pkg = lift /\ n.rel < test)

\* What is built is what stands before, each once.
BuiltIsBefore ==
    /\ \A n \in Negatives : Before(n) <=> \E b \in built : b.name = n
    /\ \A b, c \in built : b.name = c.name => b = c

\* The entry a build is due.
EntryOf(b) ==
    [rel |-> b.name.rel, kind |-> Classify(b.out0, b.out1).kind,
     diagnostics |-> Classify(b.out0, b.out1).diagnostics]

\* e is the entry of a build of package p, one of B, that is no regression.
Due(B, p, e) == \E b \in B : b.name.pkg = p /\ ~Quiet(b) /\ e = EntryOf(b)

Rising(es) == \A k, m \in DOMAIN es : k < m => es[k].rel < es[m].rel

\* The entries es of package p, of negatives before t, after the builds B.
EntriesOK(B, p, t, es) ==
    /\ es \in Seq(EntryRec) /\ Rising(es)
    /\ \A k \in DOMAIN es : es[k].rel < t /\ Due(B, p, es[k])

PackageRec == [pkg : Nat, entries : Seq(EntryRec)]

\* The packages of a catalog, all of them before p.
CatalogOK(B, p, cat) ==
    /\ cat \in Seq(PackageRec)
    /\ \A i \in DOMAIN cat :
         /\ cat[i].pkg < p /\ cat[i].entries # <<>> /\ Rising(cat[i].entries)
         /\ \A k \in DOMAIN cat[i].entries : Due(B, cat[i].pkg, cat[i].entries[k])
    /\ \A i, j \in DOMAIN cat : i < j => cat[i].pkg < cat[j].pkg

HasEntry(es, b) == \E k \in DOMAIN es : es[k].rel = b.name.rel
InCatalog(cat, b) == \E i \in DOMAIN cat : cat[i].pkg = b.name.pkg /\ HasEntry(cat[i].entries, b)

\* Every build that said something of koru's is entered.
Entered ==
    \A b \in built : ~Quiet(b) => (b.name.pkg = lift /\ HasEntry(entries, b)) \/ InCatalog(catalog, b)

\* The regressions are the quiet builds; a host error is none.
RegressionsSound ==
    /\ \A b \in built : Quiet(b) => \E i \in DOMAIN regressions : regressions[i] = b.name
    /\ \A i \in DOMAIN regressions : \E b \in built : Quiet(b) /\ regressions[i] = b.name
    /\ \A i \in DOMAIN hostErrors : \E b \in built : ~Quiet(b) /\ hostErrors[i] = b.name

ScanInv ==
    /\ ScanType /\ BuiltIsBefore
    /\ EntriesOK(built, lift, test, entries) /\ CatalogOK(built, lift, catalog) /\ Entered
    /\ RegressionsSound

\* A run that came to its end stands at the end, with the exit code of its scan.
EndInv ==
    /\ phase \in {"idle", "build"} /\ check \in BOOLEAN
    /\ exit \in {0, 1, 2, Killed} /\ runs \in 0..MaxRuns
    /\ Ended => lift > Len(Lifts) /\ exit = ExitCode

Inv == ScanInv /\ EndInv

----------------------------------------------------------------------------
(* The negatives and what a build is classified as.                        *)

LEMMA NegativesAre ==
  ASSUME IdiomsAssumption, NEW n
  PROVE  n \in Negatives <=>
           /\ n \in [pkg : Nat \ {0}, rel : Nat \ {0}]
           /\ n.pkg <= Len(Lifts) /\ n.rel <= Len(Lifts[n.pkg])
  <1>1. Lifts \in Seq(Seq(STRING))
    BY DEF IdiomsAssumption
  <1>2. DOMAIN Lifts = 1..Len(Lifts) /\ Len(Lifts) \in Nat
    BY <1>1
  <1>3. \A l \in DOMAIN Lifts : DOMAIN Lifts[l] = 1..Len(Lifts[l]) /\ Len(Lifts[l]) \in Nat
    BY <1>1
  <1>4. n \in Negatives <=> \E l \in DOMAIN Lifts : \E t \in DOMAIN Lifts[l] : n = [pkg |-> l, rel |-> t]
    BY DEF Negatives
  <1> QED
    BY <1>2, <1>3, <1>4

\* A build that is not quiet is due an entry; a quiet one is a regression.
LEMMA KindOfBuild ==
  ASSUME IdiomsAssumption, NEW b \in BuildRec
  PROVE  /\ Classify(b.out0, b.out1).kind = "regression" <=> Quiet(b)
         /\ ~Quiet(b) => EntryOf(b) \in EntryRec
  <1>1. b.name \in Negatives /\ b.out0 \in AllOutcomes /\ b.out1 \in AllOutcomes
    BY DEF BuildRec, IdiomsAssumption
  <1>2. b.name.rel \in Nat \ {0}
    BY <1>1, NegativesAre
  <1>3. \A out \in AllOutcomes : Diagnostics(out) \in SUBSET {"error", "warning"}
    BY DEF AllOutcomes, Diagnostics
  <1>4. Diagnostics(b.out0) \in SUBSET {"error", "warning"} /\ Diagnostics(b.out1) \in SUBSET {"error", "warning"}
    BY <1>1, <1>3
  <1>5. Classify(b.out0, b.out1).kind = "regression" <=> Quiet(b)
    BY DEF Classify, Quiet
  <1>6. ASSUME ~Quiet(b)
        PROVE  /\ Classify(b.out0, b.out1).kind \in {"default", "disable"}
               /\ Classify(b.out0, b.out1).diagnostics \in SUBSET {"error", "warning"}
    BY <1>4, <1>6 DEF Classify, Quiet
  <1> QED
    BY <1>2, <1>5, <1>6 DEF EntryOf, EntryRec

----------------------------------------------------------------------------
(* The catalog as it grows.                                                *)

LEMMA ItemsOf ==
  ASSUME NEW S, NEW s \in Seq(S)
  PROVE  /\ Len(s) \in Nat /\ DOMAIN s = 1..Len(s)
         /\ \A i \in DOMAIN s : s[i] \in S
  OBVIOUS

\* More builds, and a later place, leave what is entered in order.
LEMMA EntriesKeep ==
  ASSUME NEW B, NEW C, B \subseteq C, NEW p, NEW t \in Nat, NEW u \in Nat, t <= u, NEW es,
         EntriesOK(B, p, t, es)
  PROVE  EntriesOK(C, p, u, es)
  <1>1. \A k \in DOMAIN es : Due(C, p, es[k])
    BY DEF EntriesOK, Due
  <1>2. \A k \in DOMAIN es : es[k] \in EntryRec
    BY ItemsOf DEF EntriesOK
  <1>3. \A k \in DOMAIN es : es[k].rel \in Nat
    BY <1>2 DEF EntryRec
  <1> QED
    BY <1>1, <1>3 DEF EntriesOK

Enter(es, b) == Append(es, EntryOf(b))

\* A build that is no regression has its entry, and the others keep theirs.
LEMMA EntryThere ==
  ASSUME NEW es \in Seq(EntryRec), NEW b, EntryOf(b) \in EntryRec
  PROVE  /\ Enter(es, b) # <<>> /\ HasEntry(Enter(es, b), b)
         /\ \A c : HasEntry(es, c) => HasEntry(Enter(es, b), c)
  <1> DEFINE e == EntryOf(b)
             fs == Enter(es, b)
  <1>1. e.rel = b.name.rel
    BY DEF EntryOf
  <1>2. fs = Append(es, e) /\ e \in EntryRec
    BY DEF Enter
  <1> HIDE DEF e, fs
  <1>3. /\ Len(fs) = Len(es) + 1 /\ Len(es) \in Nat
        /\ \A i \in 1..Len(es) : fs[i] = es[i]
        /\ fs[Len(es) + 1] = e
        /\ DOMAIN es = 1..Len(es) /\ DOMAIN fs = 1..(Len(es) + 1)
    BY <1>2, AppendProperties
  <1>4. HasEntry(fs, b) /\ fs # <<>>
    BY <1>1, <1>3 DEF HasEntry
  <1>5. \A c : HasEntry(es, c) => HasEntry(fs, c)
    BY <1>3 DEF HasEntry
  <1> QED
    BY <1>4, <1>5 DEF fs

\* It is entered after the others.
LEMMA EntryAppended ==
  ASSUME NEW B, NEW p, NEW t \in Nat, NEW es, EntriesOK(B, p, t, es),
         NEW b \in B, b.name.pkg = p, b.name.rel = t, ~Quiet(b), EntryOf(b) \in EntryRec
  PROVE  EntriesOK(B, p, t + 1, Enter(es, b))
  <1> DEFINE e == EntryOf(b)
             fs == Enter(es, b)
  <1>1. e.rel = t /\ Due(B, p, e)
    BY DEF EntryOf, Due
  <1>2. es \in Seq(EntryRec) /\ e \in EntryRec /\ fs = Append(es, e)
    BY DEF EntriesOK, Enter
  <1> HIDE DEF e, fs
  <1>3. /\ fs \in Seq(EntryRec) /\ Len(fs) = Len(es) + 1 /\ Len(es) \in Nat
        /\ \A i \in 1..Len(es) : fs[i] = es[i]
        /\ fs[Len(es) + 1] = e
    BY <1>2, AppendProperties
  <1>4. DOMAIN es = 1..Len(es) /\ DOMAIN fs = 1..(Len(es) + 1)
    BY <1>2, <1>3
  <1>5. \A k \in DOMAIN es : es[k].rel \in Nat /\ es[k].rel < t /\ Due(B, p, es[k])
    <2>1. \A k \in DOMAIN es : es[k] \in EntryRec
      BY <1>2, ItemsOf
    <2> QED
      BY <2>1 DEF EntriesOK, EntryRec
  <1>6. \A k \in DOMAIN fs : fs[k].rel < t + 1 /\ Due(B, p, fs[k])
    BY <1>1, <1>3, <1>4, <1>5
  <1>7. Rising(fs)
    BY <1>1, <1>3, <1>4, <1>5 DEF Rising, EntriesOK
  <1>8. EntriesOK(B, p, t + 1, fs)
    BY <1>3, <1>6, <1>7 DEF EntriesOK
  <1> QED
    BY <1>8 DEF fs

LEMMA CatalogKeeps ==
  ASSUME NEW B, NEW C, B \subseteq C, NEW p \in Nat, NEW q \in Nat, p <= q, NEW cat,
         CatalogOK(B, p, cat)
  PROVE  CatalogOK(C, q, cat)
  <1>1. \A i \in DOMAIN cat : \A k \in DOMAIN cat[i].entries : Due(C, cat[i].pkg, cat[i].entries[k])
    BY DEF CatalogOK, Due
  <1>2. \A i \in DOMAIN cat : cat[i].pkg \in Nat
    <2>1. \A i \in DOMAIN cat : cat[i] \in PackageRec
      BY ItemsOf DEF CatalogOK
    <2> QED
      BY <2>1 DEF PackageRec
  <1> QED
    BY <1>1, <1>2 DEF CatalogOK

\* A package that is done comes after the others.
LEMMA PackageAppended ==
  ASSUME NEW B, NEW p \in Nat, NEW t, NEW cat, NEW es, es # <<>>,
         CatalogOK(B, p, cat), EntriesOK(B, p, t, es)
  PROVE  LET all == Append(cat, [pkg |-> p, entries |-> es])
         IN  /\ CatalogOK(B, p + 1, all)
             /\ \A b : InCatalog(cat, b) \/ (b.name.pkg = p /\ HasEntry(es, b)) => InCatalog(all, b)
  <1> DEFINE x == [pkg |-> p, entries |-> es]
             all == Append(cat, x)
  <1>1. cat \in Seq(PackageRec) /\ x \in PackageRec
    BY DEF CatalogOK, EntriesOK, PackageRec
  <1>2. x.pkg = p /\ x.entries = es
    OBVIOUS
  <1> HIDE DEF x
  <1>3. /\ all \in Seq(PackageRec) /\ Len(all) = Len(cat) + 1 /\ Len(cat) \in Nat
        /\ \A i \in 1..Len(cat) : all[i] = cat[i]
        /\ all[Len(cat) + 1] = x
    BY <1>1, AppendProperties
  <1>4. DOMAIN cat = 1..Len(cat) /\ DOMAIN all = 1..(Len(cat) + 1)
    BY <1>1, <1>3
  <1> HIDE DEF all
  <1>5. \A i \in DOMAIN cat :
          /\ cat[i].pkg \in Nat /\ cat[i].pkg < p /\ cat[i].entries # <<>> /\ Rising(cat[i].entries)
          /\ \A k \in DOMAIN cat[i].entries : Due(B, cat[i].pkg, cat[i].entries[k])
    <2>1. \A i \in DOMAIN cat : cat[i] \in PackageRec
      BY <1>1, ItemsOf
    <2> QED
      BY <2>1 DEF CatalogOK, PackageRec
  <1>6. Rising(es) /\ \A k \in DOMAIN es : Due(B, p, es[k])
    BY DEF EntriesOK
  <1>7. ASSUME NEW i \in DOMAIN all
        PROVE  /\ all[i].pkg < p + 1 /\ all[i].entries # <<>> /\ Rising(all[i].entries)
               /\ \A k \in DOMAIN all[i].entries : Due(B, all[i].pkg, all[i].entries[k])
    <2>1. CASE i \in DOMAIN cat
      <3>1. all[i] = cat[i]
        BY <1>3, <1>4, <2>1
      <3> QED
        BY <3>1, <1>5, <2>1
    <2>2. CASE i \notin DOMAIN cat
      <3>1. all[i] = x
        BY <1>3, <1>4, <2>2
      <3> QED
        BY <3>1, <1>2, <1>6
    <2> QED
      BY <2>1, <2>2
  <1>8. \A i, j \in DOMAIN all : i < j => all[i].pkg < all[j].pkg
    BY <1>2, <1>3, <1>4, <1>5 DEF CatalogOK
  <1>9. CatalogOK(B, p + 1, all)
    BY <1>3, <1>7, <1>8 DEF CatalogOK
  <1>10. ASSUME NEW b, InCatalog(cat, b)
         PROVE  InCatalog(all, b)
    BY <1>3, <1>4, <1>10 DEF InCatalog
  <1>11. ASSUME NEW b, b.name.pkg = p, HasEntry(es, b)
         PROVE  InCatalog(all, b)
    BY <1>2, <1>3, <1>4, <1>11 DEF InCatalog
  <1> QED
    BY <1>9, <1>10, <1>11 DEF all, x

----------------------------------------------------------------------------
(* The scan keeps its invariant.                                           *)

LEMMA NothingEntered == EntriesOK({}, 1, 1, <<>>) /\ CatalogOK({}, 1, <<>>)
  BY DEF EntriesOK, CatalogOK, Rising

\* A place before every negative.
LEMMA NothingBefore ==
  ASSUME IdiomsAssumption, NEW n \in Negatives
  PROVE  ~(n.pkg < 1 \/ (n.pkg = 1 /\ n.rel < 1))
  <1>1. n \in [pkg : Nat \ {0}, rel : Nat \ {0}]
    BY NegativesAre
  <1> QED
    BY <1>1

LEMMA LiftsType ==
  ASSUME IdiomsAssumption
  PROVE  /\ Len(Lifts) \in Nat /\ DOMAIN Lifts = 1..Len(Lifts)
         /\ \A l \in 1..Len(Lifts) :
              /\ Lifts[l] \in Seq(STRING)
              /\ Len(Lifts[l]) \in Nat
              /\ Lifts[l] = <<>> <=> Len(Lifts[l]) = 0
  <1>1. Lifts \in Seq(Seq(STRING))
    BY DEF IdiomsAssumption
  <1>2. Len(Lifts) \in Nat /\ DOMAIN Lifts = 1..Len(Lifts)
    BY <1>1
  <1>3. \A l \in 1..Len(Lifts) : Lifts[l] \in Seq(STRING)
    BY <1>1
  <1> QED
    BY <1>2, <1>3, EmptySeq

LEMMA InitScan == ASSUME IdiomsAssumption, Init PROVE ScanInv
  <1>1. ScanType
    BY LiftsType DEF Init, ScanType
  <1>2. BuiltIsBefore
    BY NothingBefore DEF Init, BuiltIsBefore, Before
  <1>3. EntriesOK(built, lift, test, entries) /\ CatalogOK(built, lift, catalog)
    BY NothingEntered DEF Init
  <1>4. Entered /\ RegressionsSound
    BY DEF Init, Entered, RegressionsSound
  <1> QED
    BY <1>1, <1>2, <1>3, <1>4 DEF ScanInv

LEMMA StartScan == ASSUME IdiomsAssumption, NEW c \in BOOLEAN, Start(c) PROVE ScanInv'
  <1>1. ScanType'
    BY LiftsType DEF Start, ScanType
  <1>2. BuiltIsBefore'
    BY NothingBefore DEF Start, BuiltIsBefore, Before
  <1>3. (EntriesOK(built, lift, test, entries) /\ CatalogOK(built, lift, catalog))'
    BY NothingEntered DEF Start
  <1>4. (Entered /\ RegressionsSound)'
    BY DEF Start, Entered, RegressionsSound
  <1> QED
    BY <1>1, <1>2, <1>3, <1>4 DEF ScanInv

\* A package without negatives changes nothing that is entered.
LEMMA SkipLiftScan == ASSUME IdiomsAssumption, ScanInv, SkipLift PROVE ScanInv'
  <1> USE DEF SkipLift
  <1>1. lift \in 1..Len(Lifts) /\ Len(Lifts) \in Nat /\ Len(Lifts[lift]) = 0 /\ lift' = lift + 1
    BY LiftsType DEF ScanInv, ScanType
  <1>2. test = 1 /\ test' = 1
    BY <1>1 DEF ScanInv, ScanType
  <1>3. ScanType'
    BY <1>1, <1>2, LiftsType DEF ScanInv, ScanType
  <1>4. ASSUME NEW n \in Negatives PROVE Before(n)' <=> Before(n)
    <2>1. n \in [pkg : Nat \ {0}, rel : Nat \ {0}] /\ n.rel <= Len(Lifts[n.pkg])
      BY NegativesAre
    <2>2. n.pkg # lift /\ n.pkg \in Nat /\ n.rel >= 1 /\ n.rel \in Nat
      BY <1>1, <2>1
    <2> HIDE DEF SkipLift
    <2>3. n.pkg < lift + 1 <=> n.pkg < lift
      <3>1. lift \in Nat
        BY <1>1
      <3>2. \A x, y \in Nat : x # y => (x < y + 1 <=> x < y)
        OBVIOUS
      <3> QED
        BY <2>2, <3>1, <3>2
    <2>4. ~(n.rel < 1)
      BY <2>2
    <2> QED
      BY <1>1, <1>2, <2>2, <2>3, <2>4 DEF Before
  <1>5. BuiltIsBefore'
    BY <1>4 DEF ScanInv, BuiltIsBefore
  <1>6. entries = <<>>
    <2>1. entries \in Seq(EntryRec) /\ \A k \in DOMAIN entries : entries[k].rel < 1
      BY <1>2 DEF ScanInv, EntriesOK
    <2>2. \A k \in DOMAIN entries : entries[k] \in EntryRec
      BY <2>1, ItemsOf
    <2> HIDE DEF SkipLift
    <2>3. DOMAIN entries = {}
      <3>1. \A k \in DOMAIN entries : entries[k].rel \in Nat \ {0}
        BY <2>2 DEF EntryRec
      <3>2. \A m \in Nat \ {0} : ~(m < 1)
        OBVIOUS
      <3> QED
        BY <2>1, <3>1, <3>2, Zenon
    <2>4. Len(entries) = 0
      BY <2>1, <2>3
    <2> QED
      BY <2>1, <2>4, EmptySeq
  <1>7. EntriesOK(built, lift, test, entries)'
    BY <1>6 DEF EntriesOK, Rising
  <1>8. CatalogOK(built, lift, catalog)'
    <2>1. CatalogOK(built, lift, catalog) /\ lift \in Nat /\ lift + 1 \in Nat
      BY <1>1 DEF ScanInv
    <2>2. CatalogOK(built, lift + 1, catalog)
      BY <2>1, CatalogKeeps
    <2> QED
      BY <1>1, <2>2
  <1>9. Entered'
    BY <1>6 DEF ScanInv, Entered, HasEntry
  <1>10. RegressionsSound'
    BY DEF ScanInv, RegressionsSound
  <1> QED
    BY <1>3, <1>5, <1>7, <1>8, <1>9, <1>10 DEF ScanInv

\* One build: it is entered by what it said, and the place moves on.
LEMMA BuildOneScan ==
  ASSUME IdiomsAssumption, ScanInv, NEW out0 \in Outcomes, NEW out1 \in Outcomes, BuildOne(out0, out1)
  PROVE  ScanInv'
  <1> DEFINE b0 == [name |-> Name, out0 |-> out0, out1 |-> out1]
             live == Classify(out0, out1).kind # "regression"
             done == IF live THEN Append(entries, EntryOf(b0)) ELSE entries
             last == test = Len(Lifts[lift])
  <1>1. /\ built' = built \cup {b0}
        /\ regressions' = IF live THEN regressions ELSE Append(regressions, Name)
        /\ hostErrors' = IF live /\ Classify(out0, out1).host THEN Append(hostErrors, Name) ELSE hostErrors
        /\ catalog' = IF last THEN CatalogWith(done) ELSE catalog
        /\ entries' = IF last THEN <<>> ELSE done
        /\ lift' = IF last THEN lift + 1 ELSE lift
        /\ test' = IF last THEN 1 ELSE test + 1
        /\ lift <= Len(Lifts) /\ test <= Len(Lifts[lift])
    BY DEF BuildOne, EntryOf, Name
  <1>2. /\ lift \in 1..Len(Lifts) /\ Len(Lifts) \in Nat
        /\ test \in 1..Len(Lifts[lift]) /\ Len(Lifts[lift]) \in Nat
    BY <1>1, LiftsType DEF ScanInv, ScanType
  <1>3. Name \in Negatives /\ Name.pkg = lift /\ Name.rel = test
    <2>1. Name = [pkg |-> lift, rel |-> test]
      BY DEF Name
    <2>2. Name \in [pkg : Nat \ {0}, rel : Nat \ {0}] /\ Name.pkg = lift /\ Name.rel = test
      BY <1>2, <2>1
    <2>3. Name.pkg <= Len(Lifts) /\ Name.rel <= Len(Lifts[Name.pkg])
      BY <1>2, <2>2
    <2> HIDE DEF Name
    <2> QED
      BY <2>2, <2>3, NegativesAre
  <1>4. b0 \in BuildRec /\ b0.name = Name /\ b0.out0 = out0 /\ b0.out1 = out1
    BY <1>3 DEF BuildRec
  <1> HIDE DEF b0
  <1>5. /\ live <=> ~Quiet(b0)
        /\ live => EntryOf(b0) \in EntryRec
    BY <1>4, KindOfBuild
  <1> HIDE DEF live
  <1>6. built \subseteq BuildRec /\ built' \subseteq BuildRec
    BY <1>1, <1>4 DEF ScanInv, ScanType
  <1>7. \A b \in built' : b.name \in Negatives
    BY <1>6 DEF BuildRec
  \* The place: exactly the name just built is new before it.
  <1>8. ASSUME NEW n \in Negatives PROVE Before(n)' <=> Before(n) \/ n = Name
    <2>1. /\ n \in [pkg : Nat \ {0}, rel : Nat \ {0}] /\ n.pkg <= Len(Lifts)
          /\ n.rel <= Len(Lifts[n.pkg])
      BY NegativesAre
    <2>2. n = Name <=> n.pkg = lift /\ n.rel = test
      BY <2>1 DEF Name
    <2>3. CASE last
      <3>1. Before(n)' <=> n.pkg < lift + 1 \/ (n.pkg = lift + 1 /\ n.rel < 1)
        BY <1>1, <2>3 DEF Before
      <3>2. Before(n)' <=> n.pkg < lift \/ n.pkg = lift
        BY <3>1, <2>1, <1>2
      <3>3. n.pkg = lift => n.rel <= test
        BY <2>1, <2>3
      <3> QED
        BY <3>2, <3>3, <2>1, <2>2, <1>2 DEF Before
    <2>4. CASE ~last
      <3>1. Before(n)' <=> n.pkg < lift \/ (n.pkg = lift /\ n.rel < test + 1)
        BY <1>1, <2>4 DEF Before
      <3> QED
        BY <3>1, <2>1, <2>2, <1>2 DEF Before
    <2> QED
      BY <2>3, <2>4
  <1>9. BuiltIsBefore'
    <2>1. ~Before(Name)
      BY <1>2, <1>3 DEF Before
    <2>2. \A b \in built : b.name # Name
      BY <2>1, <1>3 DEF ScanInv, BuiltIsBefore
    <2>3. \A n \in Negatives : Before(n)' <=> \E b \in built' : b.name = n
      BY <1>1, <1>4, <1>8 DEF ScanInv, BuiltIsBefore
    <2>4. \A b, c \in built' : b.name = c.name => b = c
      BY <1>1, <1>4, <2>2 DEF ScanInv, BuiltIsBefore
    <2> QED
      BY <2>3, <2>4 DEF BuiltIsBefore
  \* The entries of the package, with this build's.
  <1>10. /\ EntriesOK(built', lift, test + 1, done)
         /\ \A b \in built' : ~Quiet(b) /\ b.name.pkg = lift =>
               HasEntry(done, b) \/ InCatalog(catalog, b)
    <2>1. built \subseteq built' /\ b0 \in built' /\ test \in Nat /\ test + 1 \in Nat /\ test <= test + 1
      BY <1>1, <1>2
    <2>2. EntriesOK(built, lift, test, entries)
      BY DEF ScanInv
    <2>3. \A b \in built : ~Quiet(b) /\ b.name.pkg = lift => HasEntry(entries, b) \/ InCatalog(catalog, b)
      BY DEF ScanInv, Entered
    <2>4. CASE live
      <3>1. EntriesOK(built', lift, test, entries)
        BY <2>1, <2>2, EntriesKeep
      <3>2. b0.name.pkg = lift /\ b0.name.rel = test /\ ~Quiet(b0) /\ EntryOf(b0) \in EntryRec
        BY <1>3, <1>4, <1>5, <2>4
      <3>3. done = Enter(entries, b0)
        BY <2>4 DEF Enter
      <3> HIDE DEF done
      <3>4. /\ EntriesOK(built', lift, test + 1, done)
            /\ HasEntry(done, b0)
            /\ \A c : HasEntry(entries, c) => HasEntry(done, c)
        <4>1. EntriesOK(built', lift, test + 1, Enter(entries, b0))
          BY <2>1, <3>1, <3>2, EntryAppended
        <4>2. entries \in Seq(EntryRec)
          BY <2>2 DEF EntriesOK
        <4> QED
          BY <3>2, <3>3, <4>1, <4>2, EntryThere
      <3> QED
        BY <3>4, <2>3, <1>1
    <2>5. CASE ~live
      <3>1. done = entries /\ Quiet(b0)
        BY <2>5, <1>5
      <3> HIDE DEF done
      <3>2. EntriesOK(built', lift, test + 1, done)
        BY <3>1, <2>1, <2>2, EntriesKeep
      <3> QED
        BY <3>1, <3>2, <2>3, <1>1
    <2> QED
      BY <2>4, <2>5
  <1> HIDE DEF done
  <1>11. CatalogOK(built', lift, catalog) /\ CatalogOK(built', lift + 1, catalog)
    <2>1. CatalogOK(built, lift, catalog) /\ built \subseteq built'
      BY <1>1 DEF ScanInv
    <2> QED
      BY <2>1, <1>2, CatalogKeeps
  <1>12. /\ EntriesOK(built', lift', test', entries')
         /\ CatalogOK(built', lift', catalog')
         /\ Entered'
    <2>1. CASE last
      <3>1. lift' = lift + 1 /\ test' = 1 /\ entries' = <<>> /\ catalog' = CatalogWith(done)
        BY <1>1, <2>1
      <3>2. EntriesOK(built', lift', test', entries')
        BY <3>1 DEF EntriesOK, Rising
      <3>3. CASE done = <<>>
        <4>1. catalog' = catalog
          BY <3>1, <3>3 DEF CatalogWith
        <4>2. \A b : ~HasEntry(done, b)
          BY <3>3 DEF HasEntry
        <4>3. \A b \in built : ~Quiet(b) => b.name.pkg = lift \/ InCatalog(catalog, b)
          BY DEF ScanInv, Entered
        <4>4. \A b \in built' : ~Quiet(b) => InCatalog(catalog, b)
          BY <4>2, <4>3, <1>1, <1>3, <1>4, <1>10
        <4>5. Entered'
          BY <4>1, <4>4 DEF Entered
        <4> QED
          BY <3>1, <3>2, <4>1, <4>5, <1>11
      <3>4. CASE done # <<>>
        <4>1. catalog' = Append(catalog, [pkg |-> lift, entries |-> done])
          BY <3>1, <3>4 DEF CatalogWith
        <4>2. /\ CatalogOK(built', lift + 1, catalog')
              /\ \A b : InCatalog(catalog, b) \/ (b.name.pkg = lift /\ HasEntry(done, b)) => InCatalog(catalog', b)
          <5>1. lift \in Nat
            BY <1>2
          <5> QED
            BY <4>1, <5>1, <3>4, <1>10, <1>11, PackageAppended
        <4>3. \A b \in built : ~Quiet(b) => b.name.pkg = lift \/ InCatalog(catalog, b)
          BY DEF ScanInv, Entered
        <4>4. \A b \in built' : ~Quiet(b) => InCatalog(catalog', b)
          BY <4>2, <4>3, <1>1, <1>3, <1>4, <1>10
        <4>5. Entered'
          BY <4>4 DEF Entered
        <4> QED
          BY <3>1, <3>2, <4>2, <4>5
      <3> QED
        BY <3>3, <3>4
    <2>2. CASE ~last
      <3>1. lift' = lift /\ test' = test + 1 /\ entries' = done /\ catalog' = catalog
        BY <1>1, <2>2
      <3>2. EntriesOK(built', lift', test', entries') /\ CatalogOK(built', lift', catalog')
        BY <3>1, <1>10, <1>11
      <3>3. \A b \in built : ~Quiet(b) => b.name.pkg = lift \/ InCatalog(catalog, b)
        BY DEF ScanInv, Entered
      <3>4. \A b \in built' : ~Quiet(b) => b.name.pkg = lift \/ InCatalog(catalog, b)
        BY <3>3, <1>1, <1>3, <1>4
      <3>5. \A b \in built' : ~Quiet(b) =>
              (b.name.pkg = lift' /\ HasEntry(entries', b)) \/ InCatalog(catalog', b)
        BY <3>1, <3>4, <1>10
      <3> QED
        BY <3>2, <3>5 DEF Entered
    <2> QED
      BY <2>1, <2>2
  <1>13. ScanType'
    <2>1. regressions \in Seq(Negatives) /\ hostErrors \in Seq(Negatives)
      BY DEF ScanInv, ScanType
    <2>2. regressions' \in Seq(Negatives) /\ hostErrors' \in Seq(Negatives)
      BY <2>1, <1>1, <1>3, AppendProperties
    <2>3. /\ lift' \in 1..(Len(Lifts) + 1) /\ test' \in Nat \ {0}
          /\ lift' <= Len(Lifts) => test' = 1 \/ test' <= Len(Lifts[lift'])
          /\ lift' > Len(Lifts) => test' = 1
      BY <1>1, <1>2
    <2> QED
      BY <2>2, <2>3, <1>6 DEF ScanType
  <1>14. RegressionsSound'
    <2>1. regressions \in Seq(Negatives) /\ hostErrors \in Seq(Negatives) /\ RegressionsSound
      BY DEF ScanInv, ScanType
    <2>2. DOMAIN regressions = 1..Len(regressions) /\ DOMAIN hostErrors = 1..Len(hostErrors)
      BY <2>1, ItemsOf
    <2>3. \A b \in built' : Quiet(b) => \E i \in DOMAIN regressions' : regressions'[i] = b.name
      <3>1. CASE live
        BY <3>1, <2>1, <1>1, <1>5 DEF RegressionsSound
      <3>2. CASE ~live
        <4>1. regressions' = Append(regressions, Name)
          BY <3>2, <1>1
        <4>2. /\ Len(regressions') = Len(regressions) + 1 /\ Len(regressions) \in Nat
              /\ DOMAIN regressions' = 1..(Len(regressions) + 1)
              /\ \A i \in 1..Len(regressions) : regressions'[i] = regressions[i]
              /\ regressions'[Len(regressions) + 1] = Name
          BY <4>1, <2>1, <1>3, AppendProperties, ItemsOf
        <4>3. ASSUME NEW b \in built, Quiet(b) PROVE \E i \in DOMAIN regressions' : regressions'[i] = b.name
          BY <4>2, <4>3, <2>1, <2>2 DEF RegressionsSound
        <4>4. \E i \in DOMAIN regressions' : regressions'[i] = b0.name
          BY <4>2, <1>4
        <4> QED
          BY <4>3, <4>4, <1>1
      <3> QED
        BY <3>1, <3>2
    <2>4. \A i \in DOMAIN regressions' : \E b \in built' : Quiet(b) /\ regressions'[i] = b.name
      <3>1. CASE live
        BY <3>1, <2>1, <1>1 DEF RegressionsSound
      <3>2. CASE ~live
        <4>1. regressions' = Append(regressions, Name) /\ Quiet(b0) /\ b0 \in built' /\ b0.name = Name
          BY <3>2, <1>1, <1>4, <1>5
        <4>2. /\ Len(regressions) \in Nat /\ DOMAIN regressions' = 1..(Len(regressions) + 1)
              /\ \A i \in 1..Len(regressions) : regressions'[i] = regressions[i]
              /\ regressions'[Len(regressions) + 1] = Name
          BY <4>1, <2>1, <1>3, AppendProperties, ItemsOf
        <4>3. \A i \in 1..Len(regressions) : \E b \in built' : Quiet(b) /\ regressions'[i] = b.name
          BY <4>2, <2>1, <2>2, <1>1 DEF RegressionsSound
        <4> QED
          BY <4>1, <4>2, <4>3
      <3> QED
        BY <3>1, <3>2
    <2>5. \A i \in DOMAIN hostErrors' : \E b \in built' : ~Quiet(b) /\ hostErrors'[i] = b.name
      <3>1. CASE hostErrors' = hostErrors
        BY <3>1, <2>1, <1>1 DEF RegressionsSound
      <3>2. CASE hostErrors' # hostErrors
        <4>1. hostErrors' = Append(hostErrors, Name) /\ ~Quiet(b0) /\ b0 \in built' /\ b0.name = Name
          BY <3>2, <1>1, <1>4, <1>5
        <4>2. /\ Len(hostErrors) \in Nat /\ DOMAIN hostErrors' = 1..(Len(hostErrors) + 1)
              /\ \A i \in 1..Len(hostErrors) : hostErrors'[i] = hostErrors[i]
              /\ hostErrors'[Len(hostErrors) + 1] = Name
          BY <4>1, <2>1, <1>3, AppendProperties, ItemsOf
        <4>3. \A i \in 1..Len(hostErrors) : \E b \in built' : ~Quiet(b) /\ hostErrors'[i] = b.name
          BY <4>2, <2>1, <2>2, <1>1 DEF RegressionsSound
        <4> QED
          BY <4>1, <4>2, <4>3
      <3> QED
        BY <3>1, <3>2
    <2> QED
      BY <2>3, <2>4, <2>5 DEF RegressionsSound
  <1> QED
    BY <1>9, <1>12, <1>13, <1>14 DEF ScanInv

LEMMA ScanStep == ASSUME IdiomsAssumption, ScanInv, [Next]_vars PROVE ScanInv'
  <1>1. CASE \E c \in BOOLEAN : Start(c)
    BY <1>1, StartScan
  <1>2. CASE \E out0, out1 \in Outcomes : BuildOne(out0, out1)
    BY <1>2, BuildOneScan
  <1>3. CASE SkipLift
    BY <1>3, SkipLiftScan
  <1>4. CASE UNCHANGED scan
    <2>1. /\ lift' = lift /\ test' = test /\ built' = built /\ entries' = entries /\ catalog' = catalog
          /\ regressions' = regressions /\ hostErrors' = hostErrors
      BY <1>4 DEF scan
    <2>2. ScanType' /\ BuiltIsBefore' /\ Entered' /\ RegressionsSound'
      BY <2>1 DEF ScanInv, ScanType, BuiltIsBefore, Before, Entered, RegressionsSound
    <2> QED
      BY <2>1, <2>2 DEF ScanInv
  <1>5. NoKoruc \/ Finish \/ Kill \/ UNCHANGED vars => UNCHANGED scan
    BY DEF NoKoruc, Finish, Kill, vars
  <1> QED
    BY <1>1, <1>2, <1>3, <1>4, <1>5 DEF Next

LEMMA EndStep == ASSUME IdiomsAssumption, ScanInv, EndInv, [Next]_vars PROVE EndInv'
  <1> USE DEF EndInv, Ended, ExitCode, Killed
  <1>0. MaxRuns \in Nat
    BY DEF IdiomsAssumption
  <1>1. CASE \E c \in BOOLEAN : Start(c)
    BY <1>0, <1>1 DEF Start
  <1>2. ASSUME NEW out0, NEW out1, BuildOne(out0, out1) PROVE EndInv'
    BY <1>2 DEF BuildOne
  <1>3. CASE SkipLift
    BY <1>3 DEF SkipLift
  <1>4. CASE NoKoruc
    BY <1>0, <1>4 DEF NoKoruc, scan
  <1>5. CASE Finish
    BY <1>5 DEF Finish, scan
  <1>6. CASE Kill
    BY <1>6 DEF Kill, scan
  <1>7. CASE UNCHANGED vars
    BY <1>7 DEF vars, scan
  <1> QED
    BY <1>1, <1>2, <1>3, <1>4, <1>5, <1>6, <1>7 DEF Next

LEMMA InitEnd == ASSUME IdiomsAssumption, Init PROVE EndInv
  <1>1. MaxRuns \in Nat
    BY DEF IdiomsAssumption
  <1>2. phase = "idle" /\ exit = 0 /\ runs = 0
    BY DEF Init
  <1>3. check \in BOOLEAN
    BY DEF Init
  <1>4. runs \in 0..MaxRuns /\ ~(runs > 0)
    BY <1>1, <1>2
  <1> QED
    BY <1>2, <1>3, <1>4 DEF EndInv, Ended

THEOREM Invariance == ASSUME IdiomsAssumption PROVE Spec => []Inv
  <1>1. Init => Inv
    BY InitScan, InitEnd DEF Inv
  <1>2. Inv /\ [Next]_vars => Inv'
    BY ScanStep, EndStep DEF Inv
  <1> QED
    BY <1>1, <1>2, PTL DEF Spec

----------------------------------------------------------------------------
(* What the invariant says of a scan at its end.                           *)

\* The catalog shows the builds that said something of koru's, and no other.
LEMMA ShownAtEnd ==
  ASSUME IdiomsAssumption, ScanInv, lift > Len(Lifts)
  PROVE  Shown(catalog) = Negatives \ Listed(regressions) /\ Listed(regressions) \subseteq Negatives
  <1> USE DEF ScanInv
  <1>1. \A b \in built : b.name \in Negatives
    BY DEF ScanType, BuildRec
  <1>2. \A n \in Negatives : n \in [pkg : Nat \ {0}, rel : Nat \ {0}] /\ Before(n)
    <2>1. ASSUME NEW n \in Negatives
          PROVE n \in [pkg : Nat \ {0}, rel : Nat \ {0}] /\ n.pkg <= Len(Lifts)
      BY NegativesAre
    <2> QED
      BY <2>1, LiftsType DEF ScanType, Before
  <1>3. \A n \in Negatives : \E b \in built : b.name = n
    BY <1>2 DEF BuiltIsBefore
  <1>4. \A n : n \in Listed(regressions) <=> \E b \in built : Quiet(b) /\ b.name = n
    BY DEF Listed, RegressionsSound
  <1>5. ASSUME NEW b \in built, ~Quiet(b) PROVE b.name \in Shown(catalog)
    <2>1. b.name.pkg # lift
      <3>1. b.name.pkg <= Len(Lifts) /\ b.name.pkg \in Nat
        BY <1>1, NegativesAre
      <3> QED
        BY <3>1, LiftsType DEF ScanType
    <2>2. InCatalog(catalog, b)
      BY <1>5, <2>1 DEF Entered
    <2>3. PICK i \in DOMAIN catalog : catalog[i].pkg = b.name.pkg /\ HasEntry(catalog[i].entries, b)
      BY <2>2 DEF InCatalog
    <2>4. PICK k \in DOMAIN catalog[i].entries : catalog[i].entries[k].rel = b.name.rel
      BY <2>3 DEF HasEntry
    <2>5. b.name = [pkg |-> catalog[i].pkg, rel |-> catalog[i].entries[k].rel]
      BY <1>1, <1>2, <2>3, <2>4
    <2> QED
      BY <2>5 DEF Shown
  <1>6. ASSUME NEW n \in Shown(catalog) PROVE \E b \in built : ~Quiet(b) /\ b.name = n
    <2>1. PICK i \in DOMAIN catalog :
            \E k \in DOMAIN catalog[i].entries : n = [pkg |-> catalog[i].pkg, rel |-> catalog[i].entries[k].rel]
      BY DEF Shown
    <2>5. PICK k \in DOMAIN catalog[i].entries : n = [pkg |-> catalog[i].pkg, rel |-> catalog[i].entries[k].rel]
      BY <2>1
    <2>2. Due(built, catalog[i].pkg, catalog[i].entries[k])
      BY DEF CatalogOK
    <2>3. PICK b \in built : b.name.pkg = catalog[i].pkg /\ ~Quiet(b) /\ catalog[i].entries[k] = EntryOf(b)
      BY <2>2 DEF Due
    <2>4. b.name = n
      BY <1>1, <1>2, <2>5, <2>3 DEF EntryOf
    <2> QED
      BY <2>3, <2>4
  <1>7. \A b, c \in built : b.name = c.name => b = c
    BY DEF BuiltIsBefore
  <1> HIDE DEF ScanInv
  <1> QED
    BY <1>1, <1>3, <1>4, <1>5, <1>6, <1>7

\* The corpus is well formed at every moment.
LEMMA TypeFollows == ASSUME IdiomsAssumption, Inv PROVE TypeOK
  <1> USE DEF Inv, ScanInv, EndInv
  <1>1. \A b \in built : b.name \in Negatives
    BY DEF ScanType, BuildRec
  <1>2. Listed(hostErrors) \cap Listed(regressions) = {}
    BY <1>1 DEF Listed, RegressionsSound, BuiltIsBefore
  <1>3. \A i \in DOMAIN catalog : catalog[i].pkg < lift /\ catalog[i].entries # <<>>
    BY DEF CatalogOK
  <1>4. lift <= Len(Lifts) => test <= Len(Lifts[lift]) + 1
    BY LiftsType DEF ScanType
  <1> QED
    BY <1>2, <1>3, <1>4 DEF ScanType, TypeOK

LEMMA AccountFollows == ASSUME IdiomsAssumption, Inv PROVE EveryNegativeAccounted
  <1> SUFFICES ASSUME Ended PROVE
        /\ Shown(catalog) \cup Listed(regressions) = Negatives
        /\ Shown(catalog) \cap Listed(regressions) = {}
        /\ \A i, j \in DOMAIN catalog : i < j => catalog[i].pkg < catalog[j].pkg
        /\ \A i \in DOMAIN catalog : catalog[i].entries # <<>> /\
             \A k, m \in DOMAIN catalog[i].entries :
               k < m => catalog[i].entries[k].rel < catalog[i].entries[m].rel
    BY DEF EveryNegativeAccounted
  <1>1. ScanInv /\ lift > Len(Lifts)
    BY DEF Inv, EndInv
  <1>2. CatalogOK(built, lift, catalog)
    BY <1>1 DEF ScanInv
  <1> QED
    BY <1>1, <1>2, ShownAtEnd DEF CatalogOK, Rising

\* What the exit code says: some negative was built twice without a line of koru's.
ExitTells == Ended => (exit = 1 <=> \E b \in built : Quiet(b))

LEMMA GateFollows == ASSUME IdiomsAssumption, Inv PROVE ExitTells
  <1>1. Ended => exit = ExitCode
    BY DEF Inv, EndInv
  <1>2. RegressionsSound /\ regressions \in Seq(Negatives)
    BY DEF Inv, ScanInv, ScanType
  <1>3. regressions # <<>> <=> \E i \in DOMAIN regressions : TRUE
    <2>1. Len(regressions) \in Nat /\ DOMAIN regressions = 1..Len(regressions)
      BY <1>2, ItemsOf
    <2>2. regressions # <<>> => Len(regressions) \in Nat \ {0}
      BY <1>2, EmptySeq
    <2>3. regressions # <<>> => 1 \in DOMAIN regressions
      BY <2>1, <2>2
    <2>4. regressions = <<>> => DOMAIN regressions = {}
      OBVIOUS
    <2> QED
      BY <2>3, <2>4
  <1>4. regressions # <<>> <=> \E b \in built : Quiet(b)
    BY <1>2, <1>3 DEF RegressionsSound
  <1> QED
    BY <1>1, <1>4 DEF ExitTells, ExitCode

LEMMA WeakestFollows == ASSUME IdiomsAssumption, Inv PROVE WeakestInvocation
  <1> SUFFICES ASSUME NEW i \in DOMAIN catalog, NEW k \in DOMAIN catalog[i].entries
               PROVE LET e == catalog[i].entries[k]
                         b == CHOOSE x \in built : x.name = [pkg |-> catalog[i].pkg, rel |-> e.rel]
                     IN  /\ e.kind = "disable" <=> Diagnostics(b.out0) = {}
                         /\ e.diagnostics = Diagnostics(IF e.kind = "default" THEN b.out0 ELSE b.out1)
    BY DEF WeakestInvocation
  <1> DEFINE e == catalog[i].entries[k]
             n == [pkg |-> catalog[i].pkg, rel |-> e.rel]
             b == CHOOSE x \in built : x.name = n
  <1>1. Due(built, catalog[i].pkg, e)
    BY DEF Inv, ScanInv, CatalogOK
  <1>2. PICK d \in built : d.name.pkg = catalog[i].pkg /\ ~Quiet(d) /\ e = EntryOf(d)
    BY <1>1 DEF Due
  <1>3. d.name \in [pkg : Nat \ {0}, rel : Nat \ {0}]
    <2>1. d.name \in Negatives
      BY DEF Inv, ScanInv, ScanType, BuildRec
    <2> QED
      BY <2>1, NegativesAre
  <1>4. d.name = n
    BY <1>2, <1>3 DEF EntryOf
  <1>5. \A x \in built : x.name = n => x = d
    BY <1>4 DEF Inv, ScanInv, BuiltIsBefore
  <1>6. b = d
    BY <1>4, <1>5
  <1>7. /\ e.kind = Classify(d.out0, d.out1).kind
        /\ e.diagnostics = Classify(d.out0, d.out1).diagnostics
    BY <1>2 DEF EntryOf
  <1>8. /\ e.kind = "disable" <=> Diagnostics(d.out0) = {}
        /\ e.diagnostics = Diagnostics(IF e.kind = "default" THEN d.out0 ELSE d.out1)
    BY <1>2, <1>7 DEF Quiet, Classify
  <1> QED
    BY <1>6, <1>8

----------------------------------------------------------------------------
(* The theorems.                                                           *)

\* No negative is lost and none is counted twice, however often the generator
\* is run, refused or killed: classify and the loop of main.
THEOREM EveryNegativeIsAccounted == ASSUME IdiomsAssumption PROVE Spec => []CorpusSound
  <1>1. Inv => CorpusSound
    BY TypeFollows, AccountFollows DEF CorpusSound
  <1> QED
    BY <1>1, Invariance, PTL

\* The exit code is 1 exactly when a negative was built twice without a line of
\* koru's: a build that succeeds with a warning passes, process.exit in main.
THEOREM GateIsExact == ASSUME IdiomsAssumption PROVE Spec => []ExitTells
  BY GateFollows, Invariance, PTL

\* An entry shows the weakest invocation that bites, with what it said: classify.
THEOREM EntriesAreWeakest == ASSUME IdiomsAssumption PROVE Spec => []WeakestInvocation
  BY WeakestFollows, Invariance, PTL

\* LIFT_IDIOMS.md is only ever replaced by a whole run's corpus, and not by
\* --check: the write at the end of main.
THEOREM FileIsWhole == ASSUME IdiomsAssumption PROVE Spec => FileIsAWholeRun
  <1>1. ASSUME Inv, [Next]_vars, file' # file
        PROVE  ~check /\ Shown(file') = Negatives \ Listed(regressions)
    <2>1. Finish
      BY <1>1 DEF Next, Start, BuildOne, NoKoruc, SkipLift, Kill, vars
    <2>2. ~check /\ file' = catalog /\ lift > Len(Lifts)
      BY <1>1, <2>1 DEF Finish, Written
    <2> QED
      BY <1>1, <2>2, ShownAtEnd DEF Inv
  <1>2. Inv /\ [Next]_vars =>
          [file' # file => ~check /\ Shown(file') = Negatives \ Listed(regressions)]_vars
    BY <1>1
  <1> QED
    BY <1>2, Invariance, PTL DEF Spec, FileIsAWholeRun

=============================================================================
