----------------------------- MODULE CursorProofs -----------------------------
(***************************************************************************)
(* Two that pass over a growing collection in pages, and must leave nothing *)
(* behind: the walk over an account's folders (ImapWalk), which files mail  *)
(* in the archive, and the index run (VectorIndex), which gives what is     *)
(* filed its vectors.  Both are proved for any number of folders, messages, *)
(* runs, rebuilds and faults.                                              *)
(*                                                                         *)
(* A cursor is honest when nothing that is owed lies behind it: archived    *)
(* under its own address for the one (WInv), or searchable for the other    *)
(* (RInv, which rests on vectors and index keeping one length, VInv).       *)
(***************************************************************************)
EXTENDS ImapWalk, VectorIndex,
        FiniteSetTheorems, SequenceTheorems, WellFoundedInduction, TLAPS

(* Both pages are cut at their least and greatest members.                  *)
LEMMA Least ==
    ASSUME NEW S \in SUBSET Nat, S # {}
    PROVE  \E x \in S : \A y \in S : x <= y
<1>. DEFINE R == OpToRel(<, Nat)
<1>1. IsWellFoundedOn(R, Nat)
  BY NatLessThanWellFounded
<1>2. \A x, y \in Nat : y < x => <<y, x>> \in R
  BY DEF OpToRel
<1>. HIDE DEF R
<1>3. PICK x \in S : \A y \in S : ~(<<y, x>> \in R)
  BY <1>1, WFMin
<1>4. \A y \in S : ~(y < x)
  BY <1>2, <1>3
<1>. QED  BY <1>4

(* By the least cardinality of a set without a greatest element. *)
LEMMA Greatest ==
    ASSUME NEW S \in SUBSET Nat, IsFiniteSet(S), S # {}
    PROVE  \E x \in S : \A y \in S : x >= y
<1>. DEFINE HasMax(T) == \E x \in T : \A y \in T : x >= y
            bad == {n \in Nat : \E T \in SUBSET S : T # {} /\ ~HasMax(T) /\ Cardinality(T) = n}
<1>. SUFFICES ASSUME ~HasMax(S)  PROVE FALSE
  OBVIOUS
<1>1. \A T \in SUBSET S : IsFiniteSet(T) /\ Cardinality(T) \in Nat
  BY FS_Subset, FS_CardinalityType
<1>2. Cardinality(S) \in bad
  BY <1>1
<1>3. PICK n \in bad : \A k \in bad : n <= k
  <2>1. bad \in SUBSET Nat /\ bad # {}
    BY <1>2
  <2>. HIDE DEF bad
  <2>. QED  BY <2>1, Least
<1>4. PICK T \in SUBSET S : T # {} /\ ~HasMax(T) /\ Cardinality(T) = n
  BY <1>3
<1>5. PICK x \in T : TRUE
  BY <1>4
<1>6. T \ {x} \in SUBSET S /\ Cardinality(T \ {x}) = n - 1 /\ n - 1 \in Nat
  <2>1. T \ {x} \in SUBSET S /\ IsFiniteSet(T)
    BY <1>1, <1>4
  <2>2. Cardinality(T \ {x}) = Cardinality(T) - 1
    BY <1>5, <2>1, FS_RemoveElement
  <2>3. Cardinality(T \ {x}) \in Nat
    BY <1>1, <2>1
  <2>. QED  BY <1>4, <2>1, <2>2, <2>3
<1>7. T \ {x} # {}
  <2>. SUFFICES ASSUME T \ {x} = {}  PROVE FALSE
    OBVIOUS
  <2>1. \A y \in T : y = x
    OBVIOUS
  <2>. QED  BY <1>4, <1>5, <2>1
<1>8. n - 1 \notin bad
  BY <1>3, <1>6
<1>9. HasMax(T \ {x})
  BY <1>6, <1>7, <1>8
<1>10. PICK z \in T \ {x} : \A y \in T \ {x} : z >= y
  BY <1>9
<1>11. x \in Nat /\ z \in Nat
  BY <1>4, <1>5, <1>10
<1>12. CASE x >= z
  <2>1. \A y \in T : x >= y
    BY <1>4, <1>10, <1>11, <1>12
  <2>. QED  BY <1>4, <1>5, <2>1
<1>13. CASE z >= x
  <2>1. \A y \in T : z >= y
    BY <1>4, <1>10, <1>11, <1>13
  <2>. QED  BY <1>4, <1>10, <2>1
<1>. QED  BY <1>11, <1>12, <1>13

LEMMA MaxIsGreatest ==
    ASSUME NEW S \in SUBSET Nat, IsFiniteSet(S), S # {}
    PROVE  Max(S) \in S /\ Max(S) \in Nat /\ \A y \in S : Max(S) >= y
BY Greatest DEF Max

LEMMA MinIsLeast ==
    ASSUME NEW S \in SUBSET Nat, S # {}
    PROVE  Min(S) \in S /\ Min(S) \in Nat /\ \A y \in S : Min(S) <= y
BY Least DEF Min

-----------------------------------------------------------------------------
(* The walks.  A mark is honest when no message that is due lies below it.  *)
(* What a walk has to keep is that the cursor it goes on from is honest, and *)
(* that every folder before the cursor is done with: nothing due there lies  *)
(* below the mark the walk began with.                                      *)
Token   == [at : Nat, marks : [Folder -> [gen : Nat, next : Nat]]]
OpenRec == [folder : Folder, after : SUBSET Folder, gen : Nat, next : Nat, first : Nat]
WalkAt  == {"idle", "watermark", "bootstrap", "park", "list", "examine", "search",
            "fetch", "turn", "store", "unpark"}

WalkTypeOK ==
    /\ folder \in [Folder -> [there : BOOLEAN, gen : Nat \ {0}, next : Nat \ {0}]]
    /\ place \in [Mail -> (Folder \X (Nat \ {0})) \cup {Absent}]
    /\ was \subseteq Folder \X Nat \X Nat \X Mail /\ before \subseteq Folder
    /\ {full, pending, incr, cursor, mark} \subseteq Token \cup {Absent}
    /\ pc \in WalkAt /\ mode \in {"full", "incremental"}
    /\ todo \subseteq Folder /\ Inbox \in There

(* The server's promises: an address is one message's, for ever.            *)
Placed ==
    \A m \in Lying : /\ place[m][1] \in There /\ place[m][2] < folder[place[m][1]].next
                     /\ <<place[m][1], folder[place[m][1]].gen, place[m][2], m>> \in was

Given ==
    /\ \A r \in was : /\ r[2] <= folder[r[1]].gen
                      /\ r[2] = folder[r[1]].gen => r[3] < folder[r[1]].next
    /\ \A r, s \in was : r[1] = s[1] /\ r[2] = s[2] /\ r[3] = s[3] => r[4] = s[4]

(* A mark is of the past.                                                   *)
OfThePast(c) ==
    \A f \in Folder : /\ c.marks[f].gen <= folder[f].gen
                      /\ c.marks[f].gen = folder[f].gen => c.marks[f].next <= folder[f].next

MarksArePast == \A c \in {full, pending, incr, cursor, mark} \ {Absent} : OfThePast(c)

(* Folders in front of a starting point are known to be there.              *)
FrontIsKnown ==
    \A c \in {incr, pending, mark} \ {Absent} : \A f \in There : f < c.at => f \in before

Below(c, m) ==
    /\ c.marks[place[m][1]].gen = folder[place[m][1]].gen
    /\ place[m][2] < c.marks[place[m][1]].next

Due(m)  == m \in Lying /\ m \notin Archived /\ place[m][1] \notin before
Owed(m) == Due(m) /\ (mode = "full" \/ Address(m) \notin exempt)

IncrIsHonest ==
    incr # Absent => \A m \in Mail : Due(m) /\ Address(m) \notin exempt => ~Below(incr, m)

(* The cursor an interrupted walk left, with the mark it began with.        *)
FullIsHonest ==
    full # Absent => /\ pending # Absent
                   /\ \A m \in Mail : Due(m) =>
                         ~Below(full, m) /\ (place[m][1] < full.at => ~Below(pending, m))

Walking == {"list", "examine", "search", "fetch", "turn", "store"}

(* What a run knows at each of its steps.                                   *)
RunInOrder ==
    /\ pc # "idle" => mark # Absent
    /\ pc = "idle" => mark = Absent
    /\ pc \notin {"fetch"} => refs = {}
    /\ pc \in {"watermark", "park"} /\ mode = "full" => cursor = Absent /\ full = Absent
    /\ pc = "watermark" /\ mode = "incremental" => cursor = incr
    /\ pc = "watermark" => todo # {}
    /\ pc = "bootstrap" => mode = "incremental" /\ incr = Absent
    /\ pc = "park" => mode = "full"
    /\ pc \in Walking /\ mode = "full" => pending = mark
    /\ pc \in {"store", "unpark"} => cursor = Absent /\ (mode = "full" => full = Absent)
    /\ pc = "unpark" => mode = "full"

(* What is owed is on the page, above the cursor, or in a folder behind it.  *)
Reached(m) ==
    IF cursor = Absent THEN ~Below(mark, m)
    ELSE ~Below(cursor, m) /\ (place[m][1] < cursor.at => ~Below(mark, m))

CursorIsHonest ==
    /\ pc \in {"list", "examine", "search"} /\ cursor # Absent =>
         \A m \in Mail : Owed(m) => Reached(m)
    /\ pc \in {"fetch", "turn", "store"} =>
         \A m \in Mail : Owed(m) => Address(m) \in refs \/ Reached(m)

(* The folder that is open, and those around it.                            *)
OpenIsHonest ==
    pc \in {"examine", "search"} =>
        /\ open \in OpenRec
        /\ \A m \in Mail : Owed(m) =>
             /\ place[m][1] < open.folder => ~Below(mark, m)
             /\ place[m][1] > open.folder /\ place[m][1] \notin open.after => ~Below(mark, m)

SearchIsHonest ==
    pc = "search" =>
        LET f == open.folder
        IN  /\ open.gen = folder[f].gen =>
                 open.next <= folder[f].next /\ open.first <= folder[f].next
            /\ open.gen <= folder[f].gen
            /\ \A m \in Mail : Owed(m) /\ place[m][1] = f /\ open.gen = folder[f].gen =>
                 place[m][2] >= open.first

WInv ==
    /\ WalkTypeOK /\ Placed /\ Given /\ FiledUnderItsOwn
    /\ MarksArePast /\ FrontIsKnown /\ RunInOrder
    /\ IncrIsHonest /\ FullIsHonest /\ CursorIsHonest /\ OpenIsHonest /\ SearchIsHonest
-----------------------------------------------------------------------------
(* What may happen to the mailbox: UIDVALIDITYs and UIDNEXTs only grow, and  *)
(* a message lies where it lay or under a UID that was not given before.    *)
Grown(f) ==
    \/ folder'[f].gen > folder[f].gen
    \/ folder'[f].gen = folder[f].gen /\ folder'[f].next >= folder[f].next

Stays(m) ==
    /\ m \in Lying /\ place'[m] = place[m]
    /\ folder'[place[m][1]].gen = folder[place[m][1]].gen

Fresh(m) ==
    LET f == place'[m][1]
    IN  \/ folder'[f].gen > folder[f].gen
        \/ folder'[f].gen = folder[f].gen /\ place'[m][2] >= folder[f].next

FolderRec == [there : BOOLEAN, gen : Nat \ {0}, next : Nat \ {0}]
PlaceSet  == (Folder \X (Nat \ {0})) \cup {Absent}

ServerOK == /\ folder \in [Folder -> FolderRec] /\ place \in [Mail -> PlaceSet]
            /\ was \subseteq Folder \X Nat \X Nat \X Mail /\ before \subseteq Folder
            /\ Inbox \in There

Evolved ==
    /\ ServerOK' /\ Placed' /\ Given' /\ was \subseteq was' /\ before \subseteq before'
    /\ \A f \in Folder : Grown(f)
    /\ \A m \in Lying' : Stays(m) \/ Fresh(m)
    /\ \A f \in There' \ There : \A s \in StartingPoints : f < s => f \in before'

Steady == UNCHANGED <<ledger, scopes, pc, mode, cursor, mark, todo, listing, exempt>>

LEMMA ServerTypes == WalkTypeOK => ServerOK
BY DEF WalkTypeOK, ServerOK, FolderRec, PlaceSet

LEMMA LyingFacts ==
    ASSUME ServerOK, NEW m \in Lying
    PROVE  /\ m \in Mail /\ place[m] = <<place[m][1], place[m][2]>>
           /\ place[m][1] \in Folder /\ place[m][2] \in Nat \ {0}
BY DEF ServerOK, PlaceSet, Lying

(* Growth keeps every address that was given within bounds.                 *)
LEMMA GivenGrows ==
    ASSUME ServerOK, Given, folder' \in [Folder -> FolderRec], \A f \in Folder : Grown(f),
           NEW r \in was
    PROVE  /\ r[2] <= folder'[r[1]].gen
           /\ r[2] = folder'[r[1]].gen => r[3] < folder'[r[1]].next
           /\ r[1] \in Folder
<1>1. r[1] \in Folder /\ r[2] \in Nat /\ r[3] \in Nat
  BY DEF ServerOK
<1>2. folder[r[1]] \in FolderRec /\ folder'[r[1]] \in FolderRec
  BY <1>1 DEF ServerOK
<1>3. /\ folder[r[1]].gen \in Nat /\ folder[r[1]].next \in Nat
      /\ folder'[r[1]].gen \in Nat /\ folder'[r[1]].next \in Nat
  BY <1>2 DEF FolderRec
<1>4. r[2] <= folder[r[1]].gen /\ (r[2] = folder[r[1]].gen => r[3] < folder[r[1]].next)
  BY DEF Given
<1>5. Grown(r[1])
  BY <1>1
<1>. QED  BY <1>1, <1>3, <1>4, <1>5 DEF Grown

LEMMA PlacedStays ==
    ASSUME ServerOK, Placed, folder' \in [Folder -> FolderRec], \A f \in Folder : Grown(f),
           was \subseteq was', NEW n \in Lying,
           place'[n] = place[n], place[n][1] \in There',
           folder'[place[n][1]].gen = folder[place[n][1]].gen
    PROVE  /\ place'[n][1] \in There' /\ place'[n][2] < folder'[place'[n][1]].next
           /\ <<place'[n][1], folder'[place'[n][1]].gen, place'[n][2], n>> \in was'
<1>1. place[n][1] \in Folder /\ place[n][2] \in Nat
  BY LyingFacts
<1>2. folder[place[n][1]] \in FolderRec /\ folder'[place[n][1]] \in FolderRec
  BY <1>1 DEF ServerOK
<1>3. folder'[place[n][1]].next >= folder[place[n][1]].next
  <2>1. Grown(place[n][1])
    BY <1>1
  <2>2. folder[place[n][1]].gen \in Nat /\ folder'[place[n][1]].gen \in Nat
    BY <1>2 DEF FolderRec
  <2>. QED  BY <2>1, <2>2 DEF Grown
<1>4. /\ place[n][2] < folder[place[n][1]].next
      /\ <<place[n][1], folder[place[n][1]].gen, place[n][2], n>> \in was
  BY DEF Placed
<1>5. place'[n][2] < folder'[place'[n][1]].next
  BY <1>1, <1>2, <1>3, <1>4 DEF FolderRec
<1>. QED  BY <1>4, <1>5

LEMMA PutEvolves ==
    ASSUME ServerOK, Placed, Given, NEW f \in Folder, NEW m \in Mail, Put(m, f)
    PROVE  Evolved
<1>1. /\ f \in There /\ before' = before
      /\ place' = [place EXCEPT ![m] = <<f, folder[f].next>>]
      /\ folder' = [folder EXCEPT ![f].next = folder[f].next + 1]
      /\ was' = was \cup {<<f, folder[f].gen, folder[f].next, m>>}
  BY DEF Put
<1>2. folder[f] \in FolderRec
  BY DEF ServerOK
<1>3. /\ folder' \in [Folder -> FolderRec]
      /\ folder'[f].next = folder[f].next + 1 /\ folder'[f].gen = folder[f].gen
      /\ \A g \in Folder : g # f => folder'[g] = folder[g]
      /\ \A g \in Folder : folder'[g].gen = folder[g].gen /\ folder'[g].there = folder[g].there
  BY <1>1, <1>2 DEF ServerOK, FolderRec
<1>4. There' = There
  BY <1>3 DEF There
<1>5. /\ place' \in [Mail -> PlaceSet] /\ place'[m] = <<f, folder[f].next>>
      /\ \A n \in Mail : n # m => place'[n] = place[n]
  BY <1>1, <1>2 DEF ServerOK, PlaceSet, FolderRec
<1>6. ServerOK'
  BY <1>1, <1>2, <1>3, <1>4, <1>5 DEF ServerOK, FolderRec
<1>7. \A g \in Folder : folder[g].next \in Nat /\ folder[g].gen \in Nat
                        /\ folder'[g].next >= folder[g].next
  BY <1>2, <1>3 DEF ServerOK, FolderRec
<1>8. \A g \in Folder : Grown(g)
  BY <1>3, <1>7 DEF Grown
<1>9. \A n \in Lying' : n # m => n \in Lying /\ place'[n] = place[n]
  BY <1>5 DEF Lying
<1>10. Placed'
  <2>. SUFFICES ASSUME NEW n \in Lying'
       PROVE  /\ place'[n][1] \in There' /\ place'[n][2] < folder'[place'[n][1]].next
              /\ <<place'[n][1], folder'[place'[n][1]].gen, place'[n][2], n>> \in was'
    BY DEF Placed
  <2>1. CASE n = m
    BY <1>1, <1>3, <1>4, <1>5, <1>7, <2>1
  <2>2. CASE n # m
    <3>1. n \in Lying /\ place'[n] = place[n]
      BY <1>9, <2>2
    <3>2. place[n][1] \in There' /\ folder'[place[n][1]].gen = folder[place[n][1]].gen
      BY <1>3, <1>4, <3>1, LyingFacts DEF Placed
    <3>. QED  BY <1>1, <1>3, <1>8, <3>1, <3>2, PlacedStays
  <2>. QED  BY <2>1, <2>2
<1>11. Given'
  <2>1. \A r \in was : r[1] \in Folder /\ r[2] \in Nat /\ r[3] \in Nat
    BY DEF ServerOK
  <2>2. \A r \in was' : r \in was \/ r = <<f, folder[f].gen, folder[f].next, m>>
    BY <1>1
  <2>3. \A r \in was' : /\ r[2] <= folder'[r[1]].gen
                        /\ r[2] = folder'[r[1]].gen => r[3] < folder'[r[1]].next
    <3>. SUFFICES ASSUME NEW r \in was'
         PROVE  /\ r[2] <= folder'[r[1]].gen
                /\ r[2] = folder'[r[1]].gen => r[3] < folder'[r[1]].next
      OBVIOUS
    <3>1. CASE r \in was
      BY <1>3, <1>8, <3>1, GivenGrows
    <3>2. CASE r = <<f, folder[f].gen, folder[f].next, m>>
      <4>1. r[1] = f /\ r[2] = folder[f].gen /\ r[3] = folder[f].next
        BY <3>2
      <4>. QED  BY <1>3, <1>7, <4>1
    <3>. QED  BY <2>2, <3>1, <3>2
  <2>4. \A r \in was : ~(r[1] = f /\ r[2] = folder[f].gen /\ r[3] = folder[f].next)
    BY <1>7, <2>1 DEF Given
  <2>5. \A r, s \in was' : r[1] = s[1] /\ r[2] = s[2] /\ r[3] = s[3] => r[4] = s[4]
    BY <2>2, <2>4 DEF Given
  <2>. QED  BY <2>3, <2>5 DEF Given
<1>12. \A n \in Lying' : Stays(n) \/ Fresh(n)
  <2>. SUFFICES ASSUME NEW n \in Lying'  PROVE Stays(n) \/ Fresh(n)
    OBVIOUS
  <2>1. CASE n = m
    <3>1. place'[n][1] = f /\ place'[n][2] = folder[f].next
      BY <1>5, <2>1
    <3>. QED  BY <1>3, <1>7, <3>1 DEF Fresh
  <2>2. CASE n # m
    BY <1>3, <1>9, <2>2, LyingFacts DEF Stays
  <2>. QED  BY <2>1, <2>2
<1>. QED  BY <1>1, <1>4, <1>6, <1>8, <1>10, <1>11, <1>12 DEF Evolved

(* A folder that is made again, or renumbered, has another UIDVALIDITY.     *)
LEMMA MakeEvolves ==
    ASSUME ServerOK, Placed, Given, NEW f \in Folder, Make(f)
    PROVE  Evolved
<1>1. /\ f \notin There /\ place' = place /\ was' = was
      /\ folder' = [folder EXCEPT ![f] = [there |-> TRUE, gen |-> folder[f].gen + 1, next |-> 1]]
      /\ before' = IF \E s \in StartingPoints : f < s THEN before \cup {f} ELSE before
  BY DEF Make
<1>2. \A g \in Folder : folder[g].next \in Nat /\ folder[g].gen \in Nat
  BY DEF ServerOK, FolderRec
<1>3. /\ folder' \in [Folder -> FolderRec]
      /\ folder'[f].there /\ folder'[f].gen = folder[f].gen + 1 /\ folder'[f].next = 1
      /\ \A g \in Folder : g # f => folder'[g] = folder[g]
  BY <1>1, <1>2 DEF ServerOK, FolderRec
<1>4. There' = There \cup {f}
  BY <1>3 DEF There
<1>5. ServerOK'
  BY <1>1, <1>3, <1>4 DEF ServerOK
<1>6. \A n \in Lying' : /\ n \in Lying /\ place'[n] = place[n]
                        /\ place[n][1] \in Folder /\ place[n][1] # f
  BY <1>1, LyingFacts DEF Lying, Placed
<1>7. \A g \in Folder : Grown(g)
  <2>1. Grown(f)
    BY <1>2, <1>3 DEF Grown
  <2>2. \A g \in Folder : g # f => Grown(g)
    BY <1>2, <1>3 DEF Grown
  <2>. QED  BY <2>1, <2>2
<1>8. \A n \in Lying' : Stays(n)
  BY <1>3, <1>6 DEF Stays
<1>9. Placed'
  <2>1. \A n \in Lying' : place[n][1] \in There'
    BY <1>4, <1>6 DEF Placed
  <2>. QED  BY <1>1, <1>3, <1>7, <1>8, <2>1, PlacedStays DEF Placed, Stays
<1>10. Given'
  BY <1>1, <1>3, <1>7, GivenGrows DEF Given
<1>11. \A g \in There' \ There : \A s \in StartingPoints : g < s => g \in before'
  BY <1>1, <1>4
<1>. QED  BY <1>1, <1>5, <1>7, <1>8, <1>9, <1>10, <1>11 DEF Evolved

LEMMA RemoveEvolves ==
    ASSUME ServerOK, Placed, Given, NEW f \in Folder, Remove(f)
    PROVE  Evolved
<1>1. /\ f # Inbox /\ was' = was /\ before' = before
      /\ folder' = [folder EXCEPT ![f].there = FALSE]
      /\ place' = [m \in Mail |-> IF m \in LiesIn(f) THEN Absent ELSE place[m]]
  BY DEF Remove
<1>2. \A g \in Folder : folder[g] \in FolderRec
  BY DEF ServerOK
<1>3. /\ folder' \in [Folder -> FolderRec]
      /\ \A g \in Folder : folder'[g].gen = folder[g].gen /\ folder'[g].next = folder[g].next
      /\ \A g \in Folder : g # f => folder'[g] = folder[g]
      /\ ~folder'[f].there
  BY <1>1, <1>2 DEF ServerOK, FolderRec
<1>4. There' = There \ {f}
  BY <1>3 DEF There
<1>5. place' \in [Mail -> PlaceSet]
  BY <1>1 DEF ServerOK, PlaceSet
<1>6. ServerOK'
  BY <1>1, <1>3, <1>4, <1>5 DEF ServerOK
<1>7. \A n \in Lying' : /\ n \in Lying /\ place'[n] = place[n]
                        /\ place[n][1] \in Folder /\ place[n][1] # f
  BY <1>1, LyingFacts DEF Lying, LiesIn
<1>8. \A g \in Folder : Grown(g)
  <2>1. \A g \in Folder : folder[g].next \in Nat /\ folder[g].gen \in Nat
    BY <1>2 DEF FolderRec
  <2>2. ASSUME NEW g \in Folder  PROVE Grown(g)
    <3>1. folder'[g].gen = folder[g].gen /\ folder'[g].next = folder[g].next
      BY <1>3
    <3>. QED  BY <2>1, <3>1 DEF Grown
  <2>. QED  BY <2>2
<1>9. \A n \in Lying' : Stays(n)
  BY <1>3, <1>7 DEF Stays
<1>10. Placed'
  <2>1. \A n \in Lying' : place[n][1] \in There'
    BY <1>4, <1>7 DEF Placed
  <2>. QED  BY <1>1, <1>3, <1>8, <1>9, <2>1, PlacedStays DEF Placed, Stays
<1>11. Given'
  BY <1>1, <1>3, <1>8, GivenGrows DEF Given
<1>. QED  BY <1>1, <1>4, <1>6, <1>8, <1>9, <1>10, <1>11 DEF Evolved

LEMMA RenumberEvolves ==
    ASSUME ServerOK, Placed, Given, NEW f \in Folder, Renumber(f)
    PROVE  Evolved
<1>. DEFINE K == Cardinality(LiesIn(f))
<1>1. K \in Nat
  <2>1. LiesIn(f) \in SUBSET Mail
    BY DEF LiesIn, Lying
  <2>. QED  BY <2>1, ImapAssumption, FS_Subset, FS_CardinalityType
<1>. HIDE DEF K
<1>2. /\ f \in There /\ before' = before
      /\ folder' = [folder EXCEPT ![f].gen = folder[f].gen + 1, ![f].next = K + 1]
  BY DEF Renumber, K
<1>3. PICK uid \in [LiesIn(f) -> 1..K] :
         /\ \A m, n \in LiesIn(f) : uid[m] = uid[n] => m = n
         /\ place' = [m \in Mail |-> IF m \in LiesIn(f) THEN <<f, uid[m]>> ELSE place[m]]
         /\ was' = was \cup {<<f, folder[f].gen + 1, uid[m], m>> : m \in LiesIn(f)}
  BY DEF Renumber, K
<1>4. \A g \in Folder : folder[g] \in FolderRec
  BY DEF ServerOK
<1>5. /\ folder' \in [Folder -> FolderRec]
      /\ folder'[f].gen = folder[f].gen + 1 /\ folder'[f].next = K + 1
      /\ \A g \in Folder : g # f => folder'[g] = folder[g]
      /\ \A g \in Folder : folder'[g].there = folder[g].there
  <2>. DEFINE x == [folder[f] EXCEPT !.gen = folder[f].gen + 1, !.next = K + 1]
  <2>1. folder' = [folder EXCEPT ![f] = x]
    BY <1>2, <1>4 DEF FolderRec
  <2>2. x \in FolderRec /\ x.gen = folder[f].gen + 1 /\ x.next = K + 1
        /\ x.there = folder[f].there
    <3>1. folder[f] \in FolderRec /\ folder[f].gen + 1 \in Nat \ {0} /\ K + 1 \in Nat \ {0}
      BY <1>1, <1>4 DEF FolderRec
    <3>. QED  BY <3>1 DEF FolderRec
  <2>. HIDE DEF x
  <2>. QED  BY <2>1, <2>2 DEF ServerOK
<1>6. There' = There
  BY <1>5 DEF There
<1>7. \A m \in LiesIn(f) : uid[m] \in Nat \ {0} /\ uid[m] <= K /\ m \in Mail
  BY <1>1, <1>3 DEF LiesIn, Lying
<1>8. /\ \A m \in LiesIn(f) : place'[m] = <<f, uid[m]>>
      /\ \A m \in Mail \ LiesIn(f) : place'[m] = place[m]
  BY <1>3, <1>7
<1>9. place' \in [Mail -> PlaceSet]
  BY <1>3, <1>7 DEF ServerOK, PlaceSet
<1>10. was' \subseteq Folder \X Nat \X Nat \X Mail
  BY <1>3, <1>4, <1>7 DEF ServerOK, FolderRec
<1>11. ServerOK'
  BY <1>2, <1>5, <1>6, <1>9, <1>10 DEF ServerOK
<1>12. \A n \in Lying' : n \in LiesIn(f) \/
          (/\ n \in Lying /\ place'[n] = place[n]
           /\ place[n][1] \in Folder /\ place[n][1] # f)
  BY <1>8, LyingFacts DEF Lying, LiesIn
<1>13. \A g \in Folder : folder[g].gen \in Nat /\ folder[g].next \in Nat
  BY <1>4 DEF FolderRec
<1>14. \A g \in Folder : Grown(g)
  BY <1>5, <1>13 DEF Grown
<1>15. Placed'
  <2>. SUFFICES ASSUME NEW n \in Lying'
       PROVE  /\ place'[n][1] \in There' /\ place'[n][2] < folder'[place'[n][1]].next
              /\ <<place'[n][1], folder'[place'[n][1]].gen, place'[n][2], n>> \in was'
    BY DEF Placed
  <2>1. CASE n \in LiesIn(f)
    <3>1. place'[n] = <<f, uid[n]>> /\ place'[n][1] = f /\ place'[n][2] = uid[n]
      BY <1>8, <2>1
    <3>2. uid[n] < folder'[f].next
      BY <1>1, <1>5, <1>7, <2>1
    <3>3. <<f, folder'[f].gen, uid[n], n>> \in was'
      BY <1>3, <1>5, <2>1
    <3>. QED  BY <1>2, <1>6, <3>1, <3>2, <3>3
  <2>2. CASE n \notin LiesIn(f)
    <3>1. n \in Lying /\ place'[n] = place[n] /\ place[n][1] \in Folder /\ place[n][1] # f
      BY <1>12, <2>2
    <3>2. place[n][1] \in There'
      BY <1>6, <3>1 DEF Placed
    <3>3. folder'[place[n][1]].gen = folder[place[n][1]].gen
      BY <1>5, <3>1
    <3>4. was \subseteq was'
      BY <1>3
    <3>. QED  BY <1>5, <1>14, <3>1, <3>2, <3>3, <3>4, PlacedStays
  <2>. QED  BY <2>1, <2>2
<1>16. Given'
  <2>1. \A r \in was : r[1] \in Folder /\ r[2] \in Nat /\ r[3] \in Nat
    BY DEF ServerOK
  <2>2. \A r \in was' : r \in was
          \/ \E m \in LiesIn(f) : r = <<f, folder[f].gen + 1, uid[m], m>>
    BY <1>3
  <2>3. \A r \in was : r[1] = f => r[2] < folder[f].gen + 1
    BY <1>13, <2>1 DEF Given
  <2>4. \A r \in was' : /\ r[2] <= folder'[r[1]].gen
                        /\ r[2] = folder'[r[1]].gen => r[3] < folder'[r[1]].next
    <3>. SUFFICES ASSUME NEW r \in was'
         PROVE  /\ r[2] <= folder'[r[1]].gen
                /\ r[2] = folder'[r[1]].gen => r[3] < folder'[r[1]].next
      OBVIOUS
    <3>1. CASE r \in was
      BY <1>5, <1>14, <3>1, GivenGrows
    <3>2. CASE r \notin was
      <4>1. PICK m \in LiesIn(f) : r = <<f, folder[f].gen + 1, uid[m], m>>
        BY <2>2, <3>2
      <4>2. r[1] = f /\ r[2] = folder[f].gen + 1 /\ r[3] = uid[m]
        BY <4>1
      <4>3. folder'[r[1]].gen = r[2] /\ r[3] < folder'[r[1]].next
        BY <1>1, <1>5, <1>7, <4>2
      <4>4. r[2] \in Nat
        <5>1. folder[f].gen \in Nat
          BY <1>13
        <5>. QED  BY <4>2, <5>1
      <4>. QED  BY <4>3, <4>4
    <3>. QED  BY <3>1, <3>2
  <2>5. \A r, s \in was' : r[1] = s[1] /\ r[2] = s[2] /\ r[3] = s[3] => r[4] = s[4]
    <3>. SUFFICES ASSUME NEW r \in was', NEW s \in was',
                         r[1] = s[1], r[2] = s[2], r[3] = s[3]
         PROVE  r[4] = s[4]
      OBVIOUS
    <3>1. CASE r \in was /\ s \in was
      BY <3>1 DEF Given
    <3>2. CASE r \notin was /\ s \notin was
      <4>1. PICK m \in LiesIn(f) : r = <<f, folder[f].gen + 1, uid[m], m>>
        BY <2>2, <3>2
      <4>2. PICK n \in LiesIn(f) : s = <<f, folder[f].gen + 1, uid[n], n>>
        BY <2>2, <3>2
      <4>3. uid[m] = uid[n]
        BY <4>1, <4>2
      <4>. QED  BY <1>3, <4>1, <4>2, <4>3
    <3>3. CASE r \in was /\ s \notin was
      <4>1. PICK n \in LiesIn(f) : s = <<f, folder[f].gen + 1, uid[n], n>>
        BY <2>2, <3>3
      <4>2. r[1] = f /\ r[2] = folder[f].gen + 1
        BY <4>1
      <4>. QED  BY <1>13, <2>1, <2>3, <3>3, <4>2
    <3>4. CASE r \notin was /\ s \in was
      <4>1. PICK n \in LiesIn(f) : r = <<f, folder[f].gen + 1, uid[n], n>>
        BY <2>2, <3>4
      <4>2. s[1] = f /\ s[2] = folder[f].gen + 1
        BY <4>1
      <4>. QED  BY <1>13, <2>1, <2>3, <3>4, <4>2
    <3>. QED  BY <3>1, <3>2, <3>3, <3>4
  <2>. QED  BY <2>4, <2>5 DEF Given
<1>17. \A n \in Lying' : Stays(n) \/ Fresh(n)
  <2>1. \A n \in LiesIn(f) : n \in Lying' => Fresh(n)
    <3>1. \A n \in LiesIn(f) : place'[n][1] = f
      BY <1>8
    <3>2. folder'[f].gen > folder[f].gen
      BY <1>5, <1>13
    <3>. QED  BY <3>1, <3>2 DEF Fresh
  <2>. QED  BY <1>5, <1>12, <2>1 DEF Stays
<1>. QED  BY <1>2, <1>3, <1>6, <1>11, <1>14, <1>15, <1>16, <1>17 DEF Evolved

(* The same mark, seen after the step.                                      *)
BelowThen(c, m) ==
    /\ c.marks[place'[m][1]].gen = folder'[place'[m][1]].gen
    /\ place'[m][2] < c.marks[place'[m][1]].next

LEMMA MarkFacts ==
    ASSUME NEW c \in Token, NEW f \in Folder
    PROVE  c.at \in Nat /\ c.marks[f].gen \in Nat /\ c.marks[f].next \in Nat
<1>1. c.marks[f] \in [gen : Nat, next : Nat]
  BY DEF Token
<1>. QED  BY <1>1 DEF Token

LEMMA FolderFacts ==
    ASSUME ServerOK, NEW f \in Folder
    PROVE  folder[f].gen \in Nat \ {0} /\ folder[f].next \in Nat \ {0}
<1>1. folder[f] \in FolderRec
  BY DEF ServerOK
<1>. QED  BY <1>1 DEF FolderRec

LEMMA FolderThen ==
    ASSUME ServerOK', NEW f \in Folder
    PROVE  folder'[f].gen \in Nat \ {0} /\ folder'[f].next \in Nat \ {0}
<1>1. folder'[f] \in FolderRec
  BY DEF ServerOK
<1>. QED  BY <1>1 DEF FolderRec

LEMMA LyingThen ==
    ASSUME ServerOK', NEW m \in Lying'
    PROVE  m \in Mail /\ place'[m][1] \in Folder /\ place'[m][2] \in Nat \ {0}
BY DEF ServerOK, PlaceSet, Lying

(* A mark of the past says nothing of a message that has only just come.    *)
LEMMA FreshIsAbove ==
    ASSUME ServerOK, Evolved, NEW c \in Token, OfThePast(c), NEW m \in Lying', Fresh(m)
    PROVE  ~BelowThen(c, m)
<1>. DEFINE f == place'[m][1]
<1>1. f \in Folder /\ place'[m][2] \in Nat
  BY LyingThen DEF Evolved
<1>2. /\ c.marks[f].gen \in Nat /\ c.marks[f].next \in Nat
      /\ folder[f].gen \in Nat /\ folder[f].next \in Nat
      /\ folder'[f].gen \in Nat
  BY <1>1, MarkFacts, FolderFacts, FolderThen DEF Evolved
<1>3. c.marks[f].gen <= folder[f].gen
      /\ (c.marks[f].gen = folder[f].gen => c.marks[f].next <= folder[f].next)
  BY <1>1 DEF OfThePast
<1>4. \/ folder'[f].gen > folder[f].gen
      \/ folder'[f].gen = folder[f].gen /\ place'[m][2] >= folder[f].next
  BY DEF Fresh
<1>. HIDE DEF f
<1>5. \/ c.marks[f].gen # folder'[f].gen
      \/ ~(place'[m][2] < c.marks[f].next)
  BY <1>1, <1>2, <1>3, <1>4
<1>. QED  BY <1>5 DEF BelowThen, f

LEMMA PastStaysPast ==
    ASSUME ServerOK, Evolved, NEW c \in Token, OfThePast(c), NEW f \in Folder
    PROVE  /\ c.marks[f].gen <= folder'[f].gen
           /\ c.marks[f].gen = folder'[f].gen => c.marks[f].next <= folder'[f].next
<1>1. /\ c.marks[f].gen \in Nat /\ c.marks[f].next \in Nat
      /\ folder[f].gen \in Nat /\ folder[f].next \in Nat
      /\ folder'[f].gen \in Nat /\ folder'[f].next \in Nat
  BY MarkFacts, FolderFacts, FolderThen DEF Evolved
<1>2. c.marks[f].gen <= folder[f].gen
      /\ (c.marks[f].gen = folder[f].gen => c.marks[f].next <= folder[f].next)
  BY DEF OfThePast
<1>3. Grown(f)
  BY DEF Evolved
<1>. QED  BY <1>1, <1>2, <1>3 DEF Grown

LEMMA StaysAsItWas ==
    ASSUME Evolved, Steady, NEW m \in Mail, Stays(m)
    PROVE  /\ Due(m)' => Due(m)
           /\ Owed(m)' => Owed(m)
           /\ Address(m)' = Address(m) /\ place'[m] = place[m]
           /\ \A c : BelowThen(c, m) <=> Below(c, m)
<1>1. m \in Lying /\ place'[m] = place[m] /\ folder'[place[m][1]].gen = folder[place[m][1]].gen
  BY DEF Stays
<1>2. ledger' = ledger /\ mode' = mode /\ exempt' = exempt /\ before \subseteq before'
  BY DEF Steady, Evolved
<1>3. Address(m)' = Address(m)
  BY <1>1 DEF Address
<1>4. Due(m)' => Due(m)
  BY <1>1, <1>2 DEF Due, Archived
<1>5. Owed(m)' => Owed(m)
  BY <1>2, <1>3, <1>4 DEF Owed
<1>6. \A c : BelowThen(c, m) <=> Below(c, m)
  BY <1>1 DEF BelowThen, Below
<1>. QED  BY <1>1, <1>3, <1>4, <1>5, <1>6

(* What was below a mark, and due, still is what it was.                    *)
LEMMA DueBefore ==
    ASSUME ServerOK, Evolved, Steady, NEW m \in Mail, Due(m)',
           NEW c \in Token, OfThePast(c), BelowThen(c, m)
    PROVE  Stays(m) /\ Below(c, m) /\ Due(m)
<1>1. m \in Lying'
  BY DEF Due
<1>2. Stays(m)
  BY <1>1, FreshIsAbove DEF Evolved
<1>. QED  BY <1>2, StaysAsItWas

LEMMA ChangeIsQuiet ==
    ASSUME WInv, Change
    PROVE  Evolved /\ Steady
<1>1. ServerOK /\ Placed /\ Given
  BY ServerTypes DEF WInv
<1>2. PICK f \in Folder : Make(f) \/ Remove(f) \/ Renumber(f) \/ \E m \in Mail : Put(m, f)
  BY DEF Change
<1>3. Steady
  BY <1>2 DEF Make, Remove, Renumber, Put, Happens, Steady
<1>. QED  BY <1>1, <1>2, <1>3, PutEvolves, MakeEvolves, RemoveEvolves, RenumberEvolves

LEMMA ChangeHolds ==
    ASSUME WInv, Evolved, Steady
    PROVE  WInv'
<1>1. ServerOK /\ WalkTypeOK
  BY ServerTypes DEF WInv
<1>2. /\ ledger' = ledger /\ full' = full /\ pending' = pending /\ incr' = incr
      /\ pc' = pc /\ mode' = mode /\ cursor' = cursor /\ mark' = mark
      /\ todo' = todo /\ open' = open /\ refs' = refs /\ exempt' = exempt
  BY DEF Steady, scopes, listing
<1>3. WalkTypeOK'
  BY <1>1, <1>2 DEF WalkTypeOK, Evolved, ServerOK, FolderRec, PlaceSet
<1>4. \A c \in {full, pending, incr, cursor, mark} \ {Absent} : c \in Token /\ OfThePast(c)
  BY <1>1 DEF WInv, MarksArePast, WalkTypeOK
<1>5. MarksArePast'
  <2>1. \A c \in {full, pending, incr, cursor, mark} \ {Absent} : \A f \in Folder :
           /\ c.marks[f].gen <= folder'[f].gen
           /\ c.marks[f].gen = folder'[f].gen => c.marks[f].next <= folder'[f].next
    BY <1>1, <1>4, PastStaysPast
  <2>. QED  BY <1>2, <2>1 DEF MarksArePast, OfThePast
<1>6. FrontIsKnown'
  <2>. SUFFICES ASSUME NEW c \in {incr, pending, mark} \ {Absent}, NEW f \in There', f < c.at
       PROVE  f \in before'
    BY <1>2 DEF FrontIsKnown
  <2>1. CASE f \in There
    BY <2>1 DEF WInv, FrontIsKnown, Evolved
  <2>2. CASE f \notin There
    <3>1. c.at \in StartingPoints
      BY DEF StartingPoints
    <3>. QED  BY <2>2, <3>1 DEF Evolved
  <2>. QED  BY <2>1, <2>2
<1>7. FiledUnderItsOwn'
  BY <1>2 DEF WInv, FiledUnderItsOwn, Evolved
<1>8. RunInOrder'
  BY <1>2 DEF WInv, RunInOrder, Walking
<1>9. ASSUME NEW m \in Mail, Due(m)', NEW c \in {full, pending, incr, cursor, mark} \ {Absent},
             BelowThen(c, m)
      PROVE  /\ Below(c, m) /\ Due(m) /\ (Owed(m)' => Owed(m))
             /\ Address(m)' = Address(m) /\ place'[m] = place[m]
  BY <1>1, <1>4, <1>9, DueBefore, StaysAsItWas
<1>10. IncrIsHonest'
  <2>. SUFFICES ASSUME incr # Absent, NEW m \in Mail, Due(m)', Address(m)' \notin exempt,
                       BelowThen(incr, m)
       PROVE  FALSE
    BY <1>2 DEF IncrIsHonest, Below, BelowThen
  <2>1. Below(incr, m) /\ Due(m) /\ Address(m) \notin exempt
    BY <1>9
  <2>. QED  BY <2>1 DEF WInv, IncrIsHonest
<1>11. FullIsHonest'
  <2>. SUFFICES ASSUME full # Absent
       PROVE  /\ pending # Absent
              /\ \A m \in Mail : Due(m)' =>
                    ~BelowThen(full, m) /\ (place'[m][1] < full.at => ~BelowThen(pending, m))
    BY <1>2 DEF FullIsHonest, Below, BelowThen
  <2>1. pending # Absent
    BY DEF WInv, FullIsHonest
  <2>2. ASSUME NEW m \in Mail, Due(m)'  PROVE ~BelowThen(full, m)
    BY <1>9, <2>2 DEF WInv, FullIsHonest
  <2>3. ASSUME NEW m \in Mail, Due(m)', place'[m][1] < full.at  PROVE ~BelowThen(pending, m)
    BY <1>9, <2>1, <2>3 DEF WInv, FullIsHonest
  <2>. QED  BY <2>1, <2>2, <2>3
<1>12. ASSUME NEW m \in Mail, Owed(m)', pc # "idle",
              pc \notin {"list", "examine", "search"} \/ cursor # Absent,
              Owed(m) => Address(m) \in refs \/ Reached(m)
       PROVE  Address(m)' \in refs' \/ Reached(m)'
  <2>1. Due(m)' /\ mark # Absent
    BY <1>12 DEF Owed, WInv, RunInOrder
  <2>2. CASE cursor = Absent
    <3>1. ~BelowThen(mark, m) => Reached(m)'
      BY <1>2, <2>2 DEF Reached, Below, BelowThen
    <3>2. BelowThen(mark, m) => Address(m)' \in refs'
      <4>. HAVE BelowThen(mark, m)
      <4>1. Below(mark, m) /\ Owed(m) /\ Address(m)' = Address(m)
        BY <1>9, <1>12, <2>1
      <4>. QED  BY <1>2, <1>12, <2>2, <4>1 DEF Reached
    <3>. QED  BY <3>1, <3>2
  <2>3. CASE cursor # Absent
    <3>1. ~BelowThen(cursor, m) /\ (place'[m][1] < cursor.at => ~BelowThen(mark, m))
          => Reached(m)'
      BY <1>2, <2>3 DEF Reached, Below, BelowThen
    <3>2. BelowThen(cursor, m) => Address(m)' \in refs'
      <4>. HAVE BelowThen(cursor, m)
      <4>1. Below(cursor, m) /\ Owed(m) /\ Address(m)' = Address(m)
        BY <1>9, <1>12, <2>1, <2>3
      <4>. QED  BY <1>2, <1>12, <2>3, <4>1 DEF Reached
    <3>3. BelowThen(mark, m) /\ place'[m][1] < cursor.at => Address(m)' \in refs'
      <4>. HAVE BelowThen(mark, m) /\ place'[m][1] < cursor.at
      <4>1. Below(mark, m) /\ Owed(m) /\ Address(m)' = Address(m) /\ place[m][1] < cursor.at
        BY <1>9, <1>12, <2>1
      <4>. QED  BY <1>2, <1>12, <2>3, <4>1 DEF Reached
    <3>. QED  BY <3>1, <3>2, <3>3
  <2>. QED  BY <2>2, <2>3
<1>13. CursorIsHonest'
  <2>1. ASSUME pc \in {"list", "examine", "search"}, cursor # Absent, NEW m \in Mail, Owed(m)'
        PROVE  Reached(m)'
    <3>1. refs' = {}
      BY <1>2, <2>1 DEF WInv, RunInOrder
    <3>2. Owed(m) => Reached(m)
      BY <2>1 DEF WInv, CursorIsHonest
    <3>. QED  BY <1>12, <2>1, <3>1, <3>2
  <2>2. ASSUME pc \in {"fetch", "turn", "store"}, NEW m \in Mail, Owed(m)'
        PROVE  Address(m)' \in refs' \/ Reached(m)'
    <3>1. Owed(m) => Address(m) \in refs \/ Reached(m)
      BY <2>2 DEF WInv, CursorIsHonest
    <3>. QED  BY <1>12, <2>2, <3>1
  <2>. QED  BY <1>2, <2>1, <2>2 DEF CursorIsHonest
<1>14. OpenIsHonest'
  <2>. SUFFICES ASSUME pc \in {"examine", "search"}
       PROVE  /\ open \in OpenRec
              /\ \A m \in Mail : Owed(m)' =>
                   /\ place'[m][1] < open.folder => ~BelowThen(mark, m)
                   /\ place'[m][1] > open.folder /\ place'[m][1] \notin open.after
                        => ~BelowThen(mark, m)
    BY <1>2 DEF OpenIsHonest, Below, BelowThen
  <2>1. open \in OpenRec /\ mark # Absent
    BY DEF WInv, OpenIsHonest, RunInOrder
  <2>2. ASSUME NEW m \in Mail, Owed(m)', BelowThen(mark, m)
        PROVE  /\ Below(mark, m) /\ Owed(m) /\ place'[m] = place[m]
    BY <1>9, <2>1, <2>2 DEF Owed
  <2>. QED  BY <2>1, <2>2 DEF WInv, OpenIsHonest
<1>15. SearchIsHonest'
  <2>. SUFFICES ASSUME pc = "search"
       PROVE  SearchIsHonest'
    BY <1>2 DEF SearchIsHonest
  <2>. DEFINE f == open.folder
  <2>1. open \in OpenRec
    BY DEF WInv, OpenIsHonest
  <2>2. f \in Folder /\ open.gen \in Nat /\ open.next \in Nat /\ open.first \in Nat
    BY <2>1 DEF OpenRec
  <2>3. /\ open.gen = folder[f].gen => open.next <= folder[f].next /\ open.first <= folder[f].next
        /\ open.gen <= folder[f].gen
        /\ \A m \in Mail : Owed(m) /\ place[m][1] = f /\ open.gen = folder[f].gen =>
              place[m][2] >= open.first
    BY DEF WInv, SearchIsHonest
  <2>4. /\ folder[f].gen \in Nat /\ folder[f].next \in Nat
        /\ folder'[f].gen \in Nat /\ folder'[f].next \in Nat
    BY <1>1, <2>2, FolderFacts, FolderThen DEF Evolved
  <2>. HIDE DEF f
  <2>5. Grown(f)
    BY <2>2 DEF Evolved
  <2>6. /\ open.gen <= folder'[f].gen
        /\ open.gen = folder'[f].gen => /\ folder'[f].gen = folder[f].gen
                                        /\ open.next <= folder'[f].next
                                        /\ open.first <= folder'[f].next
    BY <2>2, <2>3, <2>4, <2>5 DEF Grown
  <2>7. ASSUME NEW m \in Mail, Owed(m)', place'[m][1] = f, open.gen = folder'[f].gen
        PROVE  place'[m][2] >= open.first
    <3>1. m \in Lying' /\ folder'[f].gen = folder[f].gen
      BY <2>6, <2>7 DEF Owed, Due
    <3>2. CASE Stays(m)
      BY <2>3, <2>7, <3>1, <3>2, StaysAsItWas
    <3>3. CASE Fresh(m)
      <4>1. place'[m][2] >= folder[f].next /\ place'[m][2] \in Nat
        BY <2>4, <2>7, <3>1, <3>3, LyingThen DEF Fresh, Evolved
      <4>. QED  BY <2>2, <2>3, <2>4, <2>7, <3>1, <4>1
    <3>. QED  BY <3>1, <3>2, <3>3 DEF Evolved
  <2>. QED  BY <1>2, <2>6, <2>7 DEF SearchIsHonest, f
<1>. QED  BY <1>3, <1>5, <1>6, <1>7, <1>8, <1>10, <1>11, <1>13, <1>14, <1>15
          DEF WInv, Evolved

(* The steps of a run leave the mailbox alone.                              *)
Good(c)    == c = Absent \/ (c \in Token /\ OfThePast(c))
InFront(c) == c = Absent \/ \A f \in There : f < c.at => f \in before

Kept ==
    /\ WalkTypeOK /\ Placed /\ Given /\ FiledUnderItsOwn /\ MarksArePast /\ FrontIsKnown
    /\ IncrIsHonest /\ FullIsHonest

Ordered == RunInOrder /\ CursorIsHonest /\ OpenIsHonest /\ SearchIsHonest

LEMMA WInvThen == Kept' /\ Ordered' => WInv'
BY DEF WInv, Kept, Ordered

LEMMA MarksAreGood ==
    ASSUME WInv
    PROVE  /\ Good(full) /\ Good(pending) /\ Good(incr) /\ Good(cursor) /\ Good(mark)
           /\ InFront(incr) /\ InFront(pending) /\ InFront(mark)
<1>1. {full, pending, incr, cursor, mark} \subseteq Token \cup {Absent}
  BY DEF WInv, WalkTypeOK
<1>2. \A c \in {full, pending, incr, cursor, mark} : Good(c)
  BY <1>1 DEF WInv, MarksArePast, Good
<1>3. \A c \in {incr, pending, mark} : InFront(c)
  BY DEF WInv, FrontIsKnown, InFront
<1>. QED  BY <1>2, <1>3

LEMMA ServerStill ==
    ASSUME UNCHANGED server
    PROVE  /\ There' = There /\ Lying' = Lying
           /\ \A m : Address(m)' = Address(m) /\ place'[m] = place[m]
           /\ \A m, c : BelowThen(c, m) <=> Below(c, m)
BY DEF server, There, Lying, Address, BelowThen, Below

LEMMA DueStill ==
    ASSUME UNCHANGED <<server, ledger>>
    PROVE  \A m : Due(m)' <=> Due(m)
BY DEF server, Due, Archived, Lying

LEMMA KeptHolds ==
    ASSUME WInv, UNCHANGED server, ledger' \subseteq was,
           Good(full'), Good(pending'), Good(incr'), Good(cursor'), Good(mark'),
           InFront(incr'), InFront(pending'), InFront(mark'),
           pc' \in WalkAt, mode' \in {"full", "incremental"}, todo' \subseteq Folder,
           IncrIsHonest', FullIsHonest'
    PROVE  Kept'
<1>1. folder' = folder /\ place' = place /\ was' = was /\ before' = before
  BY DEF server
<1>2. There' = There /\ Lying' = Lying
  BY ServerStill
<1>3. WalkTypeOK'
  BY <1>1, <1>2 DEF WInv, WalkTypeOK, Good
<1>4. Placed' /\ Given'
  BY <1>1, <1>2 DEF WInv, Placed, Given
<1>5. FiledUnderItsOwn'
  BY <1>1 DEF FiledUnderItsOwn
<1>6. MarksArePast'
  BY <1>1 DEF MarksArePast, Good, OfThePast
<1>7. FrontIsKnown'
  BY <1>1, <1>2 DEF FrontIsKnown, InFront
<1>. QED  BY <1>3, <1>4, <1>5, <1>6, <1>7 DEF Kept

(* A step that writes no checkpoint and archives nothing.                   *)
LEMMA KeptByRun ==
    ASSUME WInv, UNCHANGED <<server, ledger, scopes, exempt>>,
           Good(cursor'), Good(mark'), InFront(mark'),
           pc' \in WalkAt, mode' \in {"full", "incremental"}, todo' \subseteq Folder
    PROVE  Kept'
<1>1. /\ UNCHANGED server /\ ledger' = ledger /\ exempt' = exempt
      /\ full' = full /\ pending' = pending /\ incr' = incr
  BY DEF scopes
<1>2. ledger' \subseteq was
  BY <1>1 DEF WInv, FiledUnderItsOwn
<1>3. /\ Good(full') /\ Good(pending') /\ Good(incr')
      /\ InFront(incr') /\ InFront(pending')
  BY <1>1, MarksAreGood
<1>4. \A m : Due(m)' <=> Due(m)
  BY DueStill
<1>5. /\ \A m : Address(m)' = Address(m) /\ place'[m] = place[m]
      /\ \A m, c : BelowThen(c, m) <=> Below(c, m)
  BY <1>1, ServerStill
<1>6. IncrIsHonest'
  <2>1. \A m : Below(incr, m)' <=> Below(incr, m)
    BY <1>1, <1>5 DEF Below, BelowThen
  <2>. QED  BY <1>1, <1>4, <1>5, <2>1 DEF WInv, IncrIsHonest
<1>7. FullIsHonest'
  <2>1. \A m : (Below(full, m)' <=> Below(full, m)) /\ (Below(pending, m)' <=> Below(pending, m))
    BY <1>1, <1>5 DEF Below, BelowThen
  <2>. QED  BY <1>1, <1>4, <1>5, <2>1 DEF WInv, FullIsHonest
<1>. QED  BY <1>1, <1>2, <1>3, <1>6, <1>7, KeptHolds

LEMMA OrderedAtEnd == Ended => Ordered'
BY DEF Ended, Ordered, RunInOrder, CursorIsHonest, OpenIsHonest, SearchIsHonest, Walking

LEMMA GoodAbsent == Good(Absent) /\ InFront(Absent)
BY DEF Good, InFront

LEMMA GivenUpHolds ==
    ASSUME WInv, Refused \/ CutShort
    PROVE  WInv'
<1>1. Ended /\ UNCHANGED <<server, ledger, scopes, exempt>>
  BY DEF Refused, CutShort, histVars
<1>2. cursor' = Absent /\ mark' = Absent /\ pc' = "idle" /\ mode' = "full" /\ todo' = {}
  BY <1>1 DEF Ended
<1>3. Kept'
  BY <1>1, <1>2, KeptByRun, GoodAbsent DEF WalkAt
<1>. QED  BY <1>1, <1>3, WInvThen, OrderedAtEnd

-----------------------------------------------------------------------------
(* The walk starts, and reads its mark.                                     *)
LEMMA FoldersAreRanks == Folder \subseteq Nat \ {0} /\ Inbox \in Folder
BY ImapAssumption

LEMMA NoTokenIsAbsent == Absent \notin Token
BY ImapAssumption DEF Token

LEMMA LyingIsThere ==
    ASSUME WInv, NEW m \in Mail, m \in Lying
    PROVE  /\ place[m][1] \in There /\ place[m][1] \in Nat /\ place[m][1] \in Folder
           /\ place[m][2] \in Nat \ {0}
<1>1. ServerOK
  BY ServerTypes DEF WInv
<1>2. place[m][1] \in There
  BY DEF WInv, Placed
<1>. QED  BY <1>1, <1>2, LyingFacts, FoldersAreRanks

(* Owed mail, then and now, when neither the mailbox nor the ledger changes. *)
LEMMA OwedStill ==
    ASSUME UNCHANGED <<server, ledger, exempt>>, mode' = mode
    PROVE  \A m : Owed(m)' <=> Owed(m)
<1>1. \A m : Address(m)' = Address(m)
  BY ServerStill
<1>2. \A m : Due(m)' <=> Due(m)
  BY DueStill
<1>. QED  BY <1>1, <1>2 DEF Owed

LEMMA ReachedThen ==
    ASSUME UNCHANGED server, NEW m
    PROVE  Reached(m)' <=>
              IF cursor' = Absent THEN ~Below(mark', m)
              ELSE ~Below(cursor', m) /\ (place[m][1] < cursor'.at => ~Below(mark', m))
BY DEF server, Reached, Below

LEMMA StartHolds ==
    ASSUME WInv, NEW k \in {"full", "incremental"}, Start(k)
    PROVE  WInv'
<1>1. /\ pc = "idle" /\ mode' = k /\ cursor' = IF k = "full" THEN full ELSE incr
      /\ UNCHANGED <<server, ledger, scopes, listing, histVars>>
  BY DEF Start
<1>2. /\ full' = full /\ pending' = pending /\ incr' = incr /\ exempt' = exempt
      /\ open' = open /\ refs' = refs /\ refs = {}
  BY <1>1 DEF scopes, listing, histVars, WInv, RunInOrder
<1>3. Good(cursor')
  BY <1>1, MarksAreGood
<1>4. CASE k = "full" /\ full # Absent /\ pending # Absent
  <2>1. mark' = pending /\ todo' = {} /\ pc' = "list" /\ cursor' = full
    BY <1>1, <1>4 DEF Start
  <2>2. Kept'
    BY <1>1, <1>3, <2>1, MarksAreGood, KeptByRun DEF WalkAt, histVars
  <2>3. RunInOrder'
    BY <1>1, <1>2, <1>4, <2>1 DEF RunInOrder, Walking
  <2>4. CursorIsHonest'
    <3>. SUFFICES ASSUME NEW m \in Mail, Owed(m)'  PROVE Reached(m)'
      BY <1>4, <2>1 DEF CursorIsHonest
    <3>1. Due(m)
      BY <1>1, DueStill DEF Owed
    <3>2. ~Below(full, m) /\ (place[m][1] < full.at => ~Below(pending, m))
      BY <1>4, <3>1 DEF WInv, FullIsHonest
    <3>. QED  BY <1>1, <1>4, <2>1, <3>2, ReachedThen
  <2>5. OpenIsHonest' /\ SearchIsHonest'
    BY <2>1 DEF OpenIsHonest, SearchIsHonest
  <2>. QED  BY <2>2, <2>3, <2>4, <2>5, WInvThen DEF Ordered
<1>5. CASE ~(k = "full" /\ full # Absent /\ pending # Absent)
  <2>1. /\ mark' = [at |-> Min(There), marks |-> NoMarks] /\ todo' = There
        /\ pc' = "watermark" /\ (k = "full" => full = Absent)
    <3>1. full # Absent => pending # Absent
      BY DEF WInv, FullIsHonest
    <3>2. k # "full" \/ cursor' = Absent \/ pending = Absent
      BY <1>1, <1>5
    <3>. QED  BY <1>1, <1>5, <3>1, <3>2 DEF Start
  <2>2. There \in SUBSET Nat /\ There # {} /\ There \subseteq Folder
    BY FoldersAreRanks DEF WInv, WalkTypeOK, There
  <2>3. Min(There) \in Nat /\ \A f \in There : Min(There) <= f
    BY <2>2, MinIsLeast
  <2>4. mark' \in Token /\ mark'.at = Min(There) /\ \A f \in Folder : mark'.marks[f].gen = 0
    BY <2>1, <2>3 DEF Token, NoMarks, NoMark
  <2>5. Good(mark')
    <3>1. \A f \in Folder : folder[f].gen \in Nat \ {0}
      BY ServerTypes, FolderFacts DEF WInv
    <3>. QED  BY <2>4, <3>1 DEF Good, OfThePast
  <2>6. InFront(mark')
    BY <2>2, <2>3, <2>4 DEF InFront
  <2>7. mark' # Absent
    BY <2>4, NoTokenIsAbsent
  <2>8. Kept'
    BY <1>1, <1>3, <2>1, <2>2, <2>5, <2>6, KeptByRun DEF WalkAt, histVars
  <2>9. RunInOrder'
    BY <1>1, <1>2, <2>1, <2>2, <2>7 DEF RunInOrder, Walking
  <2>10. CursorIsHonest' /\ OpenIsHonest' /\ SearchIsHonest'
    BY <2>1 DEF CursorIsHonest, OpenIsHonest, SearchIsHonest
  <2>. QED  BY <2>8, <2>9, <2>10, WInvThen DEF Ordered
<1>. QED  BY <1>4, <1>5

LEMMA ReadMarkHolds ==
    ASSUME WInv, ReadMark
    PROVE  WInv'
<1>. DEFINE f == Min(todo)
<1>1. /\ pc = "watermark" /\ mark # Absent /\ todo # {} /\ refs = {}
      /\ (mode = "full" => cursor = Absent /\ full = Absent)
      /\ (mode = "incremental" => cursor = incr)
  BY DEF ReadMark, WInv, RunInOrder
<1>2. /\ mark' = [mark EXCEPT !.marks[f] = [gen |-> folder[f].gen, next |-> folder[f].next]]
      /\ todo' = todo \ {f}
      /\ pc' = IF todo' # {} THEN "watermark"
               ELSE IF cursor # Absent THEN "list"
               ELSE IF mode = "full" THEN "park" ELSE "bootstrap"
      /\ UNCHANGED <<server, ledger, scopes, exempt>>
      /\ full' = full /\ pending' = pending /\ incr' = incr
      /\ mode' = mode /\ cursor' = cursor /\ open' = open /\ refs' = refs
  BY DEF ReadMark, scopes, listing, histVars
<1>3. f \in Folder
  <2>1. todo \in SUBSET Nat /\ todo \subseteq Folder
    BY FoldersAreRanks DEF WInv, WalkTypeOK
  <2>. QED  BY <1>1, <2>1, MinIsLeast
<1>. HIDE DEF f
<1>4. folder[f].gen \in Nat /\ folder[f].next \in Nat
  BY <1>3, ServerTypes, FolderFacts DEF WInv
<1>5. mark \in Token /\ OfThePast(mark)
  BY <1>1, MarksAreGood DEF Good
<1>6. /\ mark' \in Token /\ mark'.at = mark.at
      /\ mark'.marks[f].gen = folder[f].gen /\ mark'.marks[f].next = folder[f].next
      /\ \A g \in Folder : g # f => mark'.marks[g] = mark.marks[g]
  BY <1>2, <1>3, <1>4, <1>5 DEF Token
<1>7. Good(mark')
  BY <1>4, <1>5, <1>6 DEF Good, OfThePast
<1>8. InFront(mark') /\ mark' # Absent
  BY <1>1, <1>6, MarksAreGood, NoTokenIsAbsent DEF InFront
<1>9. Kept'
  <2>1. Good(cursor') /\ mode' \in {"full", "incremental"} /\ todo' \subseteq Folder
    BY <1>2, MarksAreGood DEF WInv, WalkTypeOK
  <2>2. pc' \in WalkAt
    BY <1>2 DEF WalkAt
  <2>. QED  BY <1>2, <1>7, <1>8, <2>1, <2>2, KeptByRun
<1>10. mode \in {"full", "incremental"}
  BY DEF WInv, WalkTypeOK
<1>11. RunInOrder'
  BY <1>1, <1>2, <1>8, <1>10 DEF RunInOrder, Walking
<1>12. CursorIsHonest'
  <2>. SUFFICES ASSUME pc' = "list", cursor' # Absent, NEW m \in Mail, Owed(m)'
       PROVE  Reached(m)'
    BY <1>2 DEF CursorIsHonest
  <2>1. mode = "incremental" /\ cursor' = incr /\ incr # Absent
    BY <1>1, <1>2, <1>10
  <2>2. Due(m) /\ Address(m) \notin exempt
    BY <1>2, <2>1, OwedStill DEF Owed
  <2>3. ~Below(incr, m)
    BY <2>1, <2>2 DEF WInv, IncrIsHonest
  <2>4. ~(place[m][1] < incr.at)
    BY <2>1, <2>2, LyingIsThere, MarksAreGood DEF Due, InFront
  <2>. QED  BY <1>2, <2>1, <2>3, <2>4, ReachedThen
<1>13. OpenIsHonest' /\ SearchIsHonest'
  BY <1>2 DEF OpenIsHonest, SearchIsHonest
<1>. QED  BY <1>9, <1>11, <1>12, <1>13, WInvThen DEF Ordered

LEMMA BootstrapHolds ==
    ASSUME WInv, Bootstrap
    PROVE  WInv'
<1>1. /\ incr' = mark /\ exempt' = {Address(m) : m \in Behind(mark)} /\ Ended
      /\ UNCHANGED <<server, ledger>> /\ full' = full /\ pending' = pending
      /\ cursor' = Absent /\ mark' = Absent /\ pc' = "idle" /\ mode' = "full" /\ todo' = {}
  BY DEF Bootstrap, Ended
<1>2. IncrIsHonest'
  <2>. SUFFICES ASSUME mark # Absent, NEW m \in Mail, Due(m)', Address(m)' \notin exempt'
       PROVE  ~BelowThen(mark, m)
    BY <1>1 DEF IncrIsHonest, Below, BelowThen
  <2>1. m \in Lying /\ Address(m) \notin exempt'
    BY <1>1, DueStill, ServerStill DEF Due
  <2>2. m \notin Behind(mark)
    BY <1>1, <2>1
  <2>3. ~Below(mark, m)
    BY <2>1, <2>2 DEF Behind, Below, Address
  <2>. QED  BY <1>1, <2>3, ServerStill
<1>3. FullIsHonest'
  BY <1>1, DueStill DEF WInv, FullIsHonest, Below, server
<1>4. ledger' \subseteq was
  BY <1>1 DEF WInv, FiledUnderItsOwn
<1>5. Kept'
  BY <1>1, <1>2, <1>3, <1>4, MarksAreGood, GoodAbsent, KeptHolds DEF WalkAt
<1>. QED  BY <1>1, <1>5, WInvThen, OrderedAtEnd

LEMMA RememberMarkHolds ==
    ASSUME WInv, RememberMark
    PROVE  WInv'
<1>1. /\ pc = "park" /\ mode = "full" /\ cursor = Absent /\ full = Absent
      /\ mark # Absent /\ refs = {} /\ pending' = mark /\ pc' = "list"
      /\ UNCHANGED <<server, ledger, full, incr, mode, cursor, mark, todo, open, refs, exempt>>
  BY DEF RememberMark, WInv, RunInOrder, listing, histVars
<1>2. IncrIsHonest'
  BY <1>1, DueStill DEF WInv, IncrIsHonest, Below, Address, server
<1>3. FullIsHonest'
  BY <1>1 DEF FullIsHonest
<1>4. ledger' \subseteq was
  BY <1>1 DEF WInv, FiledUnderItsOwn
<1>5. todo \subseteq Folder
  BY DEF WInv, WalkTypeOK
<1>6. Kept'
  BY <1>1, <1>2, <1>3, <1>4, <1>5, MarksAreGood, KeptHolds DEF WalkAt
<1>7. RunInOrder'
  BY <1>1 DEF RunInOrder, Walking
<1>8. CursorIsHonest' /\ OpenIsHonest' /\ SearchIsHonest'
  BY <1>1 DEF CursorIsHonest, OpenIsHonest, SearchIsHonest
<1>. QED  BY <1>6, <1>7, <1>8, WInvThen DEF Ordered

LEMMA FallBackHolds ==
    ASSUME WInv, FallBack
    PROVE  WInv'
<1>1. /\ pc = "examine" /\ mode = "incremental" /\ refs = {} /\ mark # Absent
      /\ mode' = "full" /\ cursor' = Absent /\ full' = Absent /\ pc' = "park" /\ open' = Absent
      /\ UNCHANGED <<server, ledger, pending, incr, mark, todo, refs, exempt>>
  BY DEF FallBack, Expired, WInv, RunInOrder, histVars
<1>2. IncrIsHonest'
  BY <1>1, DueStill DEF WInv, IncrIsHonest, Below, Address, server
<1>3. FullIsHonest'
  BY <1>1 DEF FullIsHonest
<1>4. ledger' \subseteq was /\ todo \subseteq Folder
  BY <1>1 DEF WInv, FiledUnderItsOwn, WalkTypeOK
<1>5. Kept'
  BY <1>1, <1>2, <1>3, <1>4, MarksAreGood, GoodAbsent, KeptHolds DEF WalkAt
<1>6. RunInOrder'
  BY <1>1 DEF RunInOrder, Walking
<1>7. CursorIsHonest' /\ OpenIsHonest' /\ SearchIsHonest'
  BY <1>1 DEF CursorIsHonest, OpenIsHonest, SearchIsHonest
<1>. QED  BY <1>5, <1>6, <1>7, WInvThen DEF Ordered

-----------------------------------------------------------------------------
(* From folder to folder.                                                   *)
LEMMA ListFoldersHolds ==
    ASSUME WInv, ListFolders
    PROVE  WInv'
<1>. DEFINE f == Min(AtOrBehind)
<1>1. /\ pc = "list" /\ AtOrBehind # {} /\ refs = {} /\ mark # Absent
      /\ open' = [folder |-> f, after |-> {g \in There : g > f},
                  gen |-> 0, next |-> 1, first |-> 1]
      /\ pc' = "examine"
      /\ UNCHANGED <<server, ledger, scopes, exempt>>
      /\ UNCHANGED <<full, pending, incr, mode, cursor, mark, todo, refs>>
  BY DEF ListFolders, scopes, histVars, WInv, RunInOrder
<1>2. There \in SUBSET Nat /\ There \subseteq Folder
  BY FoldersAreRanks DEF There
<1>3. f \in AtOrBehind /\ f \in Nat /\ \A g \in AtOrBehind : f <= g
  <2>1. AtOrBehind \in SUBSET Nat
    BY <1>2 DEF AtOrBehind
  <2>. QED  BY <1>1, <2>1, MinIsLeast
<1>. HIDE DEF f
<1>4. open' \in OpenRec /\ open'.folder = f /\ open'.after = {g \in There : g > f}
  BY <1>1, <1>2, <1>3 DEF OpenRec, AtOrBehind
<1>5. Kept'
  <2>1. mode \in {"full", "incremental"} /\ todo \subseteq Folder
    BY DEF WInv, WalkTypeOK
  <2>. QED  BY <1>1, <2>1, MarksAreGood, KeptByRun DEF WalkAt
<1>6. RunInOrder'
  BY <1>1 DEF WInv, RunInOrder, Walking
<1>7. \A m \in Mail : Owed(m)' => Owed(m)
  BY <1>1, OwedStill
<1>8. CursorIsHonest'
  <2>. SUFFICES ASSUME cursor # Absent, NEW m \in Mail, Owed(m)'  PROVE Reached(m)'
    BY <1>1 DEF CursorIsHonest
  <2>1. Reached(m)
    BY <1>1, <1>7 DEF WInv, CursorIsHonest
  <2>. QED  BY <1>1, <2>1, ReachedThen DEF Reached
<1>9. OpenIsHonest'
  <2>. SUFFICES ASSUME NEW m \in Mail, Owed(m)'
       PROVE  /\ place[m][1] < f => ~Below(mark, m)
              /\ place[m][1] > f /\ place[m][1] \notin open'.after => ~Below(mark, m)
    BY <1>1, <1>4 DEF OpenIsHonest, Below, server
  <2>1. Owed(m) /\ place[m][1] \in There /\ place[m][1] \in Nat
    BY <1>7, LyingIsThere DEF Owed, Due
  <2>2. ASSUME place[m][1] < f  PROVE ~Below(mark, m)
    <3>1. place[m][1] \notin AtOrBehind
      BY <1>3, <2>1, <2>2
    <3>2. cursor # Absent /\ ~(place[m][1] >= cursor.at)
      BY <2>1, <3>1 DEF AtOrBehind
    <3>3. cursor.at \in Nat
      BY <3>2, MarksAreGood, FoldersAreRanks, MarkFacts DEF Good
    <3>4. Reached(m)
      BY <1>1, <2>1, <3>2 DEF WInv, CursorIsHonest
    <3>. QED  BY <2>1, <3>2, <3>3, <3>4 DEF Reached
  <2>3. ~(place[m][1] > f /\ place[m][1] \notin open'.after)
    BY <1>4, <2>1
  <2>. QED  BY <2>2, <2>3
<1>10. SearchIsHonest'
  BY <1>1 DEF SearchIsHonest
<1>. QED  BY <1>5, <1>6, <1>8, <1>9, <1>10, WInvThen DEF Ordered

LEMMA NothingLeftHolds ==
    ASSUME WInv, NothingLeft
    PROVE  WInv'
<1>1. /\ pc = "list" /\ AtOrBehind = {} /\ refs = {} /\ mark # Absent
      /\ cursor' = Absent /\ pc' = "turn"
      /\ UNCHANGED <<server, ledger, scopes, exempt>>
      /\ UNCHANGED <<full, pending, incr, mode, mark, todo, refs>>
  BY DEF NothingLeft, scopes, listing, histVars, WInv, RunInOrder
<1>2. Kept'
  <2>1. mode \in {"full", "incremental"} /\ todo \subseteq Folder
    BY DEF WInv, WalkTypeOK
  <2>. QED  BY <1>1, <2>1, MarksAreGood, GoodAbsent, KeptByRun DEF WalkAt
<1>3. RunInOrder'
  BY <1>1 DEF WInv, RunInOrder, Walking
<1>4. CursorIsHonest'
  <2>. SUFFICES ASSUME NEW m \in Mail, Owed(m)'  PROVE Reached(m)'
    BY <1>1 DEF CursorIsHonest
  <2>1. Owed(m) /\ place[m][1] \in There /\ place[m][1] \in Nat
    BY <1>1, OwedStill, LyingIsThere DEF Owed, Due
  <2>2. cursor # Absent /\ ~(place[m][1] >= cursor.at)
    BY <1>1, <2>1 DEF AtOrBehind
  <2>3. cursor.at \in Nat
    BY <2>2, MarksAreGood, FoldersAreRanks, MarkFacts DEF Good
  <2>4. Reached(m)
    BY <1>1, <2>1, <2>2 DEF WInv, CursorIsHonest
  <2>5. ~Below(mark, m)
    BY <2>1, <2>2, <2>3, <2>4 DEF Reached
  <2>. QED  BY <1>1, <2>5, ReachedThen
<1>5. OpenIsHonest' /\ SearchIsHonest'
  BY <1>1 DEF OpenIsHonest, SearchIsHonest
<1>. QED  BY <1>2, <1>3, <1>4, <1>5, WInvThen DEF Ordered

LEMMA ExamineHolds ==
    ASSUME WInv, Examine
    PROVE  WInv'
<1>. DEFINE f == open.folder
            first == IF Known(f) THEN Marks[f].next ELSE 1
<1>1. /\ pc = "examine" /\ refs = {} /\ mark # Absent /\ pc' = "search"
      /\ open' = [open EXCEPT !.gen = folder[f].gen, !.next = folder[f].next, !.first = first]
      /\ UNCHANGED <<server, ledger, scopes, exempt>>
      /\ UNCHANGED <<full, pending, incr, mode, cursor, mark, todo, refs>>
  BY DEF Examine, scopes, histVars, WInv, RunInOrder
<1>2. open \in OpenRec
  BY <1>1 DEF WInv, OpenIsHonest
<1>3. f \in Folder
  BY <1>2 DEF OpenRec
<1>4. folder[f].gen \in Nat \ {0} /\ folder[f].next \in Nat \ {0}
  BY <1>3, ServerTypes, FolderFacts DEF WInv
<1>5. Known(f) => /\ cursor # Absent /\ cursor \in Token
                  /\ cursor.marks[f].gen = folder[f].gen
                  /\ first = cursor.marks[f].next /\ first <= folder[f].next
  <2>. HAVE Known(f)
  <2>1. cursor # Absent
    BY <1>3, <1>4 DEF Known, Marks, NoMarks, NoMark
  <2>. QED  BY <1>3, <2>1, MarksAreGood DEF Known, Marks, Good, OfThePast
<1>6. ~Known(f) => first = 1 /\ first <= folder[f].next
  BY <1>4
<1>7. first \in Nat /\ first <= folder[f].next
  BY <1>3, <1>5, <1>6, MarkFacts
<1>8. ASSUME NEW m \in Mail, Owed(m), place[m][1] = f
      PROVE  place[m][2] >= first
  <2>1. place[m][2] \in Nat \ {0}
    BY <1>8, LyingIsThere DEF Owed, Due
  <2>2. CASE Known(f)
    <3>1. Reached(m)
      BY <1>1, <1>5, <1>8, <2>2 DEF WInv, CursorIsHonest
    <3>. QED  BY <1>5, <1>7, <1>8, <2>1, <2>2, <3>1 DEF Reached, Below
  <2>3. CASE ~Known(f)
    BY <1>6, <2>1, <2>3
  <2>. QED  BY <2>2, <2>3
<1>. HIDE DEF first
<1>9. /\ open' \in OpenRec /\ open'.folder = f /\ open'.after = open.after
      /\ open'.gen = folder[f].gen /\ open'.next = folder[f].next /\ open'.first = first
  BY <1>1, <1>2, <1>4, <1>7 DEF OpenRec
<1>10. Kept'
  <2>1. mode \in {"full", "incremental"} /\ todo \subseteq Folder
    BY DEF WInv, WalkTypeOK
  <2>. QED  BY <1>1, <2>1, MarksAreGood, KeptByRun DEF WalkAt
<1>11. RunInOrder'
  BY <1>1 DEF WInv, RunInOrder, Walking
<1>12. \A m \in Mail : Owed(m)' => Owed(m)
  BY <1>1, OwedStill
<1>13. CursorIsHonest'
  <2>. SUFFICES ASSUME cursor # Absent, NEW m \in Mail, Owed(m)'  PROVE Reached(m)'
    BY <1>1 DEF CursorIsHonest
  <2>1. Reached(m)
    BY <1>1, <1>12 DEF WInv, CursorIsHonest
  <2>. QED  BY <1>1, <2>1, ReachedThen DEF Reached
<1>14. OpenIsHonest'
  <2>. SUFFICES ASSUME NEW m \in Mail, Owed(m)'
       PROVE  /\ place[m][1] < f => ~Below(mark, m)
              /\ place[m][1] > f /\ place[m][1] \notin open.after => ~Below(mark, m)
    BY <1>1, <1>9 DEF OpenIsHonest, Below, server
  <2>. QED  BY <1>1, <1>12 DEF WInv, OpenIsHonest
<1>15. SearchIsHonest'
  <2>1. folder' = folder /\ place' = place
    BY <1>1 DEF server
  <2>. QED  BY <1>4, <1>7, <1>8, <1>9, <1>12, <2>1 DEF SearchIsHonest
<1>. QED  BY <1>10, <1>11, <1>13, <1>14, <1>15, WInvThen DEF Ordered

-----------------------------------------------------------------------------
(* What the engine does with a page.                                        *)
LEMMA TurnHolds ==
    ASSUME WInv, Turn
    PROVE  WInv'
<1>1. /\ pc = "turn" /\ refs = {} /\ mark # Absent /\ (mode = "full" => pending = mark)
      /\ (mode = "full" /\ full' = cursor) \/ ((mode = "incremental" \/ cursor # Absent)
                                               /\ full' = full)
      /\ pc' = IF cursor = Absent THEN "store" ELSE "list"
      /\ UNCHANGED <<server, ledger, pending, incr, mode, cursor, mark, todo, refs, exempt>>
  BY DEF Turn, WInv, RunInOrder, listing, histVars, Walking
<1>2. \A m \in Mail : Owed(m) => Reached(m)
  BY <1>1 DEF WInv, CursorIsHonest
<1>3. IncrIsHonest'
  BY <1>1, DueStill DEF WInv, IncrIsHonest, Below, Address, server
<1>4. FullIsHonest'
  <2>1. CASE full' = full
    BY <1>1, <2>1, DueStill DEF WInv, FullIsHonest, Below, server
  <2>2. CASE mode = "full" /\ full' = cursor
    <3>. SUFFICES ASSUME cursor # Absent, NEW m \in Mail, Due(m)'
         PROVE  ~Below(cursor, m) /\ (place[m][1] < cursor.at => ~Below(mark, m))
      BY <1>1, <2>2 DEF FullIsHonest, Below, server
    <3>1. Owed(m)
      BY <1>1, <2>2, DueStill DEF Owed
    <3>. QED  BY <1>2, <3>1 DEF Reached
  <2>. QED  BY <1>1, <2>1, <2>2
<1>5. ledger' \subseteq was /\ todo \subseteq Folder /\ mode \in {"full", "incremental"}
  BY <1>1 DEF WInv, FiledUnderItsOwn, WalkTypeOK
<1>6. Kept'
  <2>1. Good(full') /\ pc' \in WalkAt
    BY <1>1, MarksAreGood DEF WalkAt
  <2>. QED  BY <1>1, <1>3, <1>4, <1>5, <2>1, MarksAreGood, KeptHolds
<1>7. RunInOrder'
  BY <1>1 DEF RunInOrder, Walking
<1>8. CursorIsHonest'
  <2>. SUFFICES ASSUME NEW m \in Mail, Owed(m)'  PROVE Reached(m)'
    BY <1>1 DEF CursorIsHonest
  <2>1. Reached(m)
    BY <1>1, <1>2, OwedStill
  <2>. QED  BY <1>1, <2>1, ReachedThen DEF Reached
<1>9. OpenIsHonest' /\ SearchIsHonest'
  BY <1>1 DEF OpenIsHonest, SearchIsHonest
<1>. QED  BY <1>6, <1>7, <1>8, <1>9, WInvThen DEF Ordered

LEMMA StoreWatermarkHolds ==
    ASSUME WInv, StoreWatermark
    PROVE  WInv'
<1>1. /\ pc = "store" /\ refs = {} /\ cursor = Absent /\ mark # Absent
      /\ (mode = "full" => full = Absent)
      /\ incr' = mark /\ exempt' = (IF mode = "full" THEN {} ELSE exempt)
      /\ UNCHANGED <<server, ledger, full, pending>>
  BY DEF StoreWatermark, WInv, RunInOrder
<1>2. mode \in {"full", "incremental"} /\ todo \subseteq Folder /\ ledger' \subseteq was
  BY <1>1 DEF WInv, WalkTypeOK, FiledUnderItsOwn
<1>3. IncrIsHonest'
  <2>. SUFFICES ASSUME NEW m \in Mail, Due(m)', Address(m)' \notin exempt'
       PROVE  ~Below(mark, m)
    BY <1>1 DEF IncrIsHonest, Below, server
  <2>1. Owed(m)
    BY <1>1, DueStill, ServerStill DEF Owed
  <2>. QED  BY <1>1, <2>1 DEF WInv, CursorIsHonest, Reached
<1>4. FullIsHonest'
  BY <1>1, DueStill DEF WInv, FullIsHonest, Below, server
<1>5. CASE mode = "full"
  <2>1. pc' = "unpark" /\ UNCHANGED <<mode, cursor, mark, todo, refs>>
    BY <1>5 DEF StoreWatermark, listing
  <2>2. Kept'
    BY <1>1, <1>2, <1>3, <1>4, <2>1, MarksAreGood, KeptHolds DEF WalkAt
  <2>3. Ordered'
    BY <1>1, <1>5, <2>1
       DEF Ordered, RunInOrder, CursorIsHonest, OpenIsHonest, SearchIsHonest, Walking
  <2>. QED  BY <2>2, <2>3, WInvThen
<1>6. CASE mode # "full"
  <2>1. Ended
    BY <1>6 DEF StoreWatermark
  <2>2. cursor' = Absent /\ mark' = Absent /\ pc' = "idle" /\ mode' = "full" /\ todo' = {}
    BY <2>1 DEF Ended
  <2>3. Kept'
    BY <1>1, <1>2, <1>3, <1>4, <2>2, MarksAreGood, GoodAbsent, KeptHolds DEF WalkAt
  <2>. QED  BY <2>1, <2>3, WInvThen, OrderedAtEnd
<1>. QED  BY <1>5, <1>6

LEMMA UnparkHolds ==
    ASSUME WInv, Unpark
    PROVE  WInv'
<1>1. /\ pc = "unpark" /\ full = Absent /\ pending' = Absent /\ Ended
      /\ UNCHANGED <<server, ledger, full, incr, exempt>>
      /\ cursor' = Absent /\ mark' = Absent /\ pc' = "idle" /\ mode' = "full" /\ todo' = {}
  BY DEF Unpark, Ended, histVars, WInv, RunInOrder
<1>2. IncrIsHonest'
  BY <1>1, DueStill DEF WInv, IncrIsHonest, Below, Address, server
<1>3. FullIsHonest'
  BY <1>1 DEF FullIsHonest
<1>4. ledger' \subseteq was
  BY <1>1 DEF WInv, FiledUnderItsOwn
<1>5. Kept'
  BY <1>1, <1>2, <1>3, <1>4, MarksAreGood, GoodAbsent, KeptHolds DEF WalkAt
<1>. QED  BY <1>1, <1>5, WInvThen, OrderedAtEnd

(* Two messages never lie under one address (RFC 3501).                     *)
LEMMA OneAddress ==
    ASSUME WInv, NEW m \in Mail, NEW n \in Mail, m \in Lying, n \in Lying,
           Address(m) = Address(n)
    PROVE  m = n
<1>1. /\ <<place[m][1], folder[place[m][1]].gen, place[m][2], m>> \in was
      /\ <<place[n][1], folder[place[n][1]].gen, place[n][2], n>> \in was
  BY DEF WInv, Placed
<1>2. /\ place[m][1] = place[n][1] /\ place[m][2] = place[n][2]
      /\ folder[place[m][1]].gen = folder[place[n][1]].gen
  BY DEF Address
<1>. QED  BY <1>1, <1>2 DEF WInv, Given

LEMMA FourLong ==
    ASSUME NEW a, NEW b, NEW c, NEW d
    PROVE  <<a, b, c>> \o <<d>> = <<a, b, c, d>>
<1>. DEFINE S == {a, b, c, d}
            s == <<a, b, c>>
            t == <<d>>
            u == <<a, b, c, d>>
<1>1. s \in Seq(S) /\ t \in Seq(S) /\ u \in Seq(S) /\ Len(s) = 3 /\ Len(t) = 1 /\ Len(u) = 4
  OBVIOUS
<1>2. s[1] = a /\ s[2] = b /\ s[3] = c /\ t[1] = d
      /\ u[1] = a /\ u[2] = b /\ u[3] = c /\ u[4] = d
  OBVIOUS
<1>. HIDE DEF S, s, t, u
<1>3. /\ s \o t \in Seq(S) /\ Len(s \o t) = 4
      /\ \A i \in 1..4 : (s \o t)[i] = IF i <= 3 THEN s[i] ELSE t[i - 3]
  <2>1. /\ s \o t \in Seq(S) /\ Len(s \o t) = Len(s) + Len(t)
        /\ \A i \in 1..Len(s) + Len(t) :
              (s \o t)[i] = IF i <= Len(s) THEN s[i] ELSE t[i - Len(s)]
    BY <1>1, ConcatProperties
  <2>. QED  BY <1>1, <2>1
<1>4. \A i \in 1..4 : (s \o t)[i] = u[i]
  BY <1>2, <1>3
<1>5. s \o t = u
  BY <1>1, <1>3, <1>4, SeqEqual
<1>. QED  BY <1>5 DEF s, t, u

LEMMA FetchHolds ==
    ASSUME WInv, NEW m \in Lying, Fetch(m)
    PROVE  WInv'
<1>. DEFINE row == <<place[m][1], folder[place[m][1]].gen, place[m][2], m>>
<1>1. m \in Mail /\ row \in was
  BY DEF Lying, WInv, Placed
<1>2. Address(m) \o <<m>> = row
  BY FourLong DEF Address
<1>3. /\ Address(m) \in refs /\ pc = "fetch" /\ mark # Absent
      /\ (mode = "full" => pending = mark)
      /\ ledger' = ledger \cup {row} /\ refs' = refs \ {Address(m)}
      /\ pc' = (IF refs' = {} THEN "turn" ELSE "fetch")
      /\ UNCHANGED <<server, scopes, exempt>>
      /\ UNCHANGED <<full, pending, incr, mode, cursor, mark, todo>>
  BY <1>2 DEF Fetch, WInv, RunInOrder, Walking, scopes, histVars
<1>4. m \in Archived' /\ Archived \subseteq Archived'
  <2>1. row \in ledger' /\ row[4] = m /\ ledger \subseteq ledger'
    BY <1>3
  <2>. QED  BY <2>1 DEF Archived
<1>. HIDE DEF row
<1>5. \A n \in Mail : (Due(n)' => Due(n) /\ n # m) /\ Address(n)' = Address(n)
  BY <1>3, <1>4 DEF server, Due, Lying, Address
<1>6. \A n \in Mail : Owed(n)' => Owed(n) /\ n # m
  BY <1>3, <1>5 DEF Owed
<1>7. IncrIsHonest'
  BY <1>3, <1>5 DEF WInv, IncrIsHonest, Below, server
<1>8. FullIsHonest'
  BY <1>3, <1>5 DEF WInv, FullIsHonest, Below, server
<1>9. Kept'
  <2>1. ledger' \subseteq was /\ todo \subseteq Folder /\ mode \in {"full", "incremental"}
    BY <1>1, <1>3 DEF WInv, FiledUnderItsOwn, WalkTypeOK
  <2>2. pc' \in WalkAt
    BY <1>3 DEF WalkAt
  <2>. QED  BY <1>3, <1>7, <1>8, <2>1, <2>2, MarksAreGood, KeptHolds
<1>10. RunInOrder'
  BY <1>3 DEF RunInOrder, Walking
<1>11. CursorIsHonest'
  <2>. SUFFICES ASSUME NEW n \in Mail, Owed(n)'
       PROVE  Address(n)' \in refs' \/ Reached(n)'
    BY <1>3 DEF CursorIsHonest
  <2>1. Owed(n) /\ n # m /\ n \in Lying /\ Address(n)' = Address(n)
    BY <1>5, <1>6 DEF Owed, Due
  <2>2. Address(n) # Address(m)
    BY <1>1, <2>1, OneAddress
  <2>3. Address(n) \in refs \/ Reached(n)
    BY <1>3, <2>1 DEF WInv, CursorIsHonest
  <2>4. Reached(n) => Reached(n)'
    BY <1>3, ReachedThen DEF Reached
  <2>. QED  BY <1>3, <2>1, <2>2, <2>3, <2>4
<1>12. OpenIsHonest' /\ SearchIsHonest'
  BY <1>3 DEF OpenIsHonest, SearchIsHonest
<1>. QED  BY <1>9, <1>10, <1>11, <1>12, WInvThen DEF Ordered

(* A page takes the lowest UIDs: what it leaves lies above all it takes.    *)
Lowest(uids) == {u \in uids : Cardinality({v \in uids : v < u}) < ListingSize}

LEMMA PageIsLowest ==
    ASSUME NEW uids \in SUBSET Nat, IsFiniteSet(uids), Lowest(uids) # uids
    PROVE  /\ Max(Lowest(uids)) \in Lowest(uids) /\ Max(Lowest(uids)) \in Nat
           /\ \A u \in uids \ Lowest(uids) : u >= Max(Lowest(uids)) + 1
<1>. DEFINE Lower(u) == {v \in uids : v < u}
            taken == Lowest(uids)
<1>0. taken = {u \in uids : Cardinality(Lower(u)) < ListingSize}
  BY DEF Lowest
<1>. HIDE DEF taken
<1>1. ListingSize \in Nat \ {0}
  BY ImapAssumption
<1>2. \A u \in uids : IsFiniteSet(Lower(u)) /\ Cardinality(Lower(u)) \in Nat
  <2>1. \A u \in uids : Lower(u) \in SUBSET uids
    OBVIOUS
  <2>. QED  BY <2>1, FS_Subset, FS_CardinalityType
<1>3. taken # {}
  <2>1. PICK x \in uids : \A y \in uids : x <= y
    <3>1. uids # {}
      BY <1>0 DEF taken
    <3>. QED  BY <3>1, Least
  <2>2. Lower(x) = {}
    <3>1. \A v \in uids : v \in Nat /\ x \in Nat /\ ~(v < x)
      BY <2>1
    <3>. QED  BY <3>1
  <2>3. Cardinality(Lower(x)) = 0
    BY <2>2, FS_EmptySet
  <2>4. Cardinality(Lower(x)) < ListingSize
    BY <1>1, <2>3
  <2>. QED  BY <1>0, <2>4
<1>4. taken \in SUBSET Nat /\ IsFiniteSet(taken)
  <2>1. taken \in SUBSET uids
    BY <1>0
  <2>. QED  BY <2>1, FS_Subset
<1>5. Max(taken) \in taken /\ Max(taken) \in Nat
  BY <1>3, <1>4, MaxIsGreatest
<1>6. ASSUME NEW u \in uids \ taken  PROVE u >= Max(taken) + 1
  <2>. DEFINE g == Max(taken)
  <2>1. g \in uids /\ Cardinality(Lower(g)) < ListingSize
    BY <1>0, <1>5
  <2>2. ~(Cardinality(Lower(u)) < ListingSize)
    BY <1>0
  <2>3. u # g
    BY <1>5
  <2>4. u \in Nat /\ g \in Nat
    BY <1>5
  <2>. HIDE DEF g
  <2>5. u < g => Lower(u) \in SUBSET Lower(g)
    <3>. HAVE u < g
    <3>1. \A v \in uids : v \in Nat /\ (v < u => v < g)
      BY <2>4
    <3>. QED  BY <3>1
  <2>6. u < g => Cardinality(Lower(u)) <= Cardinality(Lower(g))
    BY <1>2, <2>1, <2>5, FS_Subset
  <2>7. Cardinality(Lower(u)) \in Nat /\ Cardinality(Lower(g)) \in Nat
    BY <1>2, <2>1
  <2>8. ~(u < g)
    BY <1>1, <2>1, <2>2, <2>6, <2>7
  <2>. QED  BY <2>3, <2>4, <2>8 DEF g
<1>. QED  BY <1>5, <1>6 DEF taken

LEMMA SearchHolds ==
    ASSUME WInv, Search
    PROVE  WInv'
<1>. DEFINE f     == open.folder
            uids  == {u \in {place[m][2] : m \in LiesIn(f)} : u >= open.first}
            taken == {u \in uids : Cardinality({v \in uids : v < u}) < ListingSize}
            left  == [gen |-> open.gen,
                      next |-> IF taken = uids THEN open.next ELSE Max(taken) + 1]
            at    == IF taken = uids THEN Min(open.after) ELSE f
<1>1. /\ pc = "search" /\ refs = {} /\ mark # Absent /\ (mode = "full" => pending = mark)
      /\ f \in There /\ folder[f].gen = open.gen
      /\ refs' = {<<f, open.gen, u>> : u \in taken} \ Rows
      /\ cursor' = (IF taken = uids /\ open.after = {} THEN Absent
                    ELSE [at |-> at, marks |-> [Marks EXCEPT ![f] = left]])
      /\ pc' = IF refs' = {} THEN "turn" ELSE "fetch"
      /\ UNCHANGED <<server, ledger, scopes, exempt>>
      /\ UNCHANGED <<full, pending, incr, mode, mark, todo>>
  BY DEF Search, StillThatOne, WInv, RunInOrder, Walking, scopes, histVars
<1>2. /\ open \in OpenRec
      /\ open.next <= folder[f].next /\ open.first <= folder[f].next
      /\ \A m \in Mail : Owed(m) /\ place[m][1] = f => place[m][2] >= open.first
      /\ \A m \in Mail : Owed(m) =>
           /\ place[m][1] < f => ~Below(mark, m)
           /\ place[m][1] > f /\ place[m][1] \notin open.after => ~Below(mark, m)
  BY <1>1 DEF WInv, OpenIsHonest, SearchIsHonest
<1>3. /\ f \in Folder /\ open.after \in SUBSET Folder /\ open.after \in SUBSET Nat
      /\ f \in Nat /\ open.gen \in Nat /\ open.next \in Nat /\ open.first \in Nat
  BY <1>2, FoldersAreRanks DEF OpenRec
<1>4. folder[f].next \in Nat
  BY <1>3, ServerTypes, FolderFacts DEF WInv
<1>5. \A m \in LiesIn(f) : /\ m \in Mail /\ m \in Lying /\ place[m][1] = f
                           /\ place[m][2] \in Nat /\ place[m][2] < folder[f].next
  <2>1. \A m \in LiesIn(f) : m \in Mail /\ m \in Lying /\ place[m][1] = f
    BY DEF LiesIn, Lying
  <2>2. \A m \in LiesIn(f) : place[m][2] \in Nat
    BY <2>1, LyingIsThere
  <2>. QED  BY <2>1, <2>2 DEF WInv, Placed
<1>6. uids \in SUBSET Nat /\ IsFiniteSet(uids) /\ \A u \in uids : u < folder[f].next
  <2>1. uids \in SUBSET Nat /\ \A u \in uids : u < folder[f].next
    BY <1>5
  <2>2. uids \in SUBSET (0..folder[f].next)
    <3>1. \A u \in uids : u \in Nat /\ u < folder[f].next
      BY <2>1
    <3>. QED  BY <1>4, <3>1
  <2>3. IsFiniteSet(0..folder[f].next)
    BY <1>4, FS_Interval
  <2>. QED  BY <2>1, <2>2, <2>3, FS_Subset
<1>7. taken # uids => /\ Max(taken) \in taken /\ Max(taken) \in Nat
                      /\ \A u \in uids \ taken : u >= Max(taken) + 1
  <2>1. uids \in SUBSET Nat /\ IsFiniteSet(uids)
    BY <1>6
  <2>. HIDE DEF uids
  <2>2. taken = Lowest(uids)
    BY DEF Lowest
  <2>. HIDE DEF taken
  <2>. QED  BY <2>1, <2>2, PageIsLowest
<1>8. taken \subseteq uids
  OBVIOUS
<1>9. \A m \in Mail : Owed(m) /\ place[m][1] = f => place[m][2] \in uids
  <2>. SUFFICES ASSUME NEW m \in Mail, Owed(m), place[m][1] = f  PROVE place[m][2] \in uids
    OBVIOUS
  <2>1. m \in LiesIn(f) /\ place[m][2] >= open.first
    BY <1>2 DEF Owed, Due, LiesIn
  <2>. QED  BY <2>1
<1>. HIDE DEF uids, taken
<1>10. left \in [gen : Nat, next : Nat] /\ left.gen = folder[f].gen
       /\ left.next <= folder[f].next
  <2>1. taken # uids => Max(taken) + 1 <= folder[f].next /\ Max(taken) + 1 \in Nat
    BY <1>4, <1>6, <1>7, <1>8
  <2>. QED  BY <1>1, <1>2, <1>3, <1>4, <2>1
<1>11. /\ Marks \in [Folder -> [gen : Nat, next : Nat]]
       /\ \A g \in Folder : /\ Marks[g].gen <= folder[g].gen
                            /\ Marks[g].gen = folder[g].gen => Marks[g].next <= folder[g].next
       /\ \A g \in Folder : cursor = Absent => Marks[g].gen # folder[g].gen
  <2>1. \A g \in Folder : folder[g].gen \in Nat \ {0}
    BY ServerTypes, FolderFacts DEF WInv
  <2>2. CASE cursor = Absent
    BY <2>1, <2>2 DEF Marks, NoMarks, NoMark
  <2>3. CASE cursor # Absent
    BY <2>3, MarksAreGood DEF Marks, Good, OfThePast, Token
  <2>. QED  BY <2>2, <2>3
<1>12. open.after # {} => /\ Min(open.after) \in open.after /\ Min(open.after) \in Nat
                          /\ \A g \in open.after : Min(open.after) <= g
  BY <1>3, MinIsLeast
<1>13. cursor' # Absent => open.after # {} \/ taken # uids
  BY <1>1
<1>. HIDE DEF left
<1>14. cursor' # Absent =>
         /\ cursor' \in Token /\ cursor'.at = at /\ cursor'.marks[f] = left
         /\ \A g \in Folder : g # f => cursor'.marks[g] = Marks[g]
  <2>1. at \in Nat \/ cursor' = Absent
    BY <1>3, <1>12, <1>13
  <2>. HIDE DEF at
  <2>. QED  BY <1>1, <1>3, <1>10, <1>11, <2>1 DEF Token
<1>15. Good(cursor')
  <2>. SUFFICES ASSUME cursor' # Absent, NEW g \in Folder
       PROVE  /\ cursor'.marks[g].gen <= folder[g].gen
              /\ cursor'.marks[g].gen = folder[g].gen => cursor'.marks[g].next <= folder[g].next
    BY <1>14 DEF Good, OfThePast
  <2>1. CASE g = f
    <3>1. folder[f].gen \in Nat
      BY <1>3, ServerTypes, FolderFacts DEF WInv
    <3>. QED  BY <1>10, <1>14, <2>1, <3>1
  <2>2. CASE g # f
    BY <1>11, <1>14, <2>2
  <2>. QED  BY <2>1, <2>2
<1>16. Kept'
  <2>1. mode \in {"full", "incremental"} /\ todo \subseteq Folder /\ pc' \in WalkAt
    BY <1>1 DEF WInv, WalkTypeOK, WalkAt
  <2>. QED  BY <1>1, <1>15, <2>1, MarksAreGood, KeptByRun
<1>17. RunInOrder'
  BY <1>1 DEF RunInOrder, Walking
<1>18. ASSUME NEW m \in Mail, Owed(m), place[m][1] = f, place[m][2] \in taken
       PROVE  Address(m) \in refs'
  <2>1. Address(m) = <<f, open.gen, place[m][2]>>
    BY <1>1, <1>18 DEF Address
  <2>2. Address(m) \notin Rows
    <3>. SUFFICES ASSUME Address(m) \in Rows  PROVE FALSE
      OBVIOUS
    <3>1. PICK r \in ledger : <<r[1], r[2], r[3]>> = Address(m)
      BY DEF Rows
    <3>2. r \in was /\ r[1] = place[m][1] /\ r[2] = folder[place[m][1]].gen
          /\ r[3] = place[m][2]
      BY <3>1 DEF Address, WInv, FiledUnderItsOwn
    <3>3. <<place[m][1], folder[place[m][1]].gen, place[m][2], m>> \in was
      BY <1>18 DEF Owed, Due, WInv, Placed
    <3>4. r[4] = m
      BY <3>2, <3>3 DEF WInv, Given
    <3>. QED  BY <1>18, <3>4 DEF Owed, Due, Archived
  <2>. QED  BY <1>1, <1>18, <2>1, <2>2
<1>19. ASSUME NEW m \in Mail, Owed(m), place[m][1] # f \/ place[m][2] \notin taken
       PROVE  IF cursor' = Absent THEN ~Below(mark, m)
              ELSE ~Below(cursor', m) /\ (place[m][1] < cursor'.at => ~Below(mark, m))
  <2>1. place[m][1] \in Nat /\ place[m][1] \in Folder /\ place[m][2] \in Nat
    BY <1>19, LyingIsThere DEF Owed, Due
  <2>2. CASE cursor' = Absent
    <3>1. taken = uids /\ open.after = {}
      <4>. SUFFICES ASSUME ~(taken = uids /\ open.after = {})  PROVE FALSE
        OBVIOUS
      <4>1. [at |-> at, marks |-> [Marks EXCEPT ![f] = left]] \in Token
        <5>1. at \in Nat
          BY <1>3, <1>12
        <5>. HIDE DEF at
        <5>. QED  BY <1>10, <1>11, <5>1 DEF Token
      <4>. QED  BY <1>1, <2>2, <4>1, NoTokenIsAbsent
    <3>2. place[m][1] # f
      BY <1>9, <1>19, <3>1
    <3>3. ~Below(mark, m)
      BY <1>2, <1>3, <1>19, <2>1, <3>1, <3>2
    <3>. QED  BY <2>2, <3>3
  <2>3. CASE cursor' # Absent /\ place[m][1] # f
    <3>1. ~Below(cursor', m)
      <4>1. CASE cursor = Absent
        BY <1>11, <1>14, <2>1, <2>3, <4>1 DEF Below
      <4>2. CASE cursor # Absent
        <5>1. ~Below(cursor, m)
          BY <1>1, <1>19, <4>2 DEF WInv, CursorIsHonest, Reached
        <5>. QED  BY <1>14, <2>1, <2>3, <4>2, <5>1 DEF Below, Marks
      <4>. QED  BY <4>1, <4>2
    <3>2. ASSUME place[m][1] < cursor'.at  PROVE ~Below(mark, m)
      <4>1. CASE taken # uids
        BY <1>2, <1>14, <1>19, <2>3, <3>2, <4>1
      <4>2. CASE taken = uids
        <5>1. open.after # {} /\ place[m][1] < Min(open.after)
          BY <1>13, <1>14, <2>3, <3>2, <4>2
        <5>2. place[m][1] \notin open.after
          BY <1>12, <2>1, <5>1
        <5>. QED  BY <1>2, <1>3, <1>19, <2>1, <2>3, <5>2
      <4>. QED  BY <4>1, <4>2
    <3>. QED  BY <2>3, <3>1, <3>2
  <2>4. CASE cursor' # Absent /\ place[m][1] = f
    <3>1. place[m][2] \in uids \ taken
      BY <1>9, <1>19, <2>4
    <3>2. taken # uids /\ place[m][2] >= Max(taken) + 1 /\ Max(taken) \in Nat
      BY <1>7, <3>1
    <3>3. cursor'.marks[f].next = Max(taken) + 1 /\ cursor'.at = f
      BY <1>14, <2>4, <3>2 DEF left
    <3>4. ~Below(cursor', m)
      BY <2>1, <2>4, <3>2, <3>3 DEF Below
    <3>. QED  BY <1>3, <2>4, <3>3, <3>4
  <2>. QED  BY <2>2, <2>3, <2>4
<1>20. CursorIsHonest'
  <2>. SUFFICES ASSUME NEW m \in Mail, Owed(m)'
       PROVE  Address(m)' \in refs' \/ Reached(m)'
    BY <1>1 DEF CursorIsHonest
  <2>1. Owed(m) /\ Address(m)' = Address(m)
    BY <1>1, OwedStill, ServerStill
  <2>2. CASE place[m][1] = f /\ place[m][2] \in taken
    BY <1>18, <2>1, <2>2
  <2>3. CASE place[m][1] # f \/ place[m][2] \notin taken
    <3>1. mark' = mark
      BY <1>1
    <3>. QED  BY <1>1, <1>19, <2>1, <2>3, <3>1, ReachedThen
  <2>. QED  BY <2>2, <2>3
<1>21. OpenIsHonest' /\ SearchIsHonest'
  BY <1>1 DEF OpenIsHonest, SearchIsHonest
<1>. QED  BY <1>16, <1>17, <1>20, <1>21, WInvThen DEF Ordered

-----------------------------------------------------------------------------
LEMMA WalkInitHolds == WalkInit => WInv
<1>. SUFFICES ASSUME WalkInit  PROVE WInv
  OBVIOUS
<1>1. /\ folder = [f \in Folder |-> [there |-> f = Inbox, gen |-> 1, next |-> 1]]
      /\ place = [m \in Mail |-> Absent] /\ was = {} /\ before = {} /\ ledger = {}
      /\ full = Absent /\ pending = Absent /\ incr \in {Absent, Unreadable}
      /\ pc = "idle" /\ mode = "full" /\ cursor = Absent /\ mark = Absent
      /\ todo = {} /\ refs = {}
  BY DEF WalkInit
<1>2. Lying = {} /\ Inbox \in There
  BY <1>1, FoldersAreRanks DEF Lying, There
<1>3. /\ Unreadable \in Token /\ Unreadable.at = 0
      /\ \A f \in Folder : Unreadable.marks[f].gen = 0
  BY DEF Unreadable, Token, NoMarks, NoMark
<1>4. \A f \in Folder : folder[f].gen = 1 /\ folder[f].next = 1
  BY <1>1
<1>5. WalkTypeOK
  BY <1>1, <1>2, <1>3 DEF WalkTypeOK, WalkAt
<1>6. Placed /\ Given /\ FiledUnderItsOwn
  BY <1>1, <1>2 DEF Placed, Given, FiledUnderItsOwn
<1>7. MarksArePast
  BY <1>1, <1>3, <1>4 DEF MarksArePast, OfThePast
<1>8. FrontIsKnown
  BY <1>1, <1>3, FoldersAreRanks DEF FrontIsKnown, There
<1>9. IncrIsHonest /\ FullIsHonest
  BY <1>1, <1>2 DEF IncrIsHonest, FullIsHonest, Due
<1>10. RunInOrder /\ CursorIsHonest /\ OpenIsHonest /\ SearchIsHonest
  BY <1>1 DEF RunInOrder, CursorIsHonest, OpenIsHonest, SearchIsHonest, Walking
<1>. QED  BY <1>5, <1>6, <1>7, <1>8, <1>9, <1>10 DEF WInv

LEMMA WalkStep == WInv /\ [WalkNext]_walkVars => WInv'
<1>. SUFFICES ASSUME WInv, [WalkNext]_walkVars  PROVE WInv'
  OBVIOUS
<1>1. CASE Change
  BY <1>1, ChangeIsQuiet, ChangeHolds
<1>2. CASE \E k \in {"full", "incremental"} : Start(k)
  BY <1>2, StartHolds
<1>3. CASE ReadMark \/ Bootstrap \/ RememberMark
  BY <1>3, ReadMarkHolds, BootstrapHolds, RememberMarkHolds
<1>4. CASE ListFolders \/ NothingLeft \/ Examine \/ FallBack \/ Search
  BY <1>4, ListFoldersHolds, NothingLeftHolds, ExamineHolds, FallBackHolds, SearchHolds
<1>5. CASE (\E m \in Lying : Fetch(m)) \/ Turn \/ StoreWatermark \/ Unpark
  BY <1>5, FetchHolds, TurnHolds, StoreWatermarkHolds, UnparkHolds
<1>6. CASE Refused \/ CutShort
  BY <1>6, GivenUpHolds
<1>7. CASE UNCHANGED walkVars
  <2>1. UNCHANGED <<server, ledger, scopes, listing, exempt>>
        /\ UNCHANGED <<pc, mode, cursor, mark, todo>>
    BY <1>7 DEF walkVars, histVars
  <2>. USE <2>1 DEF server, scopes, listing
  <2>2. WalkTypeOK' /\ Placed' /\ Given' /\ FiledUnderItsOwn'
    BY DEF WInv, WalkTypeOK, Placed, Given, FiledUnderItsOwn, There, Lying
  <2>3. MarksArePast' /\ FrontIsKnown' /\ RunInOrder'
    BY DEF WInv, MarksArePast, OfThePast, FrontIsKnown, RunInOrder, There, Walking
  <2>4. /\ \A m : (Due(m)' <=> Due(m)) /\ (Owed(m)' <=> Owed(m)) /\ Address(m)' = Address(m)
        /\ \A m : Reached(m)' <=> Reached(m)
    BY DEF Due, Owed, Reached, Below, Address, Lying, Archived
  <2>5. IncrIsHonest' /\ FullIsHonest'
    BY <2>4 DEF WInv, IncrIsHonest, FullIsHonest, Below
  <2>6. CursorIsHonest'
    BY <2>4 DEF WInv, CursorIsHonest
  <2>7. OpenIsHonest' /\ SearchIsHonest'
    BY <2>4 DEF WInv, OpenIsHonest, SearchIsHonest, Below
  <2>. QED  BY <2>2, <2>3, <2>5, <2>6, <2>7 DEF WInv
<1>. QED  BY <1>1, <1>2, <1>3, <1>4, <1>5, <1>6, <1>7 DEF WalkNext, Step

(* What the delta's starting point leaves behind is archived, whatever        *)
(* happened to the folders (_walk_from, _resume_at) and wherever walks broke  *)
(* off and were resumed (_run's checkpoints), except in folders made in front *)
(* of a starting point.                                                      *)
THEOREM MarksLeaveNothingBehind == WalkSpec => []BehindIsArchived
<1>1. WInv => BehindIsArchived
  <2>. SUFFICES ASSUME WInv, incr # Absent, NEW m \in LeftBehind, place[m][1] \notin before
       PROVE  FALSE
    BY DEF BehindIsArchived
  <2>1. /\ m \in Mail /\ m \in Lying /\ m \in Behind(incr) /\ m \notin Archived
        /\ Address(m) \notin exempt
    BY DEF LeftBehind, Behind, Lying
  <2>2. Due(m) /\ Below(incr, m)
    BY <2>1 DEF Due, Below, Behind, Address
  <2>. QED  BY <2>1, <2>2 DEF WInv, IncrIsHonest
<1>. QED  BY <1>1, WalkInitHolds, WalkStep, PTL DEF WalkSpec

(* No row of the ledger names another message than the one archived under it *)
(* (fetch under the UIDVALIDITY it was listed under), so that none is taken  *)
(* for one that is archived already.                                        *)
THEOREM RowsNameTheirOwn == WalkSpec => []FiledUnderItsOwn
<1>1. WInv => FiledUnderItsOwn
  BY DEF WInv
<1>. QED  BY <1>1, WalkInitHolds, WalkStep, PTL DEF WalkSpec

-----------------------------------------------------------------------------
(* The vectors and their index.                                             *)
IsRun(x) ==
    x = [pc |-> x.pc, config |-> x.config, result |-> x.result, after |-> x.after,
         page |-> x.page, owed |-> x.owed, missed |-> x.missed,
         overtaken |-> x.overtaken, shared |-> x.shared]

VectorTypeOK ==
    /\ stored \in Setting /\ web \in Setting
    /\ index \in Nat /\ torn \in BOOLEAN
    /\ vec \in [Msg -> Setting \cup {None}]
    /\ DOMAIN run = Runner
    /\ \A r \in Runner : IsRun(run[r]) /\ run[r].config \in Setting
    /\ build \in [Builder -> [pc : {"idle", "drop", "clear", "create"}, length : Nat]]
    /\ \A b \in Builder : build[b].pc # "idle" => build[b].length # 0

(* A run that writes vectors the index is meant for. *)
Counts(r) == run[r].pc # "idle" /\ ~run[r].overtaken

(* Under an index everything has its length: what was stored, and what the *)
(* runs that no rebuild has overtaken will store.                          *)
OneLength ==
    ~torn /\ index > 0 /\ NobodyClears =>
        /\ \A m \in Msg \ strays : vec[m] # None => vec[m].length = index
        /\ \A r \in Runner : Counts(r) => run[r].config.length = index

(* A rebuild that is about to create the index finds nothing of another    *)
(* length, unless somebody is still going to clear it.                     *)
NoneBetween ==
    ~torn /\ index = 0 /\ NobodyClears /\ (\E b \in Builder : build[b].pc = "create") =>
        /\ \A m \in Msg \ strays : vec[m] = None
        /\ \A r \in Runner : ~Counts(r)

VInv == VectorTypeOK /\ OneLength /\ NoneBetween

USE VectorAssumption

(* Settings have lengths. *)
LEMMA Lengths == \A s \in Setting : s.length \in Nat \ {0} /\ s # None
OBVIOUS

LEMMA InitInv == Init => VInv
<1>. SUFFICES ASSUME Init  PROVE VInv
  OBVIOUS
<1>1. VectorTypeOK
  BY Lengths DEF Init, VectorTypeOK, IsRun, Idle, NoBuild
<1>2. OneLength /\ NoneBetween
  BY Lengths DEF Init, OneLength, NoneBetween, Counts, Idle, NoBuild
<1>. QED  BY <1>1, <1>2 DEF VInv

-----------------------------------------------------------------------------
(* The runs.  What matters of a step: which runs count afterwards, and what *)
(* was stored.                                                             *)

RunsKeep ==
    /\ UNCHANGED <<stored, web, index, torn, build>>
    /\ vec' \in [Msg -> Setting \cup {None}] /\ DOMAIN run' = Runner
    /\ \A r \in Runner : /\ IsRun(run'[r]) /\ run'[r].config \in Setting
                         /\ Counts(r)' => \/ Counts(r) /\ run'[r].config = run[r].config
                                          \/ run'[r].config.length = index
    /\ \A m \in Msg \ strays' :
         \/ vec'[m] = vec[m] /\ m \notin strays
         \/ \E r \in Runner : Counts(r) /\ vec'[m] = run[r].config

LEMMA RunsKeepInv == VInv /\ RunsKeep => VInv'
<1>. SUFFICES ASSUME VInv, RunsKeep  PROVE VInv'
  OBVIOUS
<1>. USE DEF RunsKeep
<1>. USE DEF VInv
<1>1. VectorTypeOK'
  BY DEF VectorTypeOK
<1>2. NobodyClears' = NobodyClears
        /\ (\E b \in Builder : build[b].pc = "create")' = (\E b \in Builder : build[b].pc = "create")
  BY DEF NobodyClears
<1>3. OneLength'
  BY <1>2 DEF OneLength
<1>4. NoneBetween'
  <2>. SUFFICES ASSUME ~torn, index = 0, NobodyClears,
                       \E b \in Builder : build[b].pc = "create"
       PROVE  /\ \A m \in Msg \ strays' : vec'[m] = None
              /\ \A r \in Runner : ~Counts(r)'
    BY <1>2 DEF NoneBetween
  <2>. QED  BY Lengths DEF NoneBetween
<1>. QED  BY <1>1, <1>3, <1>4

(* A step of one run that stores nothing. *)
OwnStep(r) ==
    /\ UNCHANGED <<stored, web, index, torn, build, vec, strays>>
    /\ DOMAIN run' = Runner /\ \A q \in Runner \ {r} : run'[q] = run[q]
    /\ IsRun(run'[r]) /\ run'[r].config \in Setting
    /\ Counts(r)' => /\ run'[r].config = run[r].config
                     /\ Counts(r) \/ run[r].config.length = index

LEMMA OwnStepInv ==
    ASSUME VInv, NEW r \in Runner, OwnStep(r)
    PROVE  VInv'
<1>1. \A q \in Runner : /\ IsRun(run'[q]) /\ run'[q].config \in Setting
                        /\ Counts(q)' => \/ Counts(q) /\ run'[q].config = run[q].config
                                         \/ run'[q].config.length = index
  BY DEF OwnStep, VInv, VectorTypeOK, Counts
<1>2. vec' \in [Msg -> Setting \cup {None}]
  BY DEF OwnStep, VInv, VectorTypeOK
<1>3. RunsKeep
  BY <1>1, <1>2 DEF OwnStep, RunsKeep
<1>. QED  BY <1>3, RunsKeepInv

LEMMA IdleIsRun == \A c, v : IsRun(Idle(c, v)) /\ Idle(c, v).pc = "idle" /\ Idle(c, v).config = c
BY DEF IsRun, Idle

LEMMA EndKeeps ==
    ASSUME VInv, NEW r \in Runner, NEW v, End(r, v),
           UNCHANGED <<stored, web, index, torn, build, vec, strays>>
    PROVE  OwnStep(r)
<1>1. run' = [run EXCEPT ![r] = Idle(run[r].config, v)] /\ run[r].config \in Setting
      /\ DOMAIN run = Runner
  BY DEF End, VInv, VectorTypeOK
<1>2. run'[r] = Idle(run[r].config, v) /\ \A q \in Runner \ {r} : run'[q] = run[q]
  BY <1>1
<1>. QED  BY <1>1, <1>2, IdleIsRun DEF OwnStep, Counts

(* A batch moves a run on, and changes neither what it runs with nor        *)
(* whether it was overtaken.                                               *)
LEMMA BatchKeeps ==
    ASSUME NEW r \in Runner, IsRun(run[r]), NEW refused
    PROVE  LET y == BatchDone(r, refused)
           IN  IsRun(y) /\ y.config = run[r].config /\ y.overtaken = run[r].overtaken
<1>. DEFINE rest == run[r].page \ Batch(r)
            step == IF rest = {} THEN "read" ELSE "embed"
            after == IF rest = {} THEN Max(run[r].page) ELSE run[r].after
            missed == run[r].missed \cup refused
<1>1. BatchDone(r, refused) =
        [run[r] EXCEPT !.pc = step, !.page = rest, !.after = after, !.missed = missed]
  BY DEF BatchDone
<1>. HIDE DEF rest, step, after, missed
<1>. QED  BY <1>1 DEF IsRun

(* The start of a run, or of a process. *)
LEMMA StartVerifyInv ==
    ASSUME VInv, NEW r \in Runner, StartProcess(r) \/ Verify(r)
    PROVE  VInv'
<1>1. /\ IsRun(run[r]) /\ run[r].config \in Setting /\ stored \in Setting
      /\ DOMAIN run = Runner
  BY DEF VInv, VectorTypeOK
<1>2. UNCHANGED <<stored, web, index, torn, build, vec, strays>>
  BY DEF StartProcess, Verify, graphVars
<1>3. CASE StartProcess(r)
  <2>1. PICK c \in {stored, FileSetting} : run' = [run EXCEPT ![r] = Idle(c, None)]
    BY <1>3 DEF StartProcess
  <2>2. run'[r] = Idle(c, None) /\ DOMAIN run' = Runner /\ \A q \in Runner \ {r} : run'[q] = run[q]
    BY <1>1, <2>1
  <2>3. OwnStep(r)
    BY <1>1, <1>2, <2>2, IdleIsRun DEF OwnStep, Counts
  <2>. QED  BY <2>3, OwnStepInv
<1>4. CASE Verify(r) /\ index = run[r].config.length
  <2>1. run' = [run EXCEPT ![r].pc = "probe", ![r].result = None]
    BY <1>4 DEF Verify
  <2>2. run'[r] = [run[r] EXCEPT !.pc = "probe", !.result = None]
        /\ DOMAIN run' = Runner /\ \A q \in Runner \ {r} : run'[q] = run[q]
    BY <1>1, <2>1
  <2>3. IsRun(run'[r]) /\ run'[r].config = run[r].config
    BY <1>1, <2>2 DEF IsRun
  <2>4. OwnStep(r)
    BY <1>1, <1>2, <1>4, <2>2, <2>3 DEF OwnStep
  <2>. QED  BY <2>4, OwnStepInv
<1>5. CASE Verify(r) /\ index # run[r].config.length
  <2>1. End(r, "failed")
    BY <1>5 DEF Verify
  <2>. QED  BY <1>2, <2>1, EndKeeps, OwnStepInv
<1>. QED  BY <1>3, <1>4, <1>5

LEMMA ProbeInv ==
    ASSUME VInv, NEW r \in Runner, Probe(r)
    PROVE  VInv'
<1>1. DOMAIN run = Runner /\ \A q \in Runner : IsRun(run[q]) /\ run[q].config \in Setting
  BY DEF VInv, VectorTypeOK
<1>2. UNCHANGED <<stored, web, index, torn, build, vec, strays>> /\ run[r].pc = "probe"
  BY DEF Probe, graphVars
<1>3. CASE End(r, "failed")
  BY <1>2, <1>3, EndKeeps, OwnStepInv
<1>4. CASE ~End(r, "failed")
  <2>. DEFINE more(q) == \/ run[q].shared
                         \/ Active(q) /\ run[q].config.model # run[r].config.model
              any == \E o \in Runner \ {r} : Active(o) /\ run[o].config.model # run[r].config.model
  <2>1. run' = [q \in Runner |->
                  IF q = r THEN [run[r] EXCEPT !.pc = "read", !.owed = there, !.shared = any]
                  ELSE [run[q] EXCEPT !.shared = more(q)]]
    BY <1>4 DEF Probe
  <2>. HIDE DEF more, any
  <2>2. \A q \in Runner : /\ IsRun(run'[q]) /\ run'[q].config = run[q].config
                          /\ run'[q].overtaken = run[q].overtaken
                          /\ run'[q].pc = "idle" <=> run[q].pc = "idle"
    <3>1. /\ run'[r] = [run[r] EXCEPT !.pc = "read", !.owed = there, !.shared = any]
          /\ \A q \in Runner : q # r => run'[q] = [run[q] EXCEPT !.shared = more(q)]
      BY <2>1
    <3>2. \A q \in Runner : q # r => /\ IsRun(run'[q]) /\ run'[q].config = run[q].config
                                     /\ run'[q].overtaken = run[q].overtaken
                                     /\ run'[q].pc = run[q].pc
      <4>. SUFFICES ASSUME NEW q \in Runner, q # r
           PROVE  /\ IsRun(run'[q]) /\ run'[q].config = run[q].config
                  /\ run'[q].overtaken = run[q].overtaken /\ run'[q].pc = run[q].pc
        OBVIOUS
      <4>1. run'[q] = [run[q] EXCEPT !.shared = more(q)]
        BY <3>1
      <4>. QED  BY <1>1, <4>1 DEF IsRun
    <3>3. /\ IsRun(run'[r]) /\ run'[r].config = run[r].config
          /\ run'[r].overtaken = run[r].overtaken /\ run'[r].pc = "read"
      BY <1>1, <3>1 DEF IsRun
    <3>. QED  BY <1>2, <3>2, <3>3
  <2>3. RunsKeep
    BY <1>1, <1>2, <2>1, <2>2 DEF RunsKeep, Counts, VInv, VectorTypeOK
  <2>. QED  BY <2>3, RunsKeepInv
<1>. QED  BY <1>3, <1>4

LEMMA ReadEmbedInv ==
    ASSUME VInv, NEW r \in Runner, ReadPage(r) \/ Embed(r)
    PROVE  VInv'
<1>1. IsRun(run[r]) /\ run[r].config \in Setting /\ DOMAIN run = Runner
  BY DEF VInv, VectorTypeOK
<1>2. /\ UNCHANGED <<stored, web, index, torn, build, vec, strays>>
      /\ run[r].pc # "idle"
  BY DEF ReadPage, Embed, graphVars
<1>3. ASSUME NEW v, End(r, v)  PROVE VInv'
  BY <1>2, <1>3, EndKeeps, OwnStepInv
<1>4. ASSUME DOMAIN run' = Runner, \A q \in Runner \ {r} : run'[q] = run[q],
             IsRun(run'[r]), run'[r].config = run[r].config,
             run'[r].overtaken = run[r].overtaken
      PROVE  VInv'
  <2>1. OwnStep(r)
    BY <1>1, <1>2, <1>4 DEF OwnStep, Counts
  <2>. QED  BY <2>1, OwnStepInv
<1>5. CASE ReadPage(r)
  <2>. DEFINE page == First(PageSize, Pending(run[r].config, run[r].after))
  <2>1. page = {} => End(r, "succeeded")
    BY <1>5 DEF ReadPage
  <2>2. page # {} => run' = [run EXCEPT ![r].pc = "embed", ![r].page = page]
    BY <1>5 DEF ReadPage
  <2>. HIDE DEF page
  <2>3. CASE page # {}
    <3>1. /\ DOMAIN run' = Runner /\ \A q \in Runner \ {r} : run'[q] = run[q]
          /\ run'[r] = [run[r] EXCEPT !.pc = "embed", !.page = page]
      BY <1>1, <2>2, <2>3
    <3>2. /\ IsRun(run'[r]) /\ run'[r].config = run[r].config
          /\ run'[r].overtaken = run[r].overtaken
      BY <1>1, <3>1 DEF IsRun
    <3>. QED  BY <1>4, <3>1, <3>2
  <2>. QED  BY <1>3, <2>1, <2>3
<1>6. CASE Embed(r)
  <2>1. CASE run' = [run EXCEPT ![r].pc = "write"]
    <3>1. /\ DOMAIN run' = Runner /\ \A q \in Runner \ {r} : run'[q] = run[q]
          /\ run'[r] = [run[r] EXCEPT !.pc = "write"]
      BY <1>1, <2>1
    <3>2. /\ IsRun(run'[r]) /\ run'[r].config = run[r].config
          /\ run'[r].overtaken = run[r].overtaken
      BY <1>1, <3>1 DEF IsRun
    <3>. QED  BY <1>4, <3>1, <3>2
  <2>2. CASE run' = [run EXCEPT ![r] = BatchDone(r, Batch(r))]
    <3>1. /\ DOMAIN run' = Runner /\ \A q \in Runner \ {r} : run'[q] = run[q]
          /\ run'[r] = BatchDone(r, Batch(r))
      BY <1>1, <2>2
    <3>2. /\ IsRun(run'[r]) /\ run'[r].config = run[r].config
          /\ run'[r].overtaken = run[r].overtaken
      BY <1>1, <3>1, BatchKeeps
    <3>. QED  BY <1>4, <3>1, <3>2
  <2>. QED  BY <1>3, <1>6, <2>1, <2>2 DEF Embed
<1>. QED  BY <1>5, <1>6

(* write_batch: a run that counts stores vectors of its own length, one that *)
(* was overtaken stores strays.                                            *)
LEMMA WriteInv ==
    ASSUME VInv, NEW r \in Runner, Write(r)
    PROVE  VInv'
<1>1. /\ IsRun(run[r]) /\ run[r].config \in Setting /\ DOMAIN run = Runner
      /\ vec \in [Msg -> Setting \cup {None}]
  BY DEF VInv, VectorTypeOK
<1>2. UNCHANGED <<stored, web, index, torn, build>> /\ run[r].pc # "idle"
  BY DEF Write
<1>3. PICK refused \in SUBSET Batch(r) :
        /\ vec' = [m \in Msg |-> IF m \in Batch(r) \ refused THEN run[r].config ELSE vec[m]]
        /\ strays' = IF run[r].overtaken THEN strays \cup (Batch(r) \ refused)
                     ELSE strays \ (Batch(r) \ refused)
        /\ run' = [run EXCEPT ![r] = BatchDone(r, refused)] \/ End(r, "cancelled")
  BY DEF Write
<1>4. /\ DOMAIN run' = Runner /\ \A q \in Runner \ {r} : run'[q] = run[q]
      /\ IsRun(run'[r]) /\ run'[r].config = run[r].config
      /\ run'[r].pc = "idle" \/ run'[r].overtaken = run[r].overtaken
  <2>1. CASE run' = [run EXCEPT ![r] = BatchDone(r, refused)]
    <3>1. /\ DOMAIN run' = Runner /\ \A q \in Runner \ {r} : run'[q] = run[q]
          /\ run'[r] = BatchDone(r, refused)
      BY <1>1, <2>1
    <3>. QED  BY <1>1, <3>1, BatchKeeps
  <2>2. CASE End(r, "cancelled")
    <3>1. run' = [run EXCEPT ![r] = Idle(run[r].config, "cancelled")]
      BY <2>2 DEF End
    <3>. QED  BY <1>1, <3>1, IdleIsRun
  <2>. QED  BY <1>3, <2>1, <2>2
<1>5. \A q \in Runner : /\ IsRun(run'[q]) /\ run'[q].config \in Setting
                        /\ Counts(q)' => Counts(q) /\ run'[q].config = run[q].config
  BY <1>1, <1>2, <1>4 DEF Counts, VInv, VectorTypeOK
<1>6. vec' \in [Msg -> Setting \cup {None}]
  BY <1>1, <1>3
<1>7. ASSUME NEW m \in Msg \ strays'
      PROVE  \/ vec'[m] = vec[m] /\ m \notin strays
             \/ Counts(r) /\ vec'[m] = run[r].config
  BY <1>2, <1>3, <1>7 DEF Counts
<1>8. RunsKeep
  BY <1>2, <1>4, <1>5, <1>6, <1>7 DEF RunsKeep
<1>. QED  BY <1>8, RunsKeepInv

-----------------------------------------------------------------------------
(* The rebuilds.                                                           *)

LEMMA BuildInv ==
    ASSUME VInv, NEW b \in Builder, BeginRebuild(b) \/ RebuildFails(b) \/ Drop(b) \/ Create(b)
    PROVE  VInv'
<1>. USE DEF VInv
<1>1. /\ UNCHANGED <<stored, web, vec, strays, run>>
      /\ build \in [Builder -> [pc : {"idle", "drop", "clear", "create"}, length : Nat]]
      /\ index \in Nat /\ torn \in BOOLEAN
      /\ \A r \in Runner : Counts(r)' = Counts(r)
  BY DEF BeginRebuild, RebuildFails, Drop, Create, graphVars, VectorTypeOK, Counts
<1>2. CASE BeginRebuild(b)
  <2>1. PICK c \in {web, stored, FileSetting} :
          build' = [build EXCEPT ![b] = [pc |-> "drop", length |-> c.length]]
    BY <1>2 DEF BeginRebuild
  <2>2. c \in Setting /\ UNCHANGED <<index, torn>> /\ build[b].pc = "idle"
    BY <1>2 DEF BeginRebuild, graphVars, VectorTypeOK
  <2>3. /\ \A o \in Builder : o # b => build'[o] = build[o]
        /\ build'[b].pc = "drop" /\ build'[b].length = c.length
        /\ build' \in [Builder -> [pc : {"idle", "drop", "clear", "create"}, length : Nat]]
    BY <1>1, <2>1, <2>2, Lengths
  <2>4. VectorTypeOK'
    BY <1>1, <2>2, <2>3, Lengths DEF VectorTypeOK
  <2>5. NobodyClears' => NobodyClears
    BY <2>2, <2>3 DEF NobodyClears
  <2>6. (\E o \in Builder : build'[o].pc = "create") => \E o \in Builder : build[o].pc = "create"
    BY <2>3
  <2>. QED  BY <1>1, <2>2, <2>4, <2>5, <2>6 DEF OneLength, NoneBetween
<1>3. CASE RebuildFails(b)
  <2>1. /\ UNCHANGED index /\ build[b].pc # "idle"
        /\ torn' = (torn \/ Tears(b))
        /\ build' = [build EXCEPT ![b] = NoBuild]
    BY <1>3 DEF RebuildFails
  <2>2. /\ \A o \in Builder : o # b => build'[o] = build[o]
        /\ build'[b].pc = "idle"
        /\ build' \in [Builder -> [pc : {"idle", "drop", "clear", "create"}, length : Nat]]
        /\ torn' \in BOOLEAN
    BY <1>1, <2>1 DEF NoBuild, Tears
  <2>3. VectorTypeOK'
    BY <1>1, <2>1, <2>2 DEF VectorTypeOK
  <2>4. CASE build[b].pc = "clear"
    <3>1. ~torn' => ~(index > 0) /\ \A o \in Builder : build[o].pc # "create"
      BY <2>1, <2>4 DEF Tears
    <3>2. (\E o \in Builder : build'[o].pc = "create") => \E o \in Builder : build[o].pc = "create"
      BY <2>2
    <3>. QED  BY <1>1, <2>1, <2>3, <3>1, <3>2 DEF OneLength, NoneBetween
  <2>5. CASE build[b].pc # "clear"
    <3>1. NobodyClears' => NobodyClears
      BY <2>2, <2>5 DEF NobodyClears
    <3>2. (\E o \in Builder : build'[o].pc = "create") => \E o \in Builder : build[o].pc = "create"
      BY <2>2
    <3>3. ~torn' => ~torn
      BY <2>1
    <3>. QED  BY <1>1, <2>1, <2>3, <3>1, <3>2, <3>3 DEF OneLength, NoneBetween
  <2>. QED  BY <2>4, <2>5
<1>4. CASE Drop(b)
  <2>1. index' = 0 /\ UNCHANGED torn /\ build' = [build EXCEPT ![b].pc = "clear"]
        /\ build[b].pc = "drop"
    BY <1>4 DEF Drop
  <2>2. /\ \A o \in Builder : o # b => build'[o] = build[o]
        /\ build'[b].pc = "clear" /\ build'[b].length = build[b].length
        /\ build' \in [Builder -> [pc : {"idle", "drop", "clear", "create"}, length : Nat]]
    BY <1>1, <2>1
  <2>3. VectorTypeOK'
    BY <1>1, <2>1, <2>2 DEF VectorTypeOK
  <2>4. ~NobodyClears'
    BY <2>2 DEF NobodyClears
  <2>. QED  BY <2>3, <2>4 DEF OneLength, NoneBetween
<1>5. CASE Create(b)
  <2>1. index' = (IF index = 0 THEN build[b].length ELSE index) /\ UNCHANGED torn
        /\ build' = [build EXCEPT ![b] = NoBuild] /\ build[b].pc = "create"
    BY <1>5 DEF Create
  <2>2. /\ \A o \in Builder : o # b => build'[o] = build[o]
        /\ build'[b].pc = "idle"
        /\ build' \in [Builder -> [pc : {"idle", "drop", "clear", "create"}, length : Nat]]
        /\ build[b].length \in Nat \ {0}
    BY <1>1, <2>1 DEF NoBuild, VectorTypeOK
  <2>3. VectorTypeOK' /\ index' > 0
    BY <1>1, <2>1, <2>2 DEF VectorTypeOK
  <2>4. NobodyClears' => NobodyClears
    BY <2>1, <2>2 DEF NobodyClears
  <2>5. OneLength'
    <3>1. CASE index = 0
      BY <1>1, <2>1, <2>4, <3>1 DEF OneLength, NoneBetween
    <3>2. CASE index # 0
      BY <1>1, <2>1, <2>4, <3>2 DEF OneLength
    <3>. QED  BY <3>1, <3>2
  <2>. QED  BY <2>3, <2>5 DEF NoneBetween
<1>. QED  BY <1>2, <1>3, <1>4, <1>5

(* CLEAR_EMBEDDINGS: no vector is left, and every run under way is          *)
(* overtaken.                                                              *)
LEMMA ClearInv ==
    ASSUME VInv, NEW b \in Builder, Clear(b)
    PROVE  VInv'
<1>. USE DEF VInv
<1>1. /\ UNCHANGED <<stored, web, index>> /\ torn' = FALSE
      /\ vec' = [m \in Msg |-> None]
      /\ run' = [r \in Runner |-> [run[r] EXCEPT !.overtaken = run[r].overtaken \/ Active(r)]]
      /\ build' = [build EXCEPT ![b].pc = "create"] /\ build[b].pc = "clear"
  BY DEF Clear
<1>2. /\ \A o \in Builder : build[o].pc # "idle" => build[o].length # 0
      /\ build \in [Builder -> [pc : {"idle", "drop", "clear", "create"}, length : Nat]]
      /\ \A r \in Runner : IsRun(run[r]) /\ run[r].config \in Setting
  BY DEF VectorTypeOK
<1>3. \A r \in Runner : IsRun(run'[r]) /\ run'[r].config \in Setting /\ ~Counts(r)'
  <2>. SUFFICES ASSUME NEW r \in Runner
       PROVE  IsRun(run'[r]) /\ run'[r].config \in Setting /\ ~Counts(r)'
    OBVIOUS
  <2>. DEFINE o == run[r].overtaken \/ Active(r)
  <2>1. run'[r] = [run[r] EXCEPT !.overtaken = o]
    BY <1>1
  <2>2. run[r].pc # "idle" => o = TRUE
    BY DEF Active
  <2>. HIDE DEF o
  <2>3. IsRun(run'[r]) /\ run'[r].config = run[r].config /\ run'[r].pc = run[r].pc
    BY <1>2, <2>1 DEF IsRun
  <2>4. run'[r].overtaken = o
    BY <1>2, <2>1 DEF IsRun
  <2>5. run[r].pc # "idle" => run'[r].overtaken = TRUE
    BY <2>2, <2>4
  <2>. QED  BY <1>2, <2>3, <2>5 DEF Counts
<1>4. /\ build' \in [Builder -> [pc : {"idle", "drop", "clear", "create"}, length : Nat]]
      /\ \A o \in Builder : build'[o].pc # "idle" => build'[o].length # 0
  BY <1>1, <1>2
<1>5. VectorTypeOK'
  BY <1>1, <1>3, <1>4 DEF VectorTypeOK
<1>. QED  BY <1>1, <1>3, <1>5 DEF OneLength, NoneBetween

-----------------------------------------------------------------------------
LEMMA OthersInv ==
    ASSUME VInv, (\E s \in Setting : Save(s)) \/ (\E m \in Msg : Import(m)) \/ UNCHANGED vars
    PROVE  VInv'
<1>1. /\ UNCHANGED <<vec, index, strays, torn, run, build>>
      /\ stored' \in Setting /\ web' \in Setting
  BY DEF Save, Import, vars, graphVars, bounds, VInv, VectorTypeOK
<1>. QED  BY <1>1 DEF VInv, VectorTypeOK, OneLength, NoneBetween, NobodyClears, Counts

LEMMA StepInv == VInv /\ [Next]_vars => VInv'
<1>. SUFFICES ASSUME VInv, [Next]_vars  PROVE VInv'
  OBVIOUS
<1>1. ASSUME NEW r \in Runner,
             \/ StartProcess(r) \/ Verify(r) \/ Probe(r)
             \/ ReadPage(r) \/ Embed(r) \/ Write(r)
      PROVE  VInv'
  BY <1>1, StartVerifyInv, ProbeInv, ReadEmbedInv, WriteInv
<1>2. ASSUME NEW b \in Builder,
             BeginRebuild(b) \/ RebuildFails(b) \/ Drop(b) \/ Clear(b) \/ Create(b)
      PROVE  VInv'
  BY <1>2, BuildInv, ClearInv
<1>. QED  BY <1>1, <1>2, OthersInv DEF Next

(* While no rebuild is under way, what is stored has the length of the      *)
(* index, whatever was saved, rebuilt, cancelled or restarted, except for    *)
(* the two cases StoredIsSearchable names (rebuild_index, embed_pending).    *)
THEOREM StoredVectorsAreSearchable == Spec => []StoredIsSearchable
<1>1. VInv => StoredIsSearchable
  BY DEF VInv, OneLength, StoredIsSearchable
<1>. QED  BY <1>1, InitInv, StepInv, PTL DEF Spec
-----------------------------------------------------------------------------
(* What a run owes.  The ids of messages are numbers, and a page is the      *)
(* lowest of those that are open.                                          *)

(* A page is empty only when nothing is open, and what is open and not on   *)
(* it lies above it.                                                       *)
LEMMA FirstFacts ==
    ASSUME NEW S \in SUBSET Msg, NEW n \in Nat \ {0}
    PROVE  /\ First(n, S) \subseteq S
           /\ First(n, S) = {} => S = {}
           /\ \A m \in S \ First(n, S) : \A k \in First(n, S) : m > k
<1>0. \A k \in S : k \in Nat
  OBVIOUS
<1>1. \A T \in SUBSET S : IsFiniteSet(T)
  BY FS_Subset
<1>2. First(n, S) \subseteq S
  BY DEF First
<1>3. ASSUME S # {}  PROVE First(n, S) # {}
  <2>1. PICK x \in S : \A y \in S : x <= y
    BY <1>0, <1>3, Least
  <2>2. \A k \in S : ~(k < x)
    BY <1>0, <2>1
  <2>3. {k \in S : k < x} = {}
    BY <2>2
  <2>4. Cardinality({k \in S : k < x}) = 0
    BY <2>3, FS_EmptySet
  <2>5. 0 < n
    OBVIOUS
  <2>. QED  BY <2>1, <2>4, <2>5 DEF First
<1>4. ASSUME NEW m \in S, NEW k \in First(n, S), ~(m > k)  PROVE m \in First(n, S)
  <2>. DEFINE under(x) == {j \in S : j < x}
  <2>0. k \in S
    BY <1>2
  <2>1. m \in Nat /\ k \in Nat /\ m <= k
    BY <1>0, <1>4, <2>0
  <2>2. under(m) \in SUBSET under(k) /\ under(k) \in SUBSET S
    <3>1. ASSUME NEW j \in S, j < m  PROVE j < k
      BY <1>0, <2>1, <3>1
    <3>. QED  BY <3>1
  <2>3. Cardinality(under(m)) <= Cardinality(under(k))
    BY <1>1, <2>2, FS_Subset
  <2>4. Cardinality(under(k)) < n
    BY DEF First
  <2>5. Cardinality(under(m)) \in Nat /\ Cardinality(under(k)) \in Nat
    BY <1>1, <2>2, FS_CardinalityType
  <2>6. Cardinality(under(m)) < n
    BY <2>3, <2>4, <2>5
  <2>. QED  BY <2>6 DEF First
<1>. QED  BY <1>2, <1>3, <1>4

-----------------------------------------------------------------------------
Past(r) == run[r].pc \in {"read", "embed", "write"}

RunShape(r) ==
    /\ run[r].pc \in {"idle", "probe", "read", "embed", "write"}
    /\ run[r].page \in SUBSET Msg /\ run[r].owed \in SUBSET there /\ run[r].after \in Int
    /\ run[r].overtaken \in BOOLEAN /\ run[r].shared \in BOOLEAN
    /\ run[r].pc \in {"idle", "probe"} => run[r].after = -1
    /\ run[r].pc \in {"embed", "write"} => run[r].page # {}
    /\ Active(r) => run[r].result = None

(* A run that shares the graph with nobody's other model has its own model  *)
(* beside it only.                                                         *)
OneModel ==
    \A r, o \in Runner :
        Past(r) /\ Past(o) /\ ~run[r].shared => run[o].config.model = run[r].config.model

(* A message a run owes has a vector of its model, or is still ahead.       *)
Carried(m, r) ==
    \/ vec[m] # None /\ vec[m].model = run[r].config.model
    \/ run[r].pc = "read" /\ m > run[r].after
    \/ run[r].pc # "read" /\ (m \in run[r].page \/ \A k \in run[r].page : m > k)

Alone(r) == Past(r) /\ ~run[r].overtaken /\ ~run[r].shared

Owing(r) ==
    Alone(r) => \A m \in run[r].owed \ (run[r].missed \cup strays) : Carried(m, r)

RInv ==
    /\ there \in SUBSET Msg
    /\ \A r \in Runner : RunShape(r) /\ Owing(r)
    /\ OneModel

LEMMA InitOwes == Init => RInv
<1>. SUFFICES ASSUME Init  PROVE RInv
  OBVIOUS
<1>1. \A r \in Runner : run[r] = Idle(FileSetting, None) /\ ~Past(r)
  BY DEF Init, Idle, Past
<1>2. \A r \in Runner : RunShape(r)
  <2>. SUFFICES ASSUME NEW r \in Runner  PROVE RunShape(r)
    OBVIOUS
  <2>1. run[r] = Idle(FileSetting, None)
    BY <1>1
  <2>. QED  BY <2>1 DEF RunShape, Idle, Active
<1>. QED  BY <1>1, <1>2 DEF Init, RInv, Owing, Alone, OneModel

(* What a step leaves of a run it is not a step of: it may become shared or *)
(* overtaken, and its model may store more.                                *)
Leaves(q) ==
    /\ run'[q].pc = run[q].pc /\ run'[q].config = run[q].config
    /\ run'[q].after = run[q].after /\ run'[q].page = run[q].page
    /\ run'[q].owed = run[q].owed /\ run'[q].missed = run[q].missed
    /\ run'[q].result = run[q].result
    /\ run'[q].overtaken \in BOOLEAN /\ run'[q].shared \in BOOLEAN
    /\ run[q].overtaken => run'[q].overtaken
    /\ run[q].shared => run'[q].shared

(* What a step stores: vectors of the model of a run that is alone.         *)
Stores(q) ==
    \A m \in Msg \ strays' :
        \/ vec'[m] = vec[m] /\ m \notin strays
        \/ vec'[m] # None /\ (Alone(q) => vec'[m].model = run[q].config.model)

LEMMA LeavesKeep ==
    ASSUME RInv, NEW q \in Runner, Leaves(q), there \subseteq there', there' \subseteq Msg,
           Alone(q)' => Stores(q)
    PROVE  RunShape(q)' /\ Owing(q)'
<1>1. RunShape(q)'
  BY DEF RInv, RunShape, Leaves, Active
<1>2. ASSUME Alone(q)', NEW m \in run'[q].owed \ (run'[q].missed \cup strays')
      PROVE  Carried(m, q)'
  <2>1. Alone(q)
    BY <1>2 DEF Alone, Past, Leaves, RInv, RunShape
  <2>2. m \in Msg \ strays' /\ m \in run[q].owed /\ m \notin run[q].missed
    BY <1>2 DEF Leaves, RInv, RunShape
  <2>3. CASE vec'[m] = vec[m] /\ m \notin strays
    <3>1. Carried(m, q)
      BY <2>1, <2>2, <2>3 DEF RInv, Owing
    <3>. QED  BY <2>3, <3>1 DEF Carried, Leaves
  <2>4. CASE vec'[m] # None /\ vec'[m].model = run[q].config.model
    BY <2>4 DEF Carried, Leaves
  <2>. QED  BY <1>2, <2>1, <2>2, <2>3, <2>4 DEF Stores
<1>. QED  BY <1>1, <1>2 DEF Owing

LEMMA OneModelKept ==
    ASSUME RInv,
           \A q \in Runner : Past(q)' =>
              Past(q) /\ run'[q].config = run[q].config /\ (run[q].shared => run'[q].shared)
    PROVE  OneModel'
BY DEF RInv, OneModel

(* A step of one run, and how it is checked. *)
LEMMA StepOwes ==
    ASSUME RInv, NEW r \in Runner, UNCHANGED there,
           \A q \in Runner \ {r} : Leaves(q) /\ Stores(q),
           RunShape(r)', Owing(r)',
           Past(r)' => Past(r) /\ run'[r].config = run[r].config /\ (run[r].shared => run'[r].shared)
    PROVE  RInv'
<1>1. \A q \in Runner : RunShape(q)' /\ Owing(q)'
  BY LeavesKeep DEF RInv
<1>2. OneModel'
  <2>1. \A q \in Runner \ {r} : Past(q)' =>
          Past(q) /\ run'[q].config = run[q].config /\ (run[q].shared => run'[q].shared)
    BY DEF Leaves, Past
  <2>. QED  BY <2>1, OneModelKept
<1>. QED  BY <1>1, <1>2 DEF RInv

LEMMA SameLeaves ==
    ASSUME RInv, NEW q \in Runner, run'[q] = run[q]
    PROVE  Leaves(q)
BY DEF Leaves, RInv, RunShape

LEMMA QuietStores ==
    ASSUME UNCHANGED <<vec, strays>>, NEW q
    PROVE  Stores(q)
BY DEF Stores

LEMMA IdleOwes ==
    ASSUME RInv, NEW r \in Runner, NEW c, NEW v, run'[r] = Idle(c, v)
    PROVE  RunShape(r)' /\ Owing(r)' /\ ~Past(r)'
<1>1. ~Past(r)'
  BY DEF Past, Idle
<1>2. RunShape(r)'
  BY DEF RunShape, Idle, Active
<1>. QED  BY <1>1, <1>2 DEF Owing, Alone

-----------------------------------------------------------------------------
LEMMA IdleStepOwes ==
    ASSUME RInv, VInv, NEW r \in Runner, NEW c, NEW v, run' = [run EXCEPT ![r] = Idle(c, v)],
           UNCHANGED <<there, vec, strays>>
    PROVE  RInv'
<1>1. run'[r] = Idle(c, v) /\ \A q \in Runner \ {r} : run'[q] = run[q]
  BY DEF VInv, VectorTypeOK
<1>2. \A q \in Runner \ {r} : Leaves(q) /\ Stores(q)
  BY <1>1, SameLeaves, QuietStores
<1>3. RunShape(r)' /\ Owing(r)' /\ ~Past(r)'
  BY <1>1, IdleOwes
<1>. QED  BY <1>2, <1>3, StepOwes

LEMMA StartVerifyOwes ==
    ASSUME RInv, VInv, NEW r \in Runner, StartProcess(r) \/ Verify(r)
    PROVE  RInv'
<1>1. UNCHANGED <<there, vec, strays>>
  BY DEF StartProcess, Verify, graphVars
<1>2. CASE StartProcess(r)
  BY <1>1, <1>2, IdleStepOwes DEF StartProcess
<1>3. CASE Verify(r) /\ index # run[r].config.length
  BY <1>1, <1>3, IdleStepOwes DEF Verify, End
<1>4. CASE Verify(r) /\ index = run[r].config.length
  <2>1. run' = [run EXCEPT ![r].pc = "probe", ![r].result = None]
    BY <1>4 DEF Verify
  <2>2. run'[r] = [run[r] EXCEPT !.pc = "probe", !.result = None]
        /\ \A q \in Runner \ {r} : run'[q] = run[q]
    BY <2>1 DEF VInv, VectorTypeOK
  <2>3. IsRun(run[r]) /\ RunShape(r)
    BY DEF VInv, VectorTypeOK, RInv
  <2>4. /\ run'[r].pc = "probe" /\ run'[r].result = None
        /\ run'[r].page = run[r].page /\ run'[r].owed = run[r].owed
        /\ run'[r].after = run[r].after /\ run'[r].overtaken = run[r].overtaken
        /\ run'[r].shared = run[r].shared
    BY <2>2, <2>3 DEF IsRun
  <2>5. RunShape(r)' /\ ~Past(r)'
    BY <1>1, <1>4, <2>3, <2>4 DEF Verify, RunShape, Past, Active
  <2>6. Owing(r)'
    BY <2>5 DEF Owing, Alone
  <2>7. \A q \in Runner \ {r} : Leaves(q) /\ Stores(q)
    BY <1>1, <2>2, SameLeaves, QuietStores
  <2>. QED  BY <1>1, <2>5, <2>6, <2>7, StepOwes
<1>. QED  BY <1>2, <1>3, <1>4

(* The count: everything there is ahead, and whoever has another model is   *)
(* told.                                                                   *)
LEMMA ProbeOwes ==
    ASSUME RInv, VInv, NEW r \in Runner, Probe(r)
    PROVE  RInv'
<1>1. \A q \in Runner : IsRun(run[q]) /\ RunShape(q)
  BY DEF VInv, VectorTypeOK, RInv
<1>2. UNCHANGED <<there, vec, strays>> /\ run[r].pc = "probe"
  BY DEF Probe, graphVars
<1>3. CASE End(r, "failed")
  BY <1>2, <1>3, IdleStepOwes DEF End
<1>4. CASE ~End(r, "failed")
  <2>. DEFINE differs(q) == Active(q) /\ run[q].config.model # run[r].config.model
              more(q) == run[q].shared \/ differs(q)
              any == \E o \in Runner \ {r} : differs(o)
  <2>1. run' = [q \in Runner |->
                  IF q = r THEN [run[r] EXCEPT !.pc = "read", !.owed = there, !.shared = any]
                  ELSE [run[q] EXCEPT !.shared = more(q)]]
    BY <1>4 DEF Probe
  <2>2. \A q \in Runner : more(q) \in BOOLEAN /\ (run[q].shared => more(q))
    BY <1>1 DEF RunShape, Active
  <2>3. any \in BOOLEAN
    OBVIOUS
  <2>. HIDE DEF more, any
  <2>4. ASSUME NEW q \in Runner, q # r
        PROVE  Leaves(q) /\ run'[q].shared = more(q)
    <3>1. run'[q] = [run[q] EXCEPT !.shared = more(q)]
      BY <2>1, <2>4
    <3>2. IsRun(run[q]) /\ run[q].overtaken \in BOOLEAN
      BY <1>1 DEF RunShape
    <3>. QED  BY <2>2, <3>1, <3>2 DEF Leaves, IsRun
  <2>5. /\ run'[r].pc = "read" /\ run'[r].owed = there /\ run'[r].shared = any
        /\ run'[r].config = run[r].config /\ run'[r].after = run[r].after
        /\ run'[r].page = run[r].page /\ run'[r].result = run[r].result
        /\ run'[r].overtaken = run[r].overtaken
    <3>1. run'[r] = [run[r] EXCEPT !.pc = "read", !.owed = there, !.shared = any]
      BY <2>1
    <3>. QED  BY <1>1, <3>1 DEF IsRun
  <2>6. RunShape(r)'
    BY <1>1, <1>2, <2>3, <2>5 DEF RunShape, Active
  <2>7. Owing(r)'
    <3>1. run[r].after = -1 /\ \A m \in there : m > -1
      BY <1>1, <1>2 DEF RunShape, RInv
    <3>. QED  BY <2>5, <3>1 DEF Owing, Carried
  <2>8. \A q \in Runner : RunShape(q)' /\ Owing(q)'
    BY <1>2, <2>4, <2>6, <2>7, LeavesKeep, QuietStores DEF RInv
  <2>9. OneModel'
    <3>. SUFFICES ASSUME NEW q \in Runner, NEW o \in Runner, Past(q)', Past(o)', ~run'[q].shared
         PROVE  run'[o].config.model = run'[q].config.model
      BY DEF OneModel
    <3>1. CASE q # r /\ o # r
      BY <2>4, <3>1 DEF RInv, OneModel, Past, Leaves, RunShape
    <3>2. CASE q = r /\ o # r
      <4>1. ~differs(o)
        BY <2>5, <3>2 DEF any
      <4>. QED  BY <2>4, <2>5, <3>2, <4>1 DEF Past, Active, Leaves
    <3>3. CASE q # r /\ o = r
      <4>1. ~differs(q)
        BY <2>4, <3>3 DEF more
      <4>. QED  BY <2>4, <2>5, <3>3, <4>1 DEF Past, Active, Leaves
    <3>. QED  BY <3>1, <3>2, <3>3
  <2>. QED  BY <1>2, <2>8, <2>9 DEF RInv
<1>. QED  BY <1>3, <1>4

-----------------------------------------------------------------------------
(* A page: what is owed and open is on it or above it. *)
LEMMA ReadPageOwes ==
    ASSUME RInv, VInv, NEW r \in Runner, ReadPage(r)
    PROVE  RInv'
<1>. DEFINE lacking == Pending(run[r].config, run[r].after)
            page    == First(PageSize, lacking)
<1>1. IsRun(run[r]) /\ RunShape(r) /\ Owing(r)
  BY DEF VInv, VectorTypeOK, RInv
<1>2. /\ UNCHANGED <<there, vec, strays>> /\ run[r].pc = "read"
      /\ lacking \in SUBSET Msg
  BY DEF ReadPage, graphVars, Pending, RInv
<1>3. CASE page = {}
  BY <1>2, <1>3, IdleStepOwes DEF ReadPage, End
<1>4. CASE page # {}
  <2>1. run' = [run EXCEPT ![r].pc = "embed", ![r].page = page]
    BY <1>4 DEF ReadPage
  <2>2. /\ page \subseteq lacking
        /\ \A m \in lacking \ page : \A k \in page : m > k
    BY <1>2, FirstFacts
  <2>3. \A m \in there : \/ vec[m] # None /\ vec[m].model = run[r].config.model
                         \/ ~(m > run[r].after) \/ m \in lacking
    BY DEF Pending
  <2>. HIDE DEF page, lacking
  <2>4. run'[r] = [run[r] EXCEPT !.pc = "embed", !.page = page]
        /\ \A q \in Runner \ {r} : run'[q] = run[q]
    BY <2>1 DEF VInv, VectorTypeOK
  <2>5. /\ run'[r].pc = "embed" /\ run'[r].page = page
        /\ run'[r].config = run[r].config /\ run'[r].after = run[r].after
        /\ run'[r].owed = run[r].owed /\ run'[r].missed = run[r].missed
        /\ run'[r].result = run[r].result /\ run'[r].shared = run[r].shared
        /\ run'[r].overtaken = run[r].overtaken
    BY <1>1, <2>4 DEF IsRun
  <2>6. RunShape(r)'
    BY <1>1, <1>2, <1>4, <2>2, <2>5 DEF RunShape, Active
  <2>7. Owing(r)'
    <3>. SUFFICES ASSUME Alone(r)', NEW m \in run'[r].owed \ (run'[r].missed \cup strays')
         PROVE  Carried(m, r)'
      BY DEF Owing
    <3>1. Alone(r) /\ m \in run[r].owed \ (run[r].missed \cup strays) /\ m \in there
      BY <1>1, <1>2, <2>5 DEF Alone, Past, RunShape
    <3>2. Carried(m, r)
      BY <1>1, <3>1 DEF Owing
    <3>. QED  BY <1>2, <2>2, <2>3, <2>5, <3>1, <3>2 DEF Carried
  <2>8. \A q \in Runner \ {r} : Leaves(q) /\ Stores(q)
    BY <1>2, <2>4, SameLeaves, QuietStores
  <2>. QED  BY <1>2, <2>5, <2>6, <2>7, <2>8, StepOwes DEF Past
<1>. QED  BY <1>3, <1>4

LEMMA BatchFields ==
    ASSUME NEW r \in Runner, IsRun(run[r]), NEW refused
    PROVE  LET y    == BatchDone(r, refused)
               rest == run[r].page \ Batch(r)
           IN  /\ y.pc = (IF rest = {} THEN "read" ELSE "embed") /\ y.page = rest
               /\ y.after = (IF rest = {} THEN Max(run[r].page) ELSE run[r].after)
               /\ y.missed = run[r].missed \cup refused
               /\ y.config = run[r].config /\ y.owed = run[r].owed
               /\ y.result = run[r].result /\ y.shared = run[r].shared
               /\ y.overtaken = run[r].overtaken
<1>. DEFINE rest == run[r].page \ Batch(r)
            step == IF rest = {} THEN "read" ELSE "embed"
            after == IF rest = {} THEN Max(run[r].page) ELSE run[r].after
            missed == run[r].missed \cup refused
            y == BatchDone(r, refused)
<1>1. y = [run[r] EXCEPT !.pc = step, !.page = rest, !.after = after, !.missed = missed]
  BY DEF BatchDone
<1>. HIDE DEF rest, step, after, missed, y
<1>2. /\ y.pc = step /\ y.page = rest /\ y.after = after /\ y.missed = missed
      /\ y.config = run[r].config /\ y.owed = run[r].owed
      /\ y.result = run[r].result /\ y.shared = run[r].shared
      /\ y.overtaken = run[r].overtaken
  BY <1>1 DEF IsRun
<1>. QED  BY <1>2 DEF step, after, missed, rest, y

(* A batch that was stored or refused: the run goes on with what it left. *)
LEMMA BatchOwes ==
    ASSUME RInv, VInv, NEW r \in Runner, run[r].pc \in {"embed", "write"},
           NEW refused \in SUBSET Batch(r), UNCHANGED there,
           run' = [run EXCEPT ![r] = BatchDone(r, refused)],
           \A m \in Batch(r) \ refused :
              vec'[m] # None /\ vec'[m].model = run[r].config.model,
           \A q \in Runner : Stores(q)
    PROVE  RInv'
<1>1. IsRun(run[r]) /\ RunShape(r) /\ Owing(r)
  BY DEF VInv, VectorTypeOK, RInv
<1>2. run'[r] = BatchDone(r, refused) /\ \A q \in Runner \ {r} : run'[q] = run[q]
  BY DEF VInv, VectorTypeOK
<1>. DEFINE rest == run[r].page \ Batch(r)
<1>3. /\ run'[r].pc = (IF rest = {} THEN "read" ELSE "embed") /\ run'[r].page = rest
      /\ run'[r].after = (IF rest = {} THEN Max(run[r].page) ELSE run[r].after)
      /\ run'[r].missed = run[r].missed \cup refused
      /\ run'[r].config = run[r].config /\ run'[r].owed = run[r].owed
      /\ run'[r].result = run[r].result /\ run'[r].shared = run[r].shared
      /\ run'[r].overtaken = run[r].overtaken
  BY <1>1, <1>2, BatchFields
<1>4. /\ run[r].page \in SUBSET Msg /\ run[r].page # {} /\ rest \in SUBSET Msg
      /\ Max(run[r].page) \in run[r].page /\ Max(run[r].page) \in Int
      /\ \A k \in run[r].page : Max(run[r].page) >= k
  <2>1. run[r].page \in SUBSET Msg /\ run[r].page # {} /\ rest \in SUBSET Msg
    <3>1. run[r].page \in SUBSET Msg /\ run[r].page # {}
      BY <1>1 DEF RunShape
    <3>2. \A m \in rest : m \in Msg
      BY <3>1
    <3>. QED  BY <3>1, <3>2
  <2>2. run[r].page \in SUBSET Nat /\ IsFiniteSet(run[r].page)
    BY <2>1, FS_Subset
  <2>. QED  BY <2>1, <2>2, MaxIsGreatest
<1>. HIDE DEF rest
<1>5. RunShape(r)'
  <2>1. CASE rest = {}
    BY <1>1, <1>3, <1>4, <2>1 DEF RunShape, Active
  <2>2. CASE rest # {}
    <3>1. run'[r].pc = "embed" /\ run'[r].page # {} /\ run'[r].after = run[r].after
      BY <1>3, <2>2
    <3>2. run'[r].result = None /\ run'[r].page \in SUBSET Msg
      BY <1>1, <1>3, <1>4 DEF RunShape, Active
    <3>3. run'[r].owed \in SUBSET there' /\ run'[r].after \in Int
          /\ run'[r].shared \in BOOLEAN /\ run'[r].overtaken \in BOOLEAN
      BY <1>1, <1>3, <3>1 DEF RunShape
    <3>. QED  BY <3>1, <3>2, <3>3 DEF RunShape
  <2>. QED  BY <2>1, <2>2
<1>6. Owing(r)'
  <2>. SUFFICES ASSUME Alone(r)', NEW m \in run'[r].owed \ (run'[r].missed \cup strays')
       PROVE  Carried(m, r)'
    BY DEF Owing
  <2>1. Alone(r) /\ m \in run[r].owed \ run[r].missed /\ m \in Msg /\ m \notin refused
    BY <1>1, <1>3 DEF Alone, Past, RunShape, RInv
  <2>2. CASE vec'[m] # None /\ vec'[m].model = run[r].config.model
    BY <1>3, <2>2 DEF Carried
  <2>3. CASE vec'[m] = vec[m] /\ m \notin strays /\ m \notin Batch(r)
    <3>1. Carried(m, r)
      BY <1>1, <2>1, <2>3 DEF Owing
    <3>2. CASE m \in run[r].page
      <4>1. m \in rest
        BY <2>3, <3>2 DEF rest
      <4>. QED  BY <1>3, <4>1 DEF Carried
    <3>3. CASE \A k \in run[r].page : m > k
      <4>1. m > Max(run[r].page) /\ \A k \in rest : m > k
        BY <1>4, <3>3 DEF rest
      <4>2. run'[r].pc = "read" => run'[r].after = Max(run[r].page)
        BY <1>3
      <4>. QED  BY <1>3, <4>1, <4>2 DEF Carried
    <3>. QED  BY <1>3, <2>3, <3>1, <3>2, <3>3 DEF Carried
  <2>4. m \in Batch(r) => vec'[m] # None /\ vec'[m].model = run[r].config.model
    BY <2>1
  <2>5. m \in Msg \ strays' /\ Alone(r) /\ Stores(r)
    BY <2>1
  <2>. QED  BY <2>2, <2>3, <2>4, <2>5 DEF Stores
<1>7. \A q \in Runner \ {r} : Leaves(q)
  BY <1>2, SameLeaves
<1>. QED  BY <1>3, <1>5, <1>6, <1>7, StepOwes DEF Past

LEMMA EmbedOwes ==
    ASSUME RInv, VInv, NEW r \in Runner, Embed(r)
    PROVE  RInv'
<1>1. IsRun(run[r]) /\ RunShape(r) /\ Owing(r)
  BY DEF VInv, VectorTypeOK, RInv
<1>2. UNCHANGED <<there, vec, strays>> /\ run[r].pc = "embed"
  BY DEF Embed, graphVars
<1>3. ASSUME NEW v, End(r, v)  PROVE RInv'
  BY <1>2, <1>3, IdleStepOwes DEF End
<1>4. CASE run' = [run EXCEPT ![r].pc = "write"]
  <2>1. run'[r] = [run[r] EXCEPT !.pc = "write"]
        /\ \A q \in Runner \ {r} : run'[q] = run[q]
    BY <1>4 DEF VInv, VectorTypeOK
  <2>2. /\ run'[r].pc = "write" /\ run'[r].page = run[r].page
        /\ run'[r].config = run[r].config /\ run'[r].after = run[r].after
        /\ run'[r].owed = run[r].owed /\ run'[r].missed = run[r].missed
        /\ run'[r].result = run[r].result /\ run'[r].shared = run[r].shared
        /\ run'[r].overtaken = run[r].overtaken
    BY <1>1, <2>1 DEF IsRun
  <2>3. RunShape(r)'
    BY <1>1, <1>2, <2>2 DEF RunShape, Active
  <2>4. Owing(r)'
    BY <1>1, <1>2, <2>2 DEF Owing, Alone, Past, Carried
  <2>5. \A q \in Runner \ {r} : Leaves(q) /\ Stores(q)
    BY <1>2, <2>1, SameLeaves, QuietStores
  <2>. QED  BY <1>2, <2>2, <2>3, <2>4, <2>5, StepOwes DEF Past
<1>5. CASE run' = [run EXCEPT ![r] = BatchDone(r, Batch(r))]
  <2>1. \A q \in Runner : Stores(q)
    BY <1>2, QuietStores
  <2>. QED  BY <1>2, <1>5, <2>1, BatchOwes
<1>. QED  BY <1>3, <1>4, <1>5 DEF Embed

(* What a run stores has its own model, which is that of every run that is  *)
(* alone; one that was overtaken stores strays.                            *)
LEMMA WriteOwes ==
    ASSUME RInv, VInv, NEW r \in Runner, Write(r)
    PROVE  RInv'
<1>1. UNCHANGED there /\ run[r].pc = "write" /\ run[r].config \in Setting /\ RunShape(r)
  BY DEF Write, VInv, VectorTypeOK, RInv
<1>2. PICK refused \in SUBSET Batch(r) :
        /\ vec' = [m \in Msg |-> IF m \in Batch(r) \ refused THEN run[r].config ELSE vec[m]]
        /\ strays' = IF run[r].overtaken THEN strays \cup (Batch(r) \ refused)
                     ELSE strays \ (Batch(r) \ refused)
        /\ run' = [run EXCEPT ![r] = BatchDone(r, refused)] \/ End(r, "cancelled")
  BY DEF Write
<1>. DEFINE good == Batch(r) \ refused
<1>3. \A m \in Msg : /\ m \in good => vec'[m] = run[r].config
                     /\ m \notin good => vec'[m] = vec[m] /\ (m \in strays => m \in strays')
  BY <1>2
<1>4. \A m \in good : m \in Msg
  BY <1>1 DEF Batch, First, RunShape
<1>. HIDE DEF good
<1>5. ASSUME NEW q \in Runner  PROVE Stores(q)
  <2>1. Alone(q) => run[r].config.model = run[q].config.model
    BY <1>1 DEF Alone, Past, RInv, OneModel
  <2>. QED  BY <1>1, <1>3, <2>1, Lengths DEF Stores
<1>6. CASE run' = [run EXCEPT ![r] = BatchDone(r, refused)]
  <2>1. \A m \in good : vec'[m] # None /\ vec'[m].model = run[r].config.model
    BY <1>1, <1>3, <1>4, Lengths
  <2>. QED  BY <1>1, <1>5, <1>6, <2>1, BatchOwes DEF good
<1>7. CASE End(r, "cancelled")
  <2>1. run'[r] = Idle(run[r].config, "cancelled") /\ \A q \in Runner \ {r} : run'[q] = run[q]
    BY <1>7 DEF End, VInv, VectorTypeOK
  <2>2. RunShape(r)' /\ Owing(r)' /\ ~Past(r)'
    BY <2>1, IdleOwes
  <2>3. \A q \in Runner \ {r} : Leaves(q) /\ Stores(q)
    BY <1>5, <2>1, SameLeaves
  <2>. QED  BY <1>1, <2>2, <2>3, StepOwes
<1>. QED  BY <1>2, <1>6, <1>7

(* The steps of nobody's run.  A rebuild's clear leaves no run alone. *)
LEMMA RestOwes ==
    ASSUME RInv, VInv,
           \/ \E s \in Setting : Save(s)
           \/ \E m \in Msg : Import(m)
           \/ \E b \in Builder :
                 BeginRebuild(b) \/ RebuildFails(b) \/ Drop(b) \/ Clear(b) \/ Create(b)
           \/ UNCHANGED vars
    PROVE  RInv'
<1>1. CASE UNCHANGED <<vec, strays, run>> /\ there \subseteq there' /\ there' \subseteq Msg
  <2>1. \A q \in Runner : Leaves(q) /\ Stores(q)
    BY <1>1, SameLeaves, QuietStores
  <2>2. \A q \in Runner : RunShape(q)' /\ Owing(q)'
    BY <1>1, <2>1, LeavesKeep
  <2>3. OneModel'
    BY <1>1 DEF RInv, OneModel, Past
  <2>. QED  BY <1>1, <2>2, <2>3 DEF RInv
<1>2. ASSUME NEW b \in Builder, Clear(b)  PROVE RInv'
  <2>1. /\ UNCHANGED there
        /\ run' = [r \in Runner |-> [run[r] EXCEPT !.overtaken = run[r].overtaken \/ Active(r)]]
    BY <1>2 DEF Clear
  <2>2. ASSUME NEW q \in Runner  PROVE Leaves(q) /\ ~Alone(q)'
    <3>. DEFINE o == run[q].overtaken \/ Active(q)
    <3>1. run'[q] = [run[q] EXCEPT !.overtaken = o]
      BY <2>1
    <3>2. IsRun(run[q]) /\ run[q].overtaken \in BOOLEAN /\ run[q].shared \in BOOLEAN
      BY DEF VInv, VectorTypeOK, RInv, RunShape
    <3>3. o \in BOOLEAN /\ (run[q].overtaken => o) /\ (Past(q) => o)
      BY <3>2 DEF Active, Past
    <3>. HIDE DEF o
    <3>4. Leaves(q) /\ run'[q].overtaken = o
      BY <3>1, <3>2, <3>3 DEF Leaves, IsRun
    <3>. QED  BY <3>3, <3>4 DEF Alone, Past, Leaves
  <2>3. \A q \in Runner : RunShape(q)' /\ Owing(q)'
    BY <2>1, <2>2, LeavesKeep DEF RInv
  <2>4. OneModel'
    BY <2>2, OneModelKept DEF Leaves, Past
  <2>. QED  BY <2>1, <2>3, <2>4 DEF RInv
<1>3. CASE \/ (\E s \in Setting : Save(s)) \/ UNCHANGED vars
           \/ \E m \in Msg : Import(m)
  <2>1. UNCHANGED <<vec, strays, run>> /\ there \subseteq there' /\ there' \subseteq Msg
    BY <1>3 DEF Save, Import, vars, graphVars, RInv
  <2>. QED  BY <1>1, <2>1
<1>4. CASE \E b \in Builder : BeginRebuild(b) \/ RebuildFails(b) \/ Drop(b) \/ Create(b)
  <2>1. UNCHANGED <<vec, strays, run>> /\ there \subseteq there' /\ there' \subseteq Msg
    BY <1>4 DEF BeginRebuild, RebuildFails, Drop, Create, graphVars, RInv
  <2>. QED  BY <1>1, <2>1
<1>. QED  BY <1>2, <1>3, <1>4

LEMMA StepOwesAll == RInv /\ VInv /\ [Next]_vars => RInv'
<1>. SUFFICES ASSUME RInv, VInv, [Next]_vars  PROVE RInv'
  OBVIOUS
<1>1. ASSUME NEW r \in Runner,
             \/ StartProcess(r) \/ Verify(r) \/ Probe(r)
             \/ ReadPage(r) \/ Embed(r) \/ Write(r)
      PROVE  RInv'
  BY <1>1, StartVerifyOwes, ProbeOwes, ReadPageOwes, EmbedOwes, WriteOwes
<1>. QED  BY <1>1, RestOwes DEF Next

-----------------------------------------------------------------------------
(* A run ends well only by reading an empty page. *)
LEMMA EndsWellByReading ==
    ASSUME RInv, VInv, [Next]_vars, NEW r \in Runner,
           run[r].pc = "read", run'[r].result = "succeeded"
    PROVE  ReadPage(r) /\ Pending(run[r].config, run[r].after) = {}
<1>1. run[r].result = None /\ IsRun(run[r]) /\ None # "succeeded" /\ DOMAIN run = Runner
  <2>1. Active(r) /\ RunShape(r)
    BY DEF RInv, Active
  <2>2. None # "succeeded"
    OBVIOUS
  <2>. QED  BY <2>1, <2>2 DEF VInv, VectorTypeOK, RunShape
<1>2. run'[r].result # run[r].result
  BY <1>1
<1>3. ~UNCHANGED run
  BY <1>2
<1>4. ASSUME NEW q \in Runner, NEW x, run' = [run EXCEPT ![q] = x]
      PROVE  q = r /\ run'[r] = x
  BY <1>1, <1>2, <1>4
<1>5. ASSUME NEW q \in Runner, StartProcess(q)  PROVE FALSE
  <2>1. PICK c \in {stored, FileSetting} : run' = [run EXCEPT ![q] = Idle(c, None)]
    BY <1>5 DEF StartProcess
  <2>. QED  BY <1>1, <1>2, <1>4, <2>1 DEF Idle
<1>6. ASSUME NEW q \in Runner, Verify(q)  PROVE FALSE
  <2>1. run[q].pc = "idle"
    BY <1>6 DEF Verify
  <2>2. q # r
    BY <2>1
  <2>3. run'[r] = run[r]
    BY <1>1, <1>6, <2>2 DEF Verify, End
  <2>. QED  BY <1>2, <2>3
<1>7. ASSUME NEW q \in Runner, Probe(q)  PROVE FALSE
  <2>1. q # r
    BY <1>7 DEF Probe
  <2>2. CASE End(q, "failed")
    BY <1>1, <1>2, <2>1, <2>2 DEF End
  <2>3. CASE ~End(q, "failed")
    <3>. DEFINE more == run[r].shared \/ (Active(r) /\ run[r].config.model # run[q].config.model)
    <3>1. run'[r] = [run[r] EXCEPT !.shared = more]
      BY <1>7, <2>1, <2>3 DEF Probe
    <3>. HIDE DEF more
    <3>2. run'[r].result = run[r].result
      BY <1>1, <3>1 DEF IsRun
    <3>. QED  BY <1>2, <3>2
  <2>. QED  BY <2>2, <2>3
<1>8. ASSUME NEW q \in Runner, Embed(q) \/ Write(q)  PROVE FALSE
  <2>1. q # r
    BY <1>8 DEF Embed, Write
  <2>2. run'[r] = run[r]
    BY <1>1, <1>8, <2>1 DEF Embed, Write, End
  <2>. QED  BY <1>2, <2>2
<1>9. ASSUME NEW b \in Builder, Clear(b)  PROVE FALSE
  <2>. DEFINE o == run[r].overtaken \/ Active(r)
  <2>1. run'[r] = [run[r] EXCEPT !.overtaken = o]
    BY <1>9 DEF Clear
  <2>. HIDE DEF o
  <2>2. run'[r].result = run[r].result
    BY <1>1, <2>1 DEF IsRun
  <2>. QED  BY <1>2, <2>2
<1>10. PICK q \in Runner : ReadPage(q)
  <2>1. ~(\E s \in Setting : Save(s)) /\ ~(\E m \in Msg : Import(m))
    BY <1>3 DEF Save, Import
  <2>2. ~\E b \in Builder : BeginRebuild(b) \/ RebuildFails(b) \/ Drop(b) \/ Create(b)
    BY <1>3 DEF BeginRebuild, RebuildFails, Drop, Create
  <2>3. ~UNCHANGED vars
    BY <1>3 DEF vars
  <2>. QED  BY <1>5, <1>6, <1>7, <1>8, <1>9, <2>1, <2>2, <2>3 DEF Next
<1>. DEFINE lacking == Pending(run[q].config, run[q].after)
            page == First(PageSize, lacking)
<1>11. q = r
  <2>1. q # r => run'[r] = run[r]
    BY <1>1, <1>10 DEF ReadPage, End
  <2>. QED  BY <1>2, <2>1
<1>12. page = {}
  <2>. SUFFICES ASSUME page # {}  PROVE FALSE
    OBVIOUS
  <2>1. run' = [run EXCEPT ![r].pc = "embed", ![r].page = page]
    BY <1>10, <1>11 DEF ReadPage
  <2>. HIDE DEF page
  <2>2. run'[r] = [run[r] EXCEPT !.pc = "embed", !.page = page]
    BY <1>1, <2>1
  <2>3. run'[r].result = run[r].result
    BY <1>1, <2>2 DEF IsRun
  <2>. QED  BY <1>2, <2>3
<1>13. lacking \in SUBSET Msg
  BY DEF RInv, Pending
<1>14. lacking = {}
  BY <1>12, <1>13, FirstFacts
<1>. QED  BY <1>10, <1>11, <1>14

(* A run that ends of itself has found a vector for everything it owed, or   *)
(* there is somebody to blame for it (embed_pending): see                   *)
(* RunLeavesNothingBehind for who may be.                                   *)
THEOREM RunsLeaveNothing == Spec => RunLeavesNothingBehind
<1>1. ASSUME RInv, VInv, [Next]_vars
      PROVE  \A r \in Runner :
               run[r].pc = "read" /\ run'[r].result = "succeeded"
                  /\ ~run[r].overtaken /\ ~run[r].shared /\ index = run[r].config.length
                  /\ NobodyClears /\ ~torn
               => \A m \in run[r].owed \ (run[r].missed \cup strays) :
                     Found(m, run[r].config)
  <2>. SUFFICES ASSUME NEW r \in Runner, run[r].pc = "read", run'[r].result = "succeeded",
                       ~run[r].overtaken, ~run[r].shared, index = run[r].config.length,
                       NobodyClears, ~torn,
                       NEW m \in run[r].owed \ (run[r].missed \cup strays)
       PROVE  Found(m, run[r].config)
    OBVIOUS
  <2>1. Carried(m, r) /\ m \in there /\ m \in Msg \ strays
    BY <1>1 DEF RInv, RunShape, Owing, Alone, Past
  <2>2. Pending(run[r].config, run[r].after) = {}
    BY <1>1, EndsWellByReading
  <2>3. vec[m] # None /\ vec[m].model = run[r].config.model
    BY <2>1, <2>2 DEF Carried, Pending
  <2>4. index > 0
    BY <1>1, Lengths DEF VInv, VectorTypeOK
  <2>5. vec[m].length = index
    BY <1>1, <2>1, <2>3, <2>4 DEF VInv, OneLength
  <2>. QED  BY <2>3, <2>5 DEF Found
<1>. QED  BY <1>1, InitInv, StepInv, InitOwes, StepOwesAll, PTL DEF Spec, RunLeavesNothingBehind
===============================================================================
