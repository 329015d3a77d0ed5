-------------------------- MODULE Resources_proofs --------------------------
(***************************************************************************)
(* Theorems about what is counted, kept and shown: the users of sprites    *)
(* and models, recordings, and the users of a texture.                     *)
(***************************************************************************)
EXTENDS MCResources, FiniteSetTheorems, SequenceTheorems, TLAPS

-----------------------------------------------------------------------------
(***************************************************************************)
(* The users of sprites and models: RenderUsers, for every finite set of   *)
(* instances and any sprites and models.  The counts are right as long as  *)
(* they cannot reach 2^32: three users for each instance, one as the       *)
(* instance and one in each buffer, and the sprites' commands.             *)
(***************************************************************************)

Amount == Cardinality(Instances)
FewInstances == IsFiniteSet(Instances) /\ 3 * Amount + 2 < CountModulus

-----------------------------------------------------------------------------
(* Numbers and sets.                                                       *)

LEMMA ModulusType == CountModulus \in Nat /\ CountModulus > 1
  BY ResourcesAssumption

LEMMA ModType == \A n \in Int : n % CountModulus \in 0 .. CountModulus - 1
  BY ModulusType

LEMMA ModSmall == \A n \in 0 .. CountModulus - 1 : n % CountModulus = n
  BY ModulusType

LEMMA SumZero == \A a, b, c \in Nat : a + b + c = 0 => b = 0 /\ c = 0
  OBVIOUS

\* Sets of instances, and what an instance more or less does to their size.
LEMMA SetSize ==
    ASSUME FewInstances, NEW S \in SUBSET Instances
    PROVE  /\ IsFiniteSet(S) /\ Amount \in Nat
           /\ Cardinality(S) \in Nat /\ Cardinality(S) <= Amount
           /\ Cardinality(S) = 0 <=> S = {}
  <1>1. IsFiniteSet(S) /\ Cardinality(S) <= Amount
    BY FS_Subset DEF FewInstances, Amount
  <1>2. QED
    BY <1>1, FS_CardinalityType, FS_EmptySet DEF FewInstances, Amount

LEMMA OneMore ==
    ASSUME FewInstances, NEW S \in SUBSET Instances, NEW i \in Instances
    PROVE  /\ i \notin S => Cardinality(S \cup {i}) = Cardinality(S) + 1
           /\ i \in S => Cardinality(S \ {i}) = Cardinality(S) - 1
  BY SetSize, FS_AddElement, FS_RemoveElement

LEMMA HoldersType == \A r : Holders(r) \in SUBSET Instances
  BY DEF Holders

-----------------------------------------------------------------------------
(* The invariant: no buffer has more commands for a model than there are   *)
(* instances, the buffer to be filled has none, and what is not loaded has *)
(* no users at all.                                                        *)

Counts == [Resources -> 0 .. CountModulus - 1]

CommandsBounded ==
    /\ \A b \in {"A", "B"} : \A r \in Resources : commands[b][r] <= Amount + 1
    /\ \A b \in {"A", "B"} : \A m \in Models : commands[b][m] <= Amount
    /\ ~filled => \A m \in Models : commands[Filling][m] = 0

UnloadedIsUnused == ~drawn => \A r \in Resources \ loaded : myUserCount[r] = 0

UsersInv == TypeOK /\ CommandsBounded /\ UsersMatch /\ UnloadedIsUnused

LEMMA OneType ==
    ASSUME NEW r \in Resources
    PROVE  /\ One(r) \in [Resources -> {0, 1}] /\ One(r)[r] = 1
           /\ \A s \in Resources : s # r => One(r)[s] = 0
  BY DEF One

LEMMA PlusType ==
    ASSUME NEW count \in Counts, NEW change \in [Resources -> Nat]
    PROVE  /\ Plus(count, change) \in Counts
           /\ \A r \in Resources : count[r] + change[r] < CountModulus
                 => Plus(count, change)[r] = count[r] + change[r]
  <1>1. \A r \in Resources : count[r] + change[r] \in Nat /\ count[r] + change[r] \in Int
    BY ModulusType DEF Counts
  <1>2. QED
    BY <1>1, ModType, ModSmall, ModulusType DEF Plus, Counts

LEMMA MinusType ==
    ASSUME NEW count \in Counts, NEW change \in [Resources -> Nat]
    PROVE  /\ Minus(count, change) \in Counts
           /\ \A r \in Resources : change[r] <= count[r]
                 => Minus(count, change)[r] = count[r] - change[r]
  <1>1. ASSUME NEW r \in Resources
        PROVE  /\ Minus(count, change)[r] = (count[r] - change[r]) % CountModulus
               /\ Minus(count, change)[r] \in 0 .. CountModulus - 1
               /\ change[r] <= count[r] => Minus(count, change)[r] = count[r] - change[r]
    <2>1. count[r] \in 0 .. CountModulus - 1 /\ change[r] \in Nat /\ CountModulus \in Nat
      BY ModulusType DEF Counts
    <2>2. Minus(count, change)[r] = (count[r] - change[r]) % CountModulus
      BY DEF Minus
    <2>3. count[r] - change[r] \in Int
      BY <2>1
    <2>4. (count[r] - change[r]) % CountModulus \in 0 .. CountModulus - 1
      BY <2>3, ModType
    <2>5. change[r] <= count[r] => count[r] - change[r] \in 0 .. CountModulus - 1
      BY <2>1
    <2>6. change[r] <= count[r] => (count[r] - change[r]) % CountModulus = count[r] - change[r]
      BY <2>5, ModSmall
    <2>7. QED
      BY <2>2, <2>4, <2>6
  <1>2. Minus(count, change) \in Counts
    BY <1>1 DEF Minus, Counts
  <1>3. QED
    BY <1>1, <1>2

LEMMA TypeFacts ==
    ASSUME TypeOK
    PROVE  /\ myUserCount \in Counts
           /\ commands["A"] \in Counts /\ commands["B"] \in Counts
           /\ commands["A"] \in [Resources -> Nat] /\ commands["B"] \in [Resources -> Nat]
           /\ commands[Filling] \in Counts /\ commands[Rendered] \in Counts
           /\ Filling \in {"A", "B"} /\ Rendered \in {"A", "B"} /\ Filling # Rendered
           /\ \A r \in Resources : /\ myUserCount[r] \in Nat
                                   /\ commands["A"][r] \in Nat /\ commands["B"][r] \in Nat
  BY ModulusType DEF TypeOK, Counts, Filling, Rendered

LEMMA NoneType == None \in Counts /\ None \in [Resources -> Nat] /\ \A r \in Resources : None[r] = 0
  BY ModulusType DEF None, Counts

LEMMA InitUsersInv == FewInstances /\ Init => UsersInv
  <1> SUFFICES ASSUME FewInstances, Init PROVE UsersInv
    OBVIOUS
  <1>1. \A b \in {"A", "B"} : commands[b] = None
    BY DEF Init
  <1>2. TypeOK
    <2>1. commands \in [{"A", "B"} -> Counts]
      BY NoneType DEF Init
    <2>2. \A b \in {"A", "B"} : \A r \in Sprites : commands[b][r] <= 1
      BY <1>1, NoneType DEF Resources
    <2>3. holds \in [Instances -> Resources \cup {Nothing}] /\ scene \subseteq Instances
      BY DEF Init
    <2>4. myUserCount \in Counts
      BY NoneType DEF Init
    <2>5. QED
      BY <2>1, <2>2, <2>3, <2>4 DEF Init, TypeOK, Counts
  <1>3. \A r \in Resources : Holders(r) = {}
    BY ResourcesAssumption DEF Init, Holders, Resources
  <1>4. \A r \in Resources : Cardinality(Holders(r)) = 0
    BY <1>3, FS_EmptySet
  <1>5. Amount \in Nat
    BY FS_CardinalityType DEF FewInstances, Amount
  <1>6. CommandsBounded
    BY <1>1, <1>5, NoneType DEF CommandsBounded, Filling, Resources
  <1>7. UsersMatch /\ UnloadedIsUnused
    BY <1>1, <1>4, NoneType DEF Init, UsersMatch, UnloadedIsUnused
  <1>8. QED
    BY <1>2, <1>6, <1>7 DEF UsersInv

\* What the invariant says of one resource: how high its numbers can be.
LEMMA Bounds ==
    ASSUME FewInstances, UsersInv, NEW r \in Resources
    PROVE  /\ Amount \in Nat /\ Cardinality(Holders(r)) \in Nat
           /\ Cardinality(Holders(r)) <= Amount
           /\ commands["A"][r] \in 0 .. Amount + 1 /\ commands["B"][r] \in 0 .. Amount + 1
           /\ myUserCount[r] \in Nat
           /\ ~drawn => /\ myUserCount[r] = Cardinality(Holders(r)) + commands["A"][r] + commands["B"][r]
                        /\ Holders(r) # {} => myUserCount[r] > 0 /\ r \in loaded
  <1>1. /\ Amount \in Nat /\ Cardinality(Holders(r)) \in Nat /\ Cardinality(Holders(r)) <= Amount
        /\ Cardinality(Holders(r)) = 0 <=> Holders(r) = {}
    BY SetSize, HoldersType
  <1>2. /\ commands["A"][r] \in Nat /\ commands["B"][r] \in Nat /\ myUserCount[r] \in Nat
        /\ commands["A"][r] <= Amount + 1 /\ commands["B"][r] <= Amount + 1
    BY TypeFacts DEF UsersInv, CommandsBounded
  <1>3. ~drawn => myUserCount[r] = Cardinality(Holders(r)) + commands["A"][r] + commands["B"][r]
    BY DEF UsersInv, UsersMatch
  <1>4. ~drawn /\ myUserCount[r] > 0 => r \in loaded
    BY DEF UsersInv, UnloadedIsUnused
  <1>5. QED
    BY <1>1, <1>2, <1>3, <1>4

-----------------------------------------------------------------------------
(* Instances: the commands and the buffers stay as they are.               *)

LEMMA CommandsKept ==
    ASSUME CommandsBounded, UNCHANGED <<commands, myRenderBufferA, filled>>
    PROVE  CommandsBounded'
  BY DEF CommandsBounded, Filling

LEMMA TypeKept ==
    ASSUME TypeOK, UNCHANGED <<commands, myRenderBufferA, filled, drawn>>,
           myUserCount' \in Counts, loaded' \subseteq Resources,
           holds' \in [Instances -> Resources \cup {Nothing}], scene' \subseteq Instances
    PROVE  TypeOK'
  BY DEF TypeOK, Counts

LEMMA ReleaseUsers ==
    ASSUME FewInstances, UsersInv, NEW i \in Instances, Release(i),
           NEW r \in Resources, holds[i] = r
    PROVE  UsersInv'
  <1>1. TypeOK /\ CommandsBounded
    BY DEF UsersInv
  <1>2. myUserCount \in Counts /\ One(r) \in [Resources -> Nat]
    BY <1>1, TypeFacts, OneType
  <1>3. myUserCount' = Minus(myUserCount, One(r)) /\ myUserCount' \in Counts
    BY <1>2, MinusType DEF Release
  <1>4. holds' = [holds EXCEPT ![i] = Nothing] /\ holds' \in [Instances -> Resources \cup {Nothing}]
    BY <1>1 DEF Release, TypeOK
  <1>5. TypeOK' /\ CommandsBounded'
    <2>1. loaded' \subseteq Resources /\ scene' \subseteq Instances
      BY <1>1 DEF Release, TypeOK
    <2>2. UNCHANGED <<commands, myRenderBufferA, filled, drawn>>
      BY DEF Release
    <2>3. QED
      BY <1>1, <1>3, <1>4, <2>1, <2>2, TypeKept, CommandsKept
  <1>6. Holders(r)' = Holders(r) \ {i} /\ i \in Holders(r)
    BY <1>1, <1>4, ResourcesAssumption DEF Holders, TypeOK, Resources
  <1>7. \A s \in Resources : s # r => Holders(s)' = Holders(s)
    BY <1>1, <1>4, ResourcesAssumption DEF Holders, TypeOK, Resources
  <1>8. ASSUME NEW s \in Resources, s # r
        PROVE  myUserCount'[s] = myUserCount[s]
    <2>1. myUserCount[s] \in Nat /\ One(r)[s] = 0
      BY <1>1, <1>8, TypeFacts, OneType
    <2>2. myUserCount'[s] = myUserCount[s] - 0
      BY <1>2, <1>3, <2>1, MinusType
    <2>3. QED
      BY <2>1, <2>2
  <1>9. ASSUME ~drawn
        PROVE  /\ myUserCount[r] > 0 /\ myUserCount'[r] = myUserCount[r] - 1
               /\ Cardinality(Holders(r)') = Cardinality(Holders(r)) - 1
    <2>1. myUserCount[r] > 0 /\ myUserCount[r] \in Nat
      BY <1>1, <1>6, <1>9, Bounds
    <2>2. myUserCount'[r] = myUserCount[r] - 1
      BY <1>1, <1>2, <1>3, <2>1, MinusType, OneType
    <2>3. QED
      BY <1>6, <2>1, <2>2, OneMore, HoldersType
  <1>10. UsersMatch'
    <2>1. SUFFICES ASSUME ~drawn, NEW s \in Resources
                   PROVE  myUserCount'[s] = Cardinality(Holders(s)') + commands["A"][s] + commands["B"][s]
      BY DEF UsersMatch, Release
    <2>2. CASE s = r
      BY <1>9, <2>1, <2>2, Bounds
    <2>3. CASE s # r
      BY <1>7, <1>8, <2>1, <2>3, Bounds
    <2>4. QED
      BY <2>2, <2>3
  <1>11. UnloadedIsUnused'
    <2>1. SUFFICES ASSUME ~drawn, NEW s \in Resources, s \notin loaded'
                   PROVE  myUserCount'[s] = 0
      BY DEF UnloadedIsUnused, Release
    <2>2. loaded' = loaded \ Unload(r)
      BY DEF Release
    <2>3. CASE s = r
      <3>1. r \in loaded
        BY <1>1, <1>6, <2>1, Bounds
      <3>2. myUserCount[r] = 1
        BY <2>1, <2>2, <2>3, <3>1 DEF Unload
      <3>3. QED
        BY <1>9, <2>1, <2>3, <3>2
    <2>4. CASE s # r
      BY <1>8, <2>1, <2>2, <2>4 DEF UsersInv, UnloadedIsUnused, Unload
    <2>5. QED
      BY <2>3, <2>4
  <1>12. QED
    BY <1>5, <1>10, <1>11 DEF UsersInv

\* Get and Copy: an instance that held nothing now holds r, which is loaded.
LEMMA OneUserMore ==
    ASSUME FewInstances, UsersInv, NEW i \in Instances, NEW r \in Resources,
           holds[i] = Nothing, holds' = [holds EXCEPT ![i] = r],
           myUserCount' = Plus(myUserCount, One(r)),
           loaded' = loaded \cup {r} \/ (loaded' = loaded /\ (drawn \/ r \in loaded)),
           UNCHANGED <<scene, commands, myRenderBufferA, filled, drawn>>
    PROVE  UsersInv'
  <1>1. TypeOK /\ CommandsBounded
    BY DEF UsersInv
  <1>2. myUserCount \in Counts /\ One(r) \in [Resources -> Nat]
    BY <1>1, TypeFacts, OneType
  <1>3. myUserCount' \in Counts
    BY <1>2, PlusType
  <1>4. holds' \in [Instances -> Resources \cup {Nothing}]
    BY <1>1 DEF TypeOK
  <1>5. TypeOK' /\ CommandsBounded'
    <2>1. loaded' \subseteq Resources /\ scene' \subseteq Instances
      BY <1>1 DEF TypeOK
    <2>2. QED
      BY <1>1, <1>3, <1>4, <2>1, TypeKept, CommandsKept
  <1>6. Holders(r)' = Holders(r) \cup {i} /\ i \notin Holders(r)
    BY <1>1, ResourcesAssumption DEF Holders, TypeOK, Resources
  <1>7. \A s \in Resources : s # r => Holders(s)' = Holders(s)
    BY <1>1, ResourcesAssumption DEF Holders, TypeOK, Resources
  <1>8. ASSUME ~drawn
        PROVE  /\ myUserCount'[r] = myUserCount[r] + 1
               /\ Cardinality(Holders(r)') = Cardinality(Holders(r)) + 1
    <2>1. Cardinality(Holders(r)') = Cardinality(Holders(r)) + 1
      BY <1>6, OneMore, HoldersType
    <2>2. Holders(r) \cup {i} \in SUBSET Instances
      BY HoldersType
    <2>3. Cardinality(Holders(r)') <= Amount
      BY <1>6, <2>2, SetSize
    <2>4. myUserCount[r] + 1 < CountModulus
      BY <1>8, <2>1, <2>3, Bounds, ModulusType DEF FewInstances
    <2>5. QED
      BY <1>2, <2>1, <2>4, PlusType, OneType
  <1>9. ASSUME NEW s \in Resources, s # r
        PROVE  myUserCount'[s] = myUserCount[s]
    <2>1. myUserCount[s] \in 0 .. CountModulus - 1 /\ One(r)[s] = 0
      BY <1>2, <1>9, OneType DEF Counts
    <2>2. myUserCount[s] + One(r)[s] < CountModulus /\ myUserCount[s] + One(r)[s] = myUserCount[s]
      BY <2>1, ModulusType
    <2>3. QED
      BY <1>2, <2>2, PlusType
  <1>10. UsersMatch'
    <2>1. SUFFICES ASSUME ~drawn, NEW s \in Resources
                   PROVE  myUserCount'[s] = Cardinality(Holders(s)') + commands["A"][s] + commands["B"][s]
      BY DEF UsersMatch
    <2>2. CASE s = r
      BY <1>8, <2>1, <2>2, Bounds
    <2>3. CASE s # r
      BY <1>7, <1>9, <2>1, <2>3, Bounds
    <2>4. QED
      BY <2>2, <2>3
  <1>11. UnloadedIsUnused'
    BY <1>9 DEF UsersInv, UnloadedIsUnused
  <1>12. QED
    BY <1>5, <1>10, <1>11 DEF UsersInv

LEMMA CopyUsers ==
    ASSUME FewInstances, UsersInv, NEW i \in Instances, NEW j \in Instances, Copy(i, j)
    PROVE  UsersInv'
  <1>1. holds[j] \in Resources /\ j \in Holders(holds[j])
    BY DEF Copy, UsersInv, TypeOK, Holders
  <1>2. drawn \/ holds[j] \in loaded
    BY <1>1, Bounds
  <1>3. QED
    BY <1>1, <1>2, OneUserMore DEF Copy

LEMMA SceneUsers ==
    ASSUME UsersInv, NEW i \in Instances, EnterScene(i) \/ LeaveScene(i)
    PROVE  UsersInv'
  <1>1. TypeOK'
    BY DEF UsersInv, TypeOK, EnterScene, LeaveScene
  <1>2. CommandsBounded'
    BY CommandsKept DEF UsersInv, EnterScene, LeaveScene
  <1>3. UsersMatch' /\ UnloadedIsUnused'
    BY DEF UsersInv, UsersMatch, UnloadedIsUnused, Holders, EnterScene, LeaveScene
  <1>4. QED
    BY <1>1, <1>2, <1>3 DEF UsersInv

-----------------------------------------------------------------------------
(* The frame: who holds what stays as it is.                               *)

LEMMA SwitchUsers ==
    ASSUME FewInstances, UsersInv, SwitchAndCleanBuffers
    PROVE  UsersInv'
  <1>1. TypeOK /\ CommandsBounded /\ UsersMatch /\ UnloadedIsUnused
    BY DEF UsersInv
  <1>2. /\ commands' = [commands EXCEPT ![Rendered] = None] /\ filled' = FALSE
        /\ myUserCount' = Minus(myUserCount, commands[Rendered])
        /\ myRenderBufferA' = ~myRenderBufferA /\ UNCHANGED <<loaded, holds, scene, drawn>>
    BY DEF SwitchAndCleanBuffers
  <1>3. /\ commands[Rendered] \in [Resources -> Nat] /\ myUserCount \in Counts
        /\ Rendered \in {"A", "B"} /\ Filling \in {"A", "B"} /\ Filling # Rendered
    BY <1>1, TypeFacts DEF Rendered
  <1>4. myUserCount' \in Counts
    BY <1>2, <1>3, MinusType
  <1>5. commands' \in [{"A", "B"} -> Counts] /\ commands'[Rendered] = None
        /\ commands'[Filling] = commands[Filling]
    BY <1>1, <1>2, <1>3, NoneType DEF TypeOK, Counts
  <1>6. \A b \in {"A", "B"} : b = Rendered \/ b = Filling
    BY DEF Rendered, Filling
  <1>7. \A b \in {"A", "B"} : \A r \in Resources :
            commands'[b][r] = commands[b][r] \/ commands'[b][r] = 0
    BY <1>5, <1>6, NoneType
  <1>8. Filling' = Rendered
    BY <1>1, <1>2 DEF Filling, Rendered, TypeOK
  <1>9. Amount \in Nat
    BY FS_CardinalityType DEF FewInstances, Amount
  <1>10. TypeOK'
    <2>1. \A b \in {"A", "B"} : \A r \in Sprites : commands'[b][r] <= 1
      BY <1>1, <1>7 DEF TypeOK, Resources
    <2>2. /\ loaded' \subseteq Resources /\ scene' \subseteq Instances
          /\ holds' \in [Instances -> Resources \cup {Nothing}]
          /\ myRenderBufferA' \in BOOLEAN /\ filled' \in BOOLEAN /\ drawn' \in BOOLEAN
      BY <1>1, <1>2 DEF TypeOK
    <2>3. QED
      BY <1>4, <1>5, <2>1, <2>2 DEF TypeOK, Counts
  <1>11. CommandsBounded'
    <2>1. \A b \in {"A", "B"} : \A r \in Resources : commands'[b][r] <= Amount + 1
      BY <1>1, <1>7, <1>9 DEF CommandsBounded
    <2>2. \A b \in {"A", "B"} : \A m \in Models : commands'[b][m] <= Amount
      BY <1>1, <1>7, <1>9 DEF CommandsBounded, Resources
    <2>3. \A m \in Models : commands'[Filling'][m] = 0
      BY <1>5, <1>8, NoneType DEF Resources
    <2>4. QED
      BY <2>1, <2>2, <2>3 DEF CommandsBounded
  <1>12. ASSUME ~drawn, NEW r \in Resources
         PROVE  /\ myUserCount'[r] = myUserCount[r] - commands[Rendered][r]
                /\ commands["A"][r] + commands["B"][r] = commands[Filling][r] + commands[Rendered][r]
                /\ commands'["A"][r] + commands'["B"][r] = commands[Filling][r]
    <2>1. /\ commands["A"][r] \in Nat /\ commands["B"][r] \in Nat
          /\ Cardinality(Holders(r)) \in Nat /\ myUserCount[r] \in Nat
          /\ myUserCount[r] = Cardinality(Holders(r)) + commands["A"][r] + commands["B"][r]
      BY <1>12, Bounds
    <2>2. \/ Rendered = "A" /\ Filling = "B"
          \/ Rendered = "B" /\ Filling = "A"
      BY DEF Rendered, Filling
    <2>3. commands[Rendered][r] <= myUserCount[r]
      BY <2>1, <2>2
    <2>4. commands["A"][r] + commands["B"][r] = commands[Filling][r] + commands[Rendered][r]
      BY <2>1, <2>2
    <2>5. commands'["A"][r] + commands'["B"][r] = commands[Filling][r]
      BY <1>5, <2>1, <2>2, NoneType
    <2>6. QED
      BY <1>2, <1>3, <2>3, <2>4, <2>5, MinusType
  <1>13. UsersMatch'
    <2>1. SUFFICES ASSUME ~drawn, NEW r \in Resources
                   PROVE  myUserCount'[r] = Cardinality(Holders(r)) + commands'["A"][r] + commands'["B"][r]
      BY <1>2 DEF UsersMatch, Holders
    <2>2. /\ Cardinality(Holders(r)) \in Nat /\ commands[Filling][r] \in Nat
          /\ commands[Rendered][r] \in Nat
          /\ commands["A"][r] \in Nat /\ commands["B"][r] \in Nat
          /\ commands'["A"][r] \in Nat /\ commands'["B"][r] \in Nat
      BY <1>1, <1>5, TypeFacts, Bounds, ModulusType DEF Counts
    <2>3. QED
      BY <1>12, <2>1, <2>2, Bounds
  <1>14. UnloadedIsUnused'
    <2>1. SUFFICES ASSUME ~drawn, NEW r \in Resources \ loaded
                   PROVE  myUserCount'[r] = 0
      BY <1>2 DEF UnloadedIsUnused
    <2>2. myUserCount[r] = 0 /\ commands[Rendered][r] \in Nat /\ commands[Filling][r] \in Nat
          /\ Cardinality(Holders(r)) \in Nat
      BY <1>1, <2>1, TypeFacts, Bounds DEF UnloadedIsUnused, Counts
    <2>3. Cardinality(Holders(r)) + commands[Filling][r] + commands[Rendered][r] = 0
      <3>1. /\ Cardinality(Holders(r)) + commands["A"][r] + commands["B"][r] = 0
            /\ commands["A"][r] \in Nat /\ commands["B"][r] \in Nat
        BY <2>1, <2>2, Bounds
      <3>2. commands["A"][r] + commands["B"][r] = commands[Filling][r] + commands[Rendered][r]
        BY <1>12, <2>1
      <3>3. QED
        BY <2>2, <3>1, <3>2
    <2>4. commands[Rendered][r] = 0
      BY <2>2, <2>3, SumZero
    <2>5. myUserCount'[r] = myUserCount[r] - commands[Rendered][r]
      BY <1>12, <2>1
    <2>6. QED
      BY <2>2, <2>4, <2>5
  <1>15. QED
    BY <1>10, <1>11, <1>13, <1>14 DEF UsersInv

\* What Draw and CreateRenderCommands share: commands come to the buffer that is
\* filled, at most one for a sprite and none for a model unless it is complete.
LEMMA MoreCommands ==
    ASSUME FewInstances, UsersInv, NEW more \in [Resources -> Nat], ~filled, filled' \in BOOLEAN,
           \A s \in Sprites : more[s] <= 1 /\ (more[s] = 1 => commands[Filling][s] = 0),
           \A m \in Models : more[m] <= Amount /\ (~filled' => more[m] = 0),
           commands' = [commands EXCEPT ![Filling] = Plus(@, more)],
           UNCHANGED <<loaded, holds, scene, myRenderBufferA>>,
           myUserCount' \in Counts, drawn' \in BOOLEAN
    PROVE  /\ TypeOK' /\ CommandsBounded'
           /\ \A r \in Resources : /\ commands'[Filling][r] = commands[Filling][r] + more[r]
                                   /\ commands'[Rendered][r] = commands[Rendered][r]
  <1>1. TypeOK /\ CommandsBounded
    BY DEF UsersInv
  <1>2. /\ commands[Filling] \in Counts /\ commands[Rendered] \in Counts
        /\ Filling \in {"A", "B"} /\ Rendered \in {"A", "B"} /\ Filling # Rendered
        /\ Filling' = Filling
    BY <1>1, TypeFacts DEF Filling
  <1>3. Plus(commands[Filling], more) \in Counts
    BY <1>2, PlusType
  <1>4. commands' \in [{"A", "B"} -> Counts] /\ commands'[Filling] = Plus(commands[Filling], more)
        /\ commands'[Rendered] = commands[Rendered]
    BY <1>1, <1>2, <1>3 DEF TypeOK, Counts
  <1>5. Amount \in Nat /\ 3 * Amount + 2 < CountModulus
    BY FS_CardinalityType DEF FewInstances, Amount
  <1>6. ASSUME NEW r \in Resources
        PROVE  /\ commands'[Filling][r] = commands[Filling][r] + more[r]
               /\ r \in Sprites => commands'[Filling][r] <= 1
               /\ r \in Models => commands[Filling][r] = 0 /\ commands'[Filling][r] = more[r]
    <2>1. commands[Filling][r] \in Nat /\ more[r] \in Nat /\ CountModulus \in Nat
      BY <1>2, ModulusType DEF Counts
    <2>2. r \in Models => commands[Filling][r] = 0 /\ more[r] <= Amount
      BY <1>1 DEF CommandsBounded
    <2>3. r \in Sprites => commands[Filling][r] <= 1 /\ more[r] <= 1
                           /\ (more[r] = 1 => commands[Filling][r] = 0)
      BY <1>1, <1>2 DEF TypeOK
    <2>4. r \in Sprites \/ r \in Models
      BY DEF Resources
    <2>5. /\ r \in Sprites => commands[Filling][r] + more[r] <= 1
          /\ commands[Filling][r] + more[r] < CountModulus
      BY <1>5, <2>1, <2>2, <2>3, <2>4, ModulusType
    <2>6. commands'[Filling][r] = commands[Filling][r] + more[r]
      BY <1>2, <1>4, <2>5, PlusType
    <2>7. QED
      BY <2>1, <2>2, <2>5, <2>6
  <1>7. \A b \in {"A", "B"} : b = Filling \/ b = Rendered
    BY DEF Rendered, Filling
  <1>8. \A b \in {"A", "B"} : \A s \in Sprites : commands'[b][s] <= 1
    BY <1>1, <1>2, <1>4, <1>6, <1>7 DEF TypeOK, Resources
  <1>9. \A b \in {"A", "B"} : \A m \in Models : commands'[b][m] <= Amount
    BY <1>1, <1>2, <1>4, <1>6, <1>7 DEF CommandsBounded, Resources
  <1>10. TypeOK'
    BY <1>1, <1>4, <1>8 DEF TypeOK, Counts
  <1>11. CommandsBounded'
    <2>1. \A b \in {"A", "B"} : \A r \in Resources : commands'[b][r] \in Nat
      BY <1>4, ModulusType DEF Counts
    <2>2. \A b \in {"A", "B"} : \A r \in Resources : commands'[b][r] <= Amount + 1
      BY <1>5, <1>8, <1>9, <2>1 DEF Resources
    <2>3. ~filled' => \A m \in Models : commands'[Filling][m] = 0
      BY <1>6 DEF Resources
    <2>4. QED
      BY <1>2, <1>9, <2>2, <2>3 DEF CommandsBounded
  <1>12. QED
    BY <1>4, <1>6, <1>10, <1>11

LEMMA DrawUsers ==
    ASSUME FewInstances, UsersInv, NEW i \in Instances, Draw(i)
    PROVE  UsersInv'
  <1>1. CASE commands[Filling][holds[i]] = 0
    <2>1. PICK s \in Sprites : s = holds[i]
      BY DEF Draw
    <2>2. /\ commands' = [commands EXCEPT ![Filling] = Plus(@, One(s))] /\ drawn' = TRUE
          /\ ~filled /\ UNCHANGED <<myUserCount, loaded, holds, scene, myRenderBufferA, filled>>
      BY <1>1, <2>1 DEF Draw
    <2>3. s \in Resources /\ \A m \in Models : m # s
      BY <2>1, ResourcesAssumption DEF Resources
    <2>4. One(s) \in [Resources -> Nat] /\ One(s)[s] = 1 /\ \A r \in Resources : r # s => One(s)[r] = 0
      BY <2>3, OneType
    <2>5. myUserCount' \in Counts /\ filled' \in BOOLEAN /\ Amount \in Nat
      BY <2>2, TypeFacts, FS_CardinalityType DEF UsersInv, TypeOK, FewInstances, Amount
    <2>6. \A r \in Sprites : One(s)[r] <= 1 /\ (One(s)[r] = 1 => commands[Filling][r] = 0)
      BY <1>1, <2>1, <2>4 DEF Resources
    <2>7. \A m \in Models : One(s)[m] <= Amount /\ One(s)[m] = 0
      BY <2>3, <2>4, <2>5 DEF Resources
    <2>8. TypeOK' /\ CommandsBounded'
      BY <2>2, <2>4, <2>5, <2>6, <2>7, MoreCommands
    <2>9. UsersMatch' /\ UnloadedIsUnused'
      BY <2>2 DEF UsersMatch, UnloadedIsUnused
    <2>10. QED
      BY <2>8, <2>9 DEF UsersInv
  <1>2. CASE commands[Filling][holds[i]] # 0
    <2>1. UNCHANGED vars
      BY <1>2 DEF Draw, vars
    <2>2. QED
      BY <2>1 DEF vars, UsersInv, TypeOK, CommandsBounded, Filling, UsersMatch, UnloadedIsUnused, Holders
  <1>3. QED
    BY <1>1, <1>2

LEMMA MadeType ==
    ASSUME FewInstances, UsersInv, NEW visible
    PROVE  /\ Made(visible) \in [Resources -> Nat]
           /\ \A s \in Sprites : Made(visible)[s] <= 1 /\ (Made(visible)[s] = 1 => commands[Filling][s] = 0)
           /\ \A m \in Models : Made(visible)[m] <= Amount
           /\ \A r \in Resources : Made(visible)[r] > 0 => Holders(r) # {}
  <1>1. ASSUME NEW m \in Models
        PROVE  /\ Made(visible)[m] \in Nat /\ Made(visible)[m] <= Amount
               /\ Made(visible)[m] > 0 => Holders(m) # {}
    <2>1. Made(visible)[m] = Cardinality(InScene(m) \cap visible)
      BY DEF Made, Resources
    <2>2. InScene(m) \cap visible \in SUBSET Instances
          /\ (Holders(m) = {} => InScene(m) \cap visible = {})
      BY HoldersType DEF InScene
    <2>3. QED
      BY <2>1, <2>2, SetSize
  <1>2. ASSUME NEW s \in Sprites
        PROVE  /\ Made(visible)[s] \in Nat /\ Made(visible)[s] <= 1
               /\ Made(visible)[s] = 1 => commands[Filling][s] = 0
               /\ Made(visible)[s] > 0 => Holders(s) # {}
    <2>1. Made(visible)[s] = IF InScene(s) # {} /\ commands[Filling][s] = 0 THEN 1 ELSE 0
      BY ResourcesAssumption DEF Made, Resources
    <2>2. InScene(s) # {} => Holders(s) # {}
      BY DEF InScene
    <2>3. QED
      BY <2>1, <2>2
  <1>3. \A r \in Resources : Made(visible)[r] \in Nat
    BY <1>1, <1>2 DEF Resources
  <1>4. Made(visible) \in [Resources -> Nat]
    BY <1>3 DEF Made
  <1>5. QED
    BY <1>1, <1>2, <1>4 DEF Resources

LEMMA CommandsUsers ==
    ASSUME FewInstances, UsersInv, CreateRenderCommands
    PROVE  UsersInv'
  <1>1. PICK visible \in SUBSET scene :
            /\ commands' = [commands EXCEPT ![Filling] = Plus(@, Made(visible))]
            /\ myUserCount' = Plus(myUserCount, Made(visible))
    BY DEF CreateRenderCommands
  <1> DEFINE more == Made(visible)
  <1>2. ~filled /\ filled' = TRUE /\ UNCHANGED <<loaded, holds, scene, myRenderBufferA, drawn>>
    BY DEF CreateRenderCommands
  <1>3. /\ more \in [Resources -> Nat]
        /\ \A s \in Sprites : more[s] <= 1 /\ (more[s] = 1 => commands[Filling][s] = 0)
        /\ \A m \in Models : more[m] <= Amount
        /\ \A r \in Resources : more[r] > 0 => Holders(r) # {}
    BY MadeType
  <1>4. myUserCount \in Counts /\ myUserCount' \in Counts /\ drawn' \in BOOLEAN
    BY <1>1, <1>2, <1>3, TypeFacts, PlusType DEF UsersInv, TypeOK
  <1> HIDE DEF more
  <1>5. commands' = [commands EXCEPT ![Filling] = Plus(@, more)] /\ myUserCount' = Plus(myUserCount, more)
    BY <1>1 DEF more
  <1>6. /\ TypeOK' /\ CommandsBounded'
        /\ \A r \in Resources : /\ commands'[Filling][r] = commands[Filling][r] + more[r]
                                /\ commands'[Rendered][r] = commands[Rendered][r]
    BY <1>2, <1>3, <1>4, <1>5, MoreCommands
  <1>7. ASSUME ~drawn, NEW r \in Resources
        PROVE  /\ myUserCount'[r] = myUserCount[r] + more[r]
               /\ commands'["A"][r] + commands'["B"][r] = commands["A"][r] + commands["B"][r] + more[r]
               /\ commands["A"][r] \in Nat /\ commands["B"][r] \in Nat /\ more[r] \in Nat
               /\ commands'["A"][r] \in Nat /\ commands'["B"][r] \in Nat
    <2>1. /\ Amount \in Nat /\ Cardinality(Holders(r)) \in Nat /\ Cardinality(Holders(r)) <= Amount
          /\ commands["A"][r] \in 0 .. Amount + 1 /\ commands["B"][r] \in 0 .. Amount + 1
          /\ myUserCount[r] \in Nat
          /\ myUserCount[r] = Cardinality(Holders(r)) + commands["A"][r] + commands["B"][r]
      BY <1>7, Bounds
    <2>2. more[r] \in Nat
      BY <1>3
    <2>3. \/ Rendered = "A" /\ Filling = "B"
          \/ Rendered = "B" /\ Filling = "A"
      BY DEF Rendered, Filling
    <2>4. /\ commands'["A"][r] + commands'["B"][r] = commands["A"][r] + commands["B"][r] + more[r]
          /\ commands'["A"][r] \in Nat /\ commands'["B"][r] \in Nat
      BY <1>6, <2>1, <2>2, <2>3
    <2>5. commands'["A"][r] <= Amount + 1 /\ commands'["B"][r] <= Amount + 1
      BY <1>6 DEF CommandsBounded
    <2>6. myUserCount[r] + more[r] <= 3 * Amount + 2
      BY <2>1, <2>2, <2>4, <2>5
    <2>7. myUserCount[r] + more[r] < CountModulus
      BY <2>1, <2>2, <2>6, ModulusType DEF FewInstances
    <2>8. myUserCount'[r] = myUserCount[r] + more[r]
      BY <1>3, <1>4, <1>5, <2>7, PlusType
    <2>9. QED
      BY <2>1, <2>2, <2>4, <2>8
  <1>8. UsersMatch'
    <2>1. SUFFICES ASSUME ~drawn, NEW r \in Resources
                   PROVE  myUserCount'[r] = Cardinality(Holders(r)) + commands'["A"][r] + commands'["B"][r]
      BY <1>2 DEF UsersMatch, Holders
    <2>2. QED
      BY <1>7, <2>1, Bounds
  <1>9. UnloadedIsUnused'
    <2>1. SUFFICES ASSUME ~drawn, NEW r \in Resources \ loaded
                   PROVE  myUserCount'[r] = 0
      BY <1>2 DEF UnloadedIsUnused
    <2>2. myUserCount[r] = 0 /\ Holders(r) = {}
      BY <2>1, Bounds DEF UsersInv, UnloadedIsUnused
    <2>3. more[r] = 0
      BY <1>3, <2>2
    <2>4. QED
      BY <1>7, <2>1, <2>2, <2>3
  <1>10. QED
    BY <1>6, <1>8, <1>9 DEF UsersInv

-----------------------------------------------------------------------------
(* The theorems.                                                           *)

LEMMA UsersKept ==
    ASSUME FewInstances, UsersInv, [Next]_vars
    PROVE  UsersInv'
  <1>1. ASSUME NEW i \in Instances, Release(i)
        PROVE  UsersInv'
    <2>1. holds[i] \in Resources
      BY <1>1 DEF Release, UsersInv, TypeOK
    <2>2. QED
      BY <1>1, <2>1, ReleaseUsers
  <1>2. ASSUME NEW i \in Instances, NEW r \in Resources, Get(i, r)
        PROVE  UsersInv'
    BY <1>2, OneUserMore DEF Get
  <1>3. ASSUME NEW i \in Instances, Draw(i)
        PROVE  UsersInv'
    BY <1>3, DrawUsers
  <1>4. ASSUME NEW i \in Instances, EnterScene(i) \/ LeaveScene(i)
        PROVE  UsersInv'
    BY <1>4, SceneUsers
  <1>5. ASSUME NEW i \in Instances, NEW j \in Instances, Copy(i, j)
        PROVE  UsersInv'
    BY <1>5, CopyUsers
  <1>6. CASE UNCHANGED vars
    BY <1>6 DEF vars, UsersInv, TypeOK, CommandsBounded, Filling, UsersMatch, UnloadedIsUnused, Holders
  <1>7. QED
    BY <1>1, <1>2, <1>3, <1>4, <1>5, <1>6, SwitchUsers, CommandsUsers DEF Next

LEMMA UsersAlways == ASSUME FewInstances PROVE Spec => []UsersInv
  <1>1. Init => UsersInv
    BY InitUsersInv
  <1>2. UsersInv /\ [Next]_vars => UsersInv'
    BY UsersKept
  <1>3. QED
    BY <1>1, <1>2, PTL DEF Spec

\* For any number of sprites, models and instances with which the counts cannot
\* reach 2^32, and as long as Draw made no command, a count is the number of
\* instances and of commands in both buffers (Engine.cpp:367-391, 475-476,
\* 499-531).
THEOREM UsersAreCounted == ASSUME FewInstances PROVE Spec => []RenderUsersInv
  <1>1. UsersInv => RenderUsersInv
    BY DEF UsersInv, RenderUsersInv
  <1>2. QED
    BY <1>1, UsersAlways, PTL

\* With as many instances, and as long as Draw made no command, what a command
\* of either buffer uses is loaded, also after every instance was released
\* (SpriteInstance.cpp:55-67).
THEOREM CommandsKeepLoaded == ASSUME FewInstances PROVE Spec => []RenderedIsLoaded
  <1>1. ASSUME UsersInv
        PROVE  RenderedIsLoaded
    <2>1. SUFFICES ASSUME ~drawn, NEW r \in Resources \ loaded
                   PROVE  commands["A"][r] = 0 /\ commands["B"][r] = 0
      BY DEF RenderedIsLoaded
    <2>2. myUserCount[r] = 0
      BY <1>1, <2>1 DEF UsersInv, UnloadedIsUnused
    <2>3. /\ myUserCount[r] = Cardinality(Holders(r)) + commands["A"][r] + commands["B"][r]
          /\ Cardinality(Holders(r)) \in Nat /\ Amount \in Nat
          /\ commands["A"][r] \in 0 .. Amount + 1 /\ commands["B"][r] \in 0 .. Amount + 1
      BY <1>1, <2>1, Bounds
    <2>4. commands["A"][r] \in Nat /\ commands["B"][r] \in Nat
      BY <2>3
    <2>5. QED
      BY <2>2, <2>3, <2>4, SumZero
  <1>2. UsersInv => RenderedIsLoaded
    BY <1>1
  <1>3. QED
    BY <1>2, UsersAlways, PTL

-----------------------------------------------------------------------------
(***************************************************************************)
(* Recordings: Gameplayback.                                               *)
(***************************************************************************)

\* A frame: the places of some models.
KeyFrames == UNION {[S -> Places] : S \in SUBSET Recorded}

HasKey(m, n) == \E k \in 1 .. n : m \in DOMAIN myFrames[k]

PlaybackTypes ==
    /\ transform \in [Recorded -> Places] /\ myFrames \in Seq(KeyFrames)
    /\ scenes \in Seq([Recorded -> Places]) /\ Len(scenes) = Len(myFrames)
    /\ myRecordedModels \in SUBSET Recorded
    /\ myFrameTimer \in Nat /\ myFrameDuration \in Nat \ {0} /\ myPlayFrame \in Int
    /\ myIsPlaying \in BOOLEAN /\ unbroken \in BOOLEAN

\* A key is where the model stood; a model that had a key and gets none stands
\* still; and what it was recorded at last is where it stood in the last frame.
KeysShowScenes ==
    \A k \in 1 .. Len(myFrames) : \A m \in DOMAIN myFrames[k] :
        myFrames[k][m] = scenes[k][m] /\ m \in myRecordedModels
NoKeyStandsStill ==
    \A k \in 2 .. Len(myFrames) : \A m \in Recorded :
        m \notin DOMAIN myFrames[k] /\ HasKey(m, k - 1) => scenes[k][m] = scenes[k - 1][m]
LastIsRemembered ==
    \A m \in Recorded :
        HasKey(m, Len(myFrames)) => myModelOrientationList[m] = scenes[Len(myFrames)][m]
PlaysForward == unbroken => ~myPlayReversed /\ myPlayFrame >= 1

\* The inductive invariant.
PlaybackInv ==
    /\ PlaybackTypes /\ KeysShowScenes /\ NoKeyStandsStill /\ LastIsRemembered /\ PlaysForward
    /\ ShownAsRecorded

TimesPass == FrameTimes \subseteq Nat \ {0}

LEMMA DivisionFacts ==
    ASSUME NEW a \in Nat, NEW d \in Nat \ {0}
    PROVE  a \div d \in Nat /\ a % d \in Nat
  OBVIOUS

LEMMA FrameFacts ==
    ASSUME PlaybackTypes, NEW k \in 1 .. Len(myFrames)
    PROVE  /\ DOMAIN myFrames[k] \subseteq Recorded
           /\ \A m \in DOMAIN myFrames[k] : myFrames[k][m] \in Places
           /\ Len(myFrames) \in Nat
  <1>1. myFrames[k] \in KeyFrames
    BY ElementOfSeq DEF PlaybackTypes
  <1>2. PICK S \in SUBSET Recorded : myFrames[k] \in [S -> Places]
    BY <1>1 DEF KeyFrames
  <1>3. QED
    BY <1>2, LenProperties DEF PlaybackTypes

LEMMA PlaybackStart == TimesPass /\ Playback!Init => PlaybackInv
  <1>1. SUFFICES ASSUME TimesPass, Playback!Init PROVE PlaybackInv
    OBVIOUS
  <1>2. /\ transform \in [Recorded -> Places] /\ myFrames = <<>> /\ scenes = <<>>
        /\ myRecordedModels = {} /\ myFrameTimer = 0 /\ myFrameDuration \in FrameTimes
        /\ myPlayFrame = 1 /\ myIsPlaying = FALSE /\ myPlayReversed = FALSE /\ unbroken = FALSE
    BY <1>1 DEF Playback!Init
  <1>3. /\ myFrames \in Seq(KeyFrames) /\ scenes \in Seq([Recorded -> Places])
        /\ Len(myFrames) = 0 /\ Len(scenes) = 0
    BY <1>2, EmptySeq
  <1>4. PlaybackTypes
    <2>1. myFrameDuration \in Nat \ {0} /\ myFrameTimer \in Nat /\ myPlayFrame \in Int
      BY <1>1, <1>2 DEF TimesPass
    <2>2. myIsPlaying \in BOOLEAN /\ unbroken \in BOOLEAN /\ myRecordedModels \in SUBSET Recorded
      BY <1>2
    <2>3. QED
      BY <1>2, <1>3, <2>1, <2>2 DEF PlaybackTypes
  <1>5. /\ \A k \in 1 .. 0 : FALSE
        /\ \A k \in 2 .. 0 : FALSE
    OBVIOUS
  <1>6. KeysShowScenes /\ NoKeyStandsStill /\ LastIsRemembered
    BY <1>3, <1>5 DEF KeysShowScenes, NoKeyStandsStill, LastIsRemembered, HasKey
  <1>7. PlaysForward /\ ShownAsRecorded
    BY <1>2 DEF PlaysForward, ShownAsRecorded, Playback!ShownAsRecorded
  <1>8. QED
    BY <1>4, <1>6, <1>7 DEF PlaybackInv

\* Recording: what the frames say of the models stays true.
LEMMA RecordKeeps ==
    ASSUME PlaybackInv, NEW count \in Nat, Playback!RecordFrames(count),
           UNCHANGED <<transform, myRecordedModels>>
    PROVE  /\ myFrames' \in Seq(KeyFrames) /\ scenes' \in Seq([Recorded -> Places])
           /\ Len(scenes') = Len(myFrames')
           /\ KeysShowScenes' /\ NoKeyStandsStill' /\ LastIsRemembered'
  <1> DEFINE moved == {m \in myRecordedModels : transform[m] # myModelOrientationList[m]}
             keys == [m \in moved |-> transform[m]]
             nothing == [m \in {} |-> CHOOSE p \in Places : TRUE]
             more == [k \in 1 .. count |-> IF k = 1 THEN keys ELSE nothing]
             still == [k \in 1 .. count |-> transform]
  <1>1. /\ transform \in [Recorded -> Places] /\ myFrames \in Seq(KeyFrames)
        /\ scenes \in Seq([Recorded -> Places]) /\ Len(scenes) = Len(myFrames)
        /\ myRecordedModels \in SUBSET Recorded /\ PlaybackTypes
    BY DEF PlaybackInv, PlaybackTypes
  <1>2. PICK n \in Nat : n = Len(myFrames) /\ n = Len(scenes)
    BY <1>1, LenProperties
  <1>3. /\ myFrames' = myFrames \o more /\ scenes' = scenes \o still
        /\ count = 0 => UNCHANGED myModelOrientationList
        /\ count > 0 => \A m \in myRecordedModels : myModelOrientationList'[m] = transform[m]
    <2>1. /\ myFrames' = myFrames \o more /\ scenes' = scenes \o still
          /\ IF count > 0 THEN Playback!Remembered ELSE UNCHANGED myModelOrientationList
      BY DEF Playback!RecordFrames
    <2>2. count > 0 => \A m \in myRecordedModels : myModelOrientationList'[m] = transform[m]
      BY <1>1, <2>1 DEF Playback!Remembered
    <2>3. QED
      BY <2>1, <2>2
  <1>4. keys \in KeyFrames /\ nothing \in KeyFrames /\ DOMAIN keys = moved /\ DOMAIN nothing = {}
    <2>1. keys \in [moved -> Places] /\ moved \in SUBSET Recorded
      BY <1>1
    <2>2. nothing \in [{} -> Places] /\ {} \in SUBSET Recorded
      OBVIOUS
    <2>3. QED
      BY <2>1, <2>2 DEF KeyFrames
  <1>5. \A m \in moved : keys[m] = transform[m] /\ m \in myRecordedModels
    OBVIOUS
  <1>6. \A m \in myRecordedModels : m \notin moved => transform[m] = myModelOrientationList[m]
    OBVIOUS
  <1> HIDE DEF moved, keys, nothing
  <1>7. /\ more \in Seq(KeyFrames) /\ Len(more) = count
        /\ \A k \in 1 .. count : more[k] = IF k = 1 THEN keys ELSE nothing
    <2>1. more \in [1 .. count -> KeyFrames]
      BY <1>4
    <2>2. more \in Seq(KeyFrames)
      BY <2>1, SeqDef
    <2>3. DOMAIN more = 1 .. Len(more) /\ Len(more) \in Nat
      BY <2>2, LenProperties
    <2>4. QED
      BY <2>2, <2>3
  <1>8. /\ still \in Seq([Recorded -> Places]) /\ Len(still) = count
        /\ \A k \in 1 .. count : still[k] = transform
    <2>1. still \in [1 .. count -> [Recorded -> Places]]
      BY <1>1
    <2>2. still \in Seq([Recorded -> Places])
      BY <2>1, SeqDef
    <2>3. DOMAIN still = 1 .. Len(still) /\ Len(still) \in Nat
      BY <2>2, LenProperties
    <2>4. QED
      BY <2>2, <2>3
  <1> HIDE DEF more, still
  <1>9. PICK later, places : later = myFrames' /\ places = scenes'
    OBVIOUS
  <1>10. /\ later \in Seq(KeyFrames) /\ Len(later) = n + count
         /\ \A k \in 1 .. n + count : later[k] = IF k <= n THEN myFrames[k] ELSE more[k - n]
    <2>1. /\ myFrames \o more \in Seq(KeyFrames)
          /\ Len(myFrames \o more) = Len(myFrames) + Len(more)
          /\ \A k \in 1 .. Len(myFrames) + Len(more) :
                 (myFrames \o more)[k] = IF k <= Len(myFrames) THEN myFrames[k] ELSE more[k - Len(myFrames)]
      BY <1>1, <1>7, ConcatProperties
    <2>2. QED
      BY <1>2, <1>3, <1>7, <1>9, <2>1
  <1>11. /\ places \in Seq([Recorded -> Places]) /\ Len(places) = n + count
         /\ \A k \in 1 .. n + count : places[k] = IF k <= n THEN scenes[k] ELSE still[k - n]
    <2>1. /\ scenes \o still \in Seq([Recorded -> Places])
          /\ Len(scenes \o still) = Len(scenes) + Len(still)
          /\ \A k \in 1 .. Len(scenes) + Len(still) :
                 (scenes \o still)[k] = IF k <= Len(scenes) THEN scenes[k] ELSE still[k - Len(scenes)]
      BY <1>1, <1>8, ConcatProperties
    <2>2. QED
      BY <1>2, <1>3, <1>8, <1>9, <2>1
  <1>12. ASSUME NEW k \in 1 .. n
         PROVE  later[k] = myFrames[k] /\ places[k] = scenes[k] /\ k \in 1 .. n + count
    <2>1. k \in 1 .. n + count /\ k <= n
      OBVIOUS
    <2>2. QED
      BY <1>10, <1>11, <2>1
  <1>13. ASSUME NEW k \in n + 1 .. n + count
         PROVE  places[k] = transform /\ later[k] = IF k = n + 1 THEN keys ELSE nothing
    <2>1. k \in 1 .. n + count /\ ~(k <= n) /\ k - n \in 1 .. count /\ (k - n = 1 <=> k = n + 1)
      OBVIOUS
    <2>2. later[k] = more[k - n] /\ places[k] = still[k - n]
      BY <1>10, <1>11, <2>1
    <2>3. more[k - n] = (IF k = n + 1 THEN keys ELSE nothing) /\ still[k - n] = transform
      BY <1>7, <1>8, <2>1
    <2>4. QED
      BY <2>2, <2>3
  <1>14. \A k \in 1 .. n + count : k \in 1 .. n \/ k \in n + 1 .. n + count
    OBVIOUS
  <1>15. ASSUME NEW k \in 1 .. n + count, NEW m \in DOMAIN later[k]
         PROVE  later[k][m] = places[k][m] /\ m \in myRecordedModels
    <2>1. CASE k \in 1 .. n
      BY <1>2, <1>12, <1>15, <2>1 DEF PlaybackInv, KeysShowScenes
    <2>2. CASE k \in n + 1 .. n + count
      <3>1. k = n + 1 /\ later[k] = keys /\ m \in moved
        BY <1>4, <1>13, <1>15, <2>2
      <3>2. QED
        BY <1>5, <1>13, <2>2, <3>1
    <2>3. QED
      BY <1>14, <2>1, <2>2
  <1> DEFINE Has(m, k) == \E j \in 1 .. k : m \in DOMAIN later[j]
  <1>16. ASSUME NEW k \in 1 .. n, NEW m PROVE Has(m, k) <=> HasKey(m, k)
    <2>1. \A j \in 1 .. k : j \in 1 .. n
      OBVIOUS
    <2>2. QED
      BY <1>12, <2>1 DEF HasKey
  <1>17. ASSUME NEW k \in 1 .. n + count, NEW m, Has(m, k) PROVE m \in myRecordedModels
    <2>1. PICK j \in 1 .. k : m \in DOMAIN later[j]
      BY <1>17
    <2>2. j \in 1 .. n + count
      OBVIOUS
    <2>3. QED
      BY <1>15, <2>1, <2>2
  <1>18. ASSUME NEW k \in 2 .. n + count, NEW m \in Recorded, m \notin DOMAIN later[k],
                Has(m, k - 1)
         PROVE  places[k][m] = places[k - 1][m]
    <2>1. k - 1 \in 1 .. n + count /\ k \in 1 .. n + count
      OBVIOUS
    <2>2. CASE k \in 1 .. n
      <3>1. k - 1 \in 1 .. n /\ k \in 2 .. n
        BY <2>2
      <3>2. HasKey(m, k - 1) /\ m \notin DOMAIN myFrames[k]
        BY <1>12, <1>16, <1>18, <2>2, <3>1
      <3>3. scenes[k][m] = scenes[k - 1][m]
        BY <1>2, <3>1, <3>2 DEF PlaybackInv, NoKeyStandsStill
      <3>4. QED
        BY <1>12, <2>2, <3>1, <3>3
    <2>3. CASE k = n + 1
      <3>1. k \in n + 1 .. n + count /\ k - 1 = n /\ n \in 1 .. n
        BY <2>1, <2>3
      <3>2. m \in myRecordedModels /\ HasKey(m, n)
        BY <1>16, <1>17, <1>18, <2>1, <3>1
      <3>3. m \notin moved
        BY <1>4, <1>13, <1>18, <2>3, <3>1
      <3>4. transform[m] = myModelOrientationList[m]
        BY <1>6, <3>2, <3>3
      <3>5. myModelOrientationList[m] = scenes[n][m]
        BY <1>2, <3>2 DEF PlaybackInv, LastIsRemembered
      <3>6. places[k] = transform /\ places[k - 1] = scenes[n]
        BY <1>12, <1>13, <3>1
      <3>7. QED
        BY <3>4, <3>5, <3>6
    <2>4. CASE k > n + 1
      <3>1. k \in n + 1 .. n + count /\ k - 1 \in n + 1 .. n + count
        BY <2>1, <2>4
      <3>2. QED
        BY <1>13, <3>1
    <2>5. k \in 1 .. n \/ k = n + 1 \/ k > n + 1
      BY <2>1
    <2>6. QED
      BY <2>2, <2>3, <2>4, <2>5
  <1>19. ASSUME NEW m \in Recorded, Has(m, n + count)
         PROVE  myModelOrientationList'[m] = places[n + count][m]
    <2>1. n + count \in 1 .. n + count
      BY <1>19
    <2>2. m \in myRecordedModels
      BY <1>17, <1>19, <2>1
    <2>3. CASE count = 0
      <3>1. n \in 1 .. n /\ n + count = n
        BY <2>1, <2>3
      <3>2. HasKey(m, n)
        BY <1>16, <1>19, <3>1
      <3>3. myModelOrientationList[m] = scenes[n][m]
        BY <1>2, <3>2 DEF PlaybackInv, LastIsRemembered
      <3>4. QED
        BY <1>3, <1>12, <2>3, <3>1, <3>3
    <2>4. CASE count > 0
      <3>1. n + count \in n + 1 .. n + count
        BY <2>4
      <3>2. places[n + count] = transform
        BY <1>13, <3>1
      <3>3. QED
        BY <1>3, <2>2, <2>4, <3>2
    <2>5. QED
      BY <2>3, <2>4
  <1>20. KeysShowScenes'
    BY <1>9, <1>10, <1>15 DEF KeysShowScenes
  <1>21. NoKeyStandsStill'
    BY <1>9, <1>10, <1>18 DEF NoKeyStandsStill, HasKey
  <1>22. LastIsRemembered'
    BY <1>9, <1>10, <1>19 DEF LastIsRemembered, HasKey
  <1>23. QED
    BY <1>9, <1>10, <1>11, <1>20, <1>21, <1>22

\* The frames and what was recorded at last stay as they are.
LEMMA FramesStay ==
    ASSUME PlaybackInv, UNCHANGED <<myFrames, scenes, myModelOrientationList>>,
           myRecordedModels \subseteq myRecordedModels'
    PROVE  KeysShowScenes' /\ NoKeyStandsStill' /\ LastIsRemembered'
  BY DEF PlaybackInv, KeysShowScenes, NoKeyStandsStill, LastIsRemembered, HasKey

\* Recording, or nothing of it: the part that all the calls have in common.
LEMMA NotPlaying ==
    ASSUME ~myIsPlaying' \/ ~unbroken'
    PROVE  ShownAsRecorded'
  BY DEF ShownAsRecorded, Playback!ShownAsRecorded

LEMMA StillShown ==
    ASSUME PlaybackInv, UNCHANGED <<myFrames, scenes, transform, myIsPlaying, unbroken, myPlayFrame>>
    PROVE  ShownAsRecorded'
  BY DEF PlaybackInv, ShownAsRecorded, Playback!ShownAsRecorded

LEMMA AddModelKeeps ==
    ASSUME PlaybackInv, NEW m \in Recorded, Playback!AddModelToRecord(m)
    PROVE  PlaybackInv'
  <1>1. /\ myRecordedModels' = myRecordedModels \cup {m}
        /\ UNCHANGED <<transform, myFrames, scenes, myModelOrientationList>>
        /\ UNCHANGED <<myRecordTimer, myFrameTimer, myFrameDuration, myPlayFrame>>
        /\ UNCHANGED <<myIsRecording, myIsPlaying, myPlayReversed, unbroken>>
    BY DEF Playback!AddModelToRecord, Playback!frames, Playback!timers, Playback!modes
  <1>2. PlaybackTypes'
    BY <1>1 DEF PlaybackInv, PlaybackTypes
  <1>3. KeysShowScenes' /\ NoKeyStandsStill' /\ LastIsRemembered'
    BY <1>1, FramesStay
  <1>4. PlaysForward' /\ ShownAsRecorded'
    BY <1>1, StillShown DEF PlaybackInv, PlaysForward
  <1>5. QED
    BY <1>2, <1>3, <1>4 DEF PlaybackInv

LEMMA StartRecordingKeeps ==
    ASSUME PlaybackInv, NEW timer, Playback!StartRecording(timer)
    PROVE  PlaybackInv'
  <1>1. /\ myFrameTimer' = 0 /\ myIsPlaying' = FALSE
        /\ UNCHANGED <<transform, myRecordedModels, myFrameDuration, myPlayFrame>>
        /\ UNCHANGED <<myPlayReversed, unbroken>>
        /\ \/ Playback!RecordFrames(1)
           \/ UNCHANGED <<myFrames, scenes, myModelOrientationList>>
    BY DEF Playback!StartRecording, Playback!frames
  <1>2. /\ myFrames' \in Seq(KeyFrames) /\ scenes' \in Seq([Recorded -> Places])
        /\ Len(scenes') = Len(myFrames')
        /\ KeysShowScenes' /\ NoKeyStandsStill' /\ LastIsRemembered'
    <2>1. CASE Playback!RecordFrames(1)
      <3>1. 1 \in Nat /\ UNCHANGED <<transform, myRecordedModels>>
        BY <1>1
      <3>2. QED
        BY <2>1, <3>1, RecordKeeps
    <2>2. CASE UNCHANGED <<myFrames, scenes, myModelOrientationList>>
      <3>1. KeysShowScenes' /\ NoKeyStandsStill' /\ LastIsRemembered'
        BY <1>1, <2>2, FramesStay
      <3>2. QED
        BY <2>2, <3>1 DEF PlaybackInv, PlaybackTypes
    <2>3. QED
      BY <1>1, <2>1, <2>2
  <1>3. PlaybackTypes'
    BY <1>1, <1>2 DEF PlaybackInv, PlaybackTypes
  <1>4. PlaysForward' /\ ShownAsRecorded'
    BY <1>1, NotPlaying DEF PlaybackInv, PlaysForward
  <1>5. QED
    BY <1>2, <1>3, <1>4 DEF PlaybackInv

LEMMA StopRecordingKeeps ==
    ASSUME PlaybackInv, Playback!StopRecording
    PROVE  PlaybackInv'
  <1>1. /\ UNCHANGED <<transform, myFrames, scenes, myRecordedModels, myModelOrientationList>>
        /\ UNCHANGED <<myFrameTimer, myFrameDuration, myPlayFrame>>
        /\ UNCHANGED <<myIsPlaying, myPlayReversed, unbroken>>
    BY DEF Playback!StopRecording, Playback!frames, Playback!models
  <1>2. PlaybackTypes'
    BY <1>1 DEF PlaybackInv, PlaybackTypes
  <1>3. KeysShowScenes' /\ NoKeyStandsStill' /\ LastIsRemembered'
    BY <1>1, FramesStay
  <1>4. PlaysForward' /\ ShownAsRecorded'
    BY <1>1, StillShown DEF PlaybackInv, PlaysForward
  <1>5. QED
    BY <1>2, <1>3, <1>4 DEF PlaybackInv

LEMMA ClearRecordingKeeps ==
    ASSUME PlaybackInv, Playback!ClearRecording
    PROVE  PlaybackInv'
  <1>1. /\ myFrames' = <<>> /\ scenes' = <<>> /\ unbroken' = FALSE
        /\ UNCHANGED <<transform, myRecordedModels>>
        /\ UNCHANGED <<myFrameTimer, myFrameDuration, myPlayFrame>>
        /\ UNCHANGED <<myIsPlaying, myPlayReversed>>
    BY DEF Playback!ClearRecording, Playback!models, Playback!timers, Playback!modes
  <1>2. /\ myFrames' \in Seq(KeyFrames) /\ scenes' \in Seq([Recorded -> Places])
        /\ Len(myFrames') = 0 /\ Len(scenes') = 0
    BY <1>1, EmptySeq
  <1>3. PlaybackTypes'
    BY <1>1, <1>2 DEF PlaybackInv, PlaybackTypes
  <1>4. /\ \A k \in 1 .. 0 : FALSE
        /\ \A k \in 2 .. 0 : FALSE
    OBVIOUS
  <1>5. KeysShowScenes' /\ NoKeyStandsStill' /\ LastIsRemembered'
    BY <1>2, <1>4 DEF KeysShowScenes, NoKeyStandsStill, LastIsRemembered, HasKey
  <1>6. PlaysForward' /\ ShownAsRecorded'
    BY <1>1, NotPlaying DEF PlaysForward
  <1>7. QED
    BY <1>3, <1>5, <1>6 DEF PlaybackInv

\* PlayFrame: a model with a key is put where it stood.
LEMMA ShownFacts ==
    ASSUME PlaybackInv, NEW n
    PROVE  /\ Playback!Shown(n) \in [Recorded -> Places]
           /\ n \in 1 .. Len(myFrames) =>
                  \A m \in Recorded :
                      Playback!Shown(n)[m] = IF m \in DOMAIN myFrames[n] THEN scenes[n][m]
                                                                      ELSE transform[m]
  <1>1. DOMAIN myFrames = 1 .. Len(myFrames) /\ PlaybackTypes /\ transform \in [Recorded -> Places]
    BY LenProperties DEF PlaybackInv, PlaybackTypes
  <1>2. ASSUME NEW m \in Recorded
        PROVE  (IF n \in DOMAIN myFrames /\ m \in DOMAIN myFrames[n]
                THEN myFrames[n][m] ELSE transform[m]) \in Places
    BY <1>1, FrameFacts
  <1>3. n \in 1 .. Len(myFrames) =>
            \A m \in Recorded : m \in DOMAIN myFrames[n] => myFrames[n][m] = scenes[n][m]
    BY DEF PlaybackInv, KeysShowScenes
  <1>4. QED
    BY <1>1, <1>2, <1>3 DEF Playback!Shown

LEMMA StartPlaybackKeeps ==
    ASSUME PlaybackInv, NEW reset \in BOOLEAN, NEW reversed \in BOOLEAN,
           Playback!StartPlayback(reset, reversed)
    PROVE  PlaybackInv'
  <1> DEFINE first == IF ~reset THEN Playback!Clamp(myPlayFrame, 1, Len(myFrames))
                      ELSE IF reversed THEN Len(myFrames) ELSE 1
  <1>1. /\ myFrameTimer' = 0 /\ myPlayReversed' = reversed /\ myPlayFrame' = first
        /\ IF myFrames # <<>>
             THEN myIsPlaying' = TRUE /\ transform' = Playback!Shown(first)
             ELSE UNCHANGED <<myIsPlaying, transform>>
        /\ unbroken' = (first = 1 /\ ~reversed)
        /\ UNCHANGED <<myFrames, scenes, myRecordedModels, myModelOrientationList, myFrameDuration>>
    BY DEF Playback!StartPlayback, Playback!frames, Playback!models
  <1>2. first \in Int
    <2>1. Len(myFrames) \in Nat /\ myPlayFrame \in Int
      BY LenProperties DEF PlaybackInv, PlaybackTypes
    <2>2. QED
      BY <2>1 DEF Playback!Clamp
  <1> HIDE DEF first
  <1>3. transform' \in [Recorded -> Places]
    BY <1>1, ShownFacts DEF PlaybackInv, PlaybackTypes
  <1>4. myIsPlaying' \in BOOLEAN /\ unbroken' \in BOOLEAN
    <2>1. myIsPlaying \in BOOLEAN
      BY DEF PlaybackInv, PlaybackTypes
    <2>2. QED
      BY <1>1, <2>1
  <1>5. PlaybackTypes'
    BY <1>1, <1>2, <1>3, <1>4 DEF PlaybackInv, PlaybackTypes
  <1>6. KeysShowScenes' /\ NoKeyStandsStill' /\ LastIsRemembered'
    BY <1>1, FramesStay
  <1>7. PlaysForward'
    <2>1. unbroken' => first = 1 /\ ~reversed
      BY <1>1, Zenon
    <2>2. first = 1 => first >= 1
      OBVIOUS
    <2>3. unbroken' => ~myPlayReversed' /\ myPlayFrame' >= 1
      BY <1>1, <2>1, <2>2, Zenon
    <2>4. QED
      BY <2>3 DEF PlaysForward
  <1>8. ShownAsRecorded'
    <2>1. DOMAIN myFrames = 1 .. Len(myFrames) /\ Len(myFrames) \in Nat
      BY LenProperties DEF PlaybackInv, PlaybackTypes
    <2>2. CASE unbroken' /\ myFrames # <<>> /\ 1 \in 1 .. Len(myFrames)
      <3>1. first = 1 /\ transform' = Playback!Shown(1) /\ myPlayFrame' = 1
        BY <1>1, <2>2
      <3>2. ASSUME NEW m \in Recorded, \E k \in 1 .. 1 : m \in DOMAIN myFrames[k]
            PROVE  transform'[m] = scenes[1][m]
        <4>1. m \in DOMAIN myFrames[1]
          BY <3>2
        <4>2. QED
          BY <2>2, <3>1, <4>1, ShownFacts
      <3>3. QED
        BY <1>1, <3>1, <3>2 DEF ShownAsRecorded, Playback!ShownAsRecorded
    <2>3. CASE ~unbroken'
      BY <2>3, NotPlaying
    <2>4. CASE unbroken' /\ 1 \notin 1 .. Len(myFrames)
      <3>1. myPlayFrame' = 1 /\ 1 \notin DOMAIN myFrames'
        BY <1>1, <2>1, <2>4
      <3>2. QED
        BY <3>1 DEF ShownAsRecorded, Playback!ShownAsRecorded
    <2>5. 1 \in 1 .. Len(myFrames) => myFrames # <<>>
      <3>1. myFrames = <<>> => Len(myFrames) = 0
        BY EmptySeq
      <3>2. QED
        BY <3>1
    <2>6. QED
      BY <2>2, <2>3, <2>4, <2>5
  <1>9. QED
    BY <1>5, <1>6, <1>7, <1>8 DEF PlaybackInv

LEMMA StopPlaybackKeeps ==
    ASSUME PlaybackInv, Playback!StopPlayback
    PROVE  PlaybackInv'
  <1>1. /\ myIsPlaying' = FALSE
        /\ UNCHANGED <<transform, myFrames, scenes, myRecordedModels, myModelOrientationList>>
        /\ UNCHANGED <<myFrameTimer, myFrameDuration, myPlayFrame>>
        /\ UNCHANGED <<myPlayReversed, unbroken>>
    BY DEF Playback!StopPlayback, Playback!frames, Playback!models, Playback!timers
  <1>2. PlaybackTypes'
    BY <1>1 DEF PlaybackInv, PlaybackTypes
  <1>3. KeysShowScenes' /\ NoKeyStandsStill' /\ LastIsRemembered'
    BY <1>1, FramesStay
  <1>4. PlaysForward' /\ ShownAsRecorded'
    BY <1>1, NotPlaying DEF PlaybackInv, PlaysForward
  <1>5. QED
    BY <1>2, <1>3, <1>4 DEF PlaybackInv

\* If no frame is left out, the next one moves exactly the models that stood
\* elsewhere.
LEMMA UpdatePlaybackKeeps ==
    ASSUME PlaybackInv, TimesPass, NEW ticks \in FrameTimes, Playback!UpdatePlayback(ticks)
    PROVE  PlaybackInv'
  <1> DEFINE time == myFrameTimer + ticks
             steps == time \div myFrameDuration
             frame == IF myPlayReversed THEN myPlayFrame - steps ELSE myPlayFrame + steps
  <1>1. /\ myIsPlaying /\ myFrameTimer' = time % myFrameDuration /\ myPlayFrame' = frame
        /\ IF frame \in DOMAIN myFrames
             THEN /\ transform' = IF steps > 0 THEN Playback!Shown(frame) ELSE transform
                  /\ UNCHANGED myIsPlaying
             ELSE myIsPlaying' = FALSE /\ UNCHANGED transform
        /\ unbroken' = (unbroken /\ steps <= 1)
        /\ UNCHANGED <<myFrames, scenes, myRecordedModels, myModelOrientationList>>
        /\ UNCHANGED <<myFrameDuration, myPlayReversed>>
    BY DEF Playback!UpdatePlayback, Playback!FramesIn, Playback!RestOf, Playback!frames,
           Playback!models
  <1>2. steps \in Nat /\ myFrameTimer' \in Nat
    <2>1. time \in Nat /\ myFrameDuration \in Nat \ {0}
      BY DEF TimesPass, PlaybackInv, PlaybackTypes
    <2>2. QED
      BY <1>1, <2>1, DivisionFacts
  <1> HIDE DEF steps
  <1>3. frame \in Int /\ myPlayFrame \in Int
    BY <1>2 DEF PlaybackInv, PlaybackTypes
  <1>4. transform' \in [Recorded -> Places]
    <2>1. transform \in [Recorded -> Places]
      BY DEF PlaybackInv, PlaybackTypes
    <2>2. QED
      BY <1>1, <2>1, ShownFacts
  <1>5. myIsPlaying' \in BOOLEAN /\ unbroken' \in BOOLEAN
    <2>1. myIsPlaying \in BOOLEAN
      BY DEF PlaybackInv, PlaybackTypes
    <2>2. QED
      BY <1>1, <2>1
  <1>6. PlaybackTypes'
    BY <1>1, <1>2, <1>3, <1>4, <1>5 DEF PlaybackInv, PlaybackTypes
  <1>7. KeysShowScenes' /\ NoKeyStandsStill' /\ LastIsRemembered'
    BY <1>1, FramesStay
  <1>8. PlaysForward'
    <2>1. unbroken => ~myPlayReversed /\ myPlayFrame >= 1
      BY DEF PlaybackInv, PlaysForward
    <2>2. unbroken' => unbroken
      BY <1>1, Zenon
    <2>3. ASSUME ~myPlayReversed, myPlayFrame >= 1 PROVE frame >= 1
      BY <1>2, <1>3, <2>3
    <2>4. unbroken' => ~myPlayReversed' /\ myPlayFrame' >= 1
      BY <1>1, <2>1, <2>2, <2>3, Zenon
    <2>5. QED
      BY <2>4 DEF PlaysForward
  <1>9. ShownAsRecorded'
    <2>1. DOMAIN myFrames = 1 .. Len(myFrames) /\ Len(myFrames) \in Nat
      BY LenProperties DEF PlaybackInv, PlaybackTypes
    <2>2. SUFFICES ASSUME myIsPlaying', unbroken', frame \in 1 .. Len(myFrames), NEW m \in Recorded,
                          \E k \in 1 .. frame : m \in DOMAIN myFrames[k]
                   PROVE  transform'[m] = scenes[frame][m]
      BY <1>1, <2>1 DEF ShownAsRecorded, Playback!ShownAsRecorded
    <2>3. unbroken /\ steps \in {0, 1} /\ ~myPlayReversed /\ myPlayFrame >= 1
      <3>1. unbroken /\ steps <= 1
        BY <1>1, <2>2, Zenon
      <3>2. steps \in {0, 1}
        BY <1>2, <3>1
      <3>3. QED
        BY <3>1, <3>2, Zenon DEF PlaybackInv, PlaysForward
    <2>4. CASE steps = 0
      <3>1. frame = myPlayFrame /\ transform' = transform /\ frame \in DOMAIN myFrames
        BY <1>1, <1>3, <2>1, <2>2, <2>3, <2>4
      <3>2. QED
        BY <1>1, <2>2, <2>3, <3>1 DEF PlaybackInv, ShownAsRecorded, Playback!ShownAsRecorded
    <2>5. CASE steps = 1
      <3>1. frame = myPlayFrame + 1 /\ transform' = Playback!Shown(frame)
        BY <1>1, <2>1, <2>2, <2>3, <2>5
      <3>2. CASE m \in DOMAIN myFrames[frame]
        BY <2>2, <3>1, <3>2, ShownFacts
      <3>3. CASE m \notin DOMAIN myFrames[frame]
        <4>1. PICK k \in 1 .. frame : m \in DOMAIN myFrames[k]
          BY <2>2
        <4>2. k \in 1 .. myPlayFrame /\ myPlayFrame \in 1 .. Len(myFrames) /\ frame \in 2 .. Len(myFrames)
          BY <1>3, <2>2, <2>3, <3>1, <3>3, <4>1
        <4>3. transform[m] = scenes[myPlayFrame][m]
          BY <1>1, <2>1, <2>3, <4>1, <4>2 DEF PlaybackInv, ShownAsRecorded, Playback!ShownAsRecorded
        <4>4. frame - 1 = myPlayFrame
          BY <1>3, <3>1
        <4>5. scenes[frame][m] = scenes[myPlayFrame][m]
          <5>1. HasKey(m, frame - 1)
            BY <4>1, <4>2, <4>4 DEF HasKey
          <5>2. QED
            BY <3>3, <4>2, <4>4, <5>1 DEF PlaybackInv, NoKeyStandsStill
        <4>6. transform'[m] = transform[m]
          BY <2>2, <3>1, <3>3, ShownFacts
        <4>7. QED
          BY <4>3, <4>5, <4>6
      <3>4. QED
        BY <3>2, <3>3
    <2>6. QED
      BY <2>3, <2>4, <2>5
  <1>10. QED
    BY <1>6, <1>7, <1>8, <1>9 DEF PlaybackInv

LEMMA UpdateRecordingKeeps ==
    ASSUME PlaybackInv, TimesPass, NEW ticks \in FrameTimes, Playback!UpdateRecording(ticks)
    PROVE  PlaybackInv'
  <1> DEFINE time == myFrameTimer + ticks
             count == time \div myFrameDuration
  <1>1. /\ ~myIsPlaying /\ myFrameTimer' = time % myFrameDuration
        /\ Playback!RecordFrames(count)
        /\ UNCHANGED <<transform, myRecordedModels, myFrameDuration, myPlayFrame>>
        /\ UNCHANGED <<myIsPlaying, myPlayReversed, unbroken>>
    BY DEF Playback!UpdateRecording, Playback!FramesIn, Playback!RestOf
  <1>2. count \in Nat /\ myFrameTimer' \in Nat
    <2>1. time \in Nat /\ myFrameDuration \in Nat \ {0}
      BY DEF TimesPass, PlaybackInv, PlaybackTypes
    <2>2. QED
      BY <1>1, <2>1, DivisionFacts
  <1> HIDE DEF count
  <1>3. /\ myFrames' \in Seq(KeyFrames) /\ scenes' \in Seq([Recorded -> Places])
        /\ Len(scenes') = Len(myFrames')
        /\ KeysShowScenes' /\ NoKeyStandsStill' /\ LastIsRemembered'
    <2>1. UNCHANGED <<transform, myRecordedModels>>
      BY <1>1
    <2>2. QED
      BY <1>1, <1>2, <2>1, RecordKeeps
  <1>4. PlaybackTypes'
    BY <1>1, <1>2, <1>3 DEF PlaybackInv, PlaybackTypes
  <1>5. PlaysForward' /\ ShownAsRecorded'
    BY <1>1, NotPlaying DEF PlaybackInv, PlaysForward
  <1>6. QED
    BY <1>3, <1>4, <1>5 DEF PlaybackInv

LEMMA FrameRateKeeps ==
    ASSUME PlaybackInv, TimesPass, NEW duration \in FrameTimes,
           Playback!SetRecordingFrameRate(duration)
    PROVE  PlaybackInv'
  <1>1. /\ myFrameDuration' \in Nat \ {0}
        /\ UNCHANGED <<transform, myFrames, scenes, myRecordedModels, myModelOrientationList>>
        /\ UNCHANGED <<myFrameTimer, myPlayFrame>>
        /\ UNCHANGED <<myIsPlaying, myPlayReversed, unbroken>>
    BY DEF TimesPass, Playback!SetRecordingFrameRate, Playback!frames, Playback!models,
           Playback!timers, Playback!modes
  <1>2. PlaybackTypes'
    BY <1>1 DEF PlaybackInv, PlaybackTypes
  <1>3. KeysShowScenes' /\ NoKeyStandsStill' /\ LastIsRemembered'
    BY <1>1, FramesStay
  <1>4. PlaysForward' /\ ShownAsRecorded'
    BY <1>1, StillShown DEF PlaybackInv, PlaysForward
  <1>5. QED
    BY <1>2, <1>3, <1>4 DEF PlaybackInv

LEMMA MoveKeeps ==
    ASSUME PlaybackInv, NEW m \in Recorded, NEW p \in Places, Playback!Move(m, p)
    PROVE  PlaybackInv'
  <1>1. /\ transform' = [transform EXCEPT ![m] = p] /\ unbroken' = FALSE
        /\ UNCHANGED <<myFrames, scenes, myRecordedModels, myModelOrientationList>>
        /\ UNCHANGED <<myFrameTimer, myFrameDuration, myPlayFrame>>
        /\ UNCHANGED <<myIsPlaying, myPlayReversed>>
    BY DEF Playback!Move, Playback!frames, Playback!models, Playback!timers, Playback!modes
  <1>2. PlaybackTypes'
    BY <1>1 DEF PlaybackInv, PlaybackTypes
  <1>3. KeysShowScenes' /\ NoKeyStandsStill' /\ LastIsRemembered'
    BY <1>1, FramesStay
  <1>4. PlaysForward' /\ ShownAsRecorded'
    BY <1>1, NotPlaying DEF PlaysForward
  <1>5. QED
    BY <1>2, <1>3, <1>4 DEF PlaybackInv

LEMMA PlaybackStep ==
    ASSUME TimesPass, PlaybackInv, [Playback!Next]_playbackVars
    PROVE  PlaybackInv'
  <1>1. ASSUME NEW m \in Recorded, Playback!AddModelToRecord(m) PROVE PlaybackInv'
    BY <1>1, AddModelKeeps
  <1>2. ASSUME NEW m \in Recorded, NEW p \in Places, Playback!Move(m, p) PROVE PlaybackInv'
    BY <1>2, MoveKeeps
  <1>3. ASSUME NEW timer, Playback!StartRecording(timer) PROVE PlaybackInv'
    BY <1>3, StartRecordingKeeps
  <1>4. CASE Playback!StopRecording
    BY <1>4, StopRecordingKeeps
  <1>5. CASE Playback!ClearRecording
    BY <1>5, ClearRecordingKeeps
  <1>6. ASSUME NEW reset \in BOOLEAN, NEW reversed \in BOOLEAN,
               Playback!StartPlayback(reset, reversed)
        PROVE  PlaybackInv'
    BY <1>6, StartPlaybackKeeps
  <1>7. CASE Playback!StopPlayback
    BY <1>7, StopPlaybackKeeps
  <1>8. ASSUME NEW ticks \in FrameTimes, Playback!UpdatePlayback(ticks) PROVE PlaybackInv'
    BY <1>8, UpdatePlaybackKeeps
  <1>9. ASSUME NEW ticks \in FrameTimes, Playback!UpdateRecording(ticks) PROVE PlaybackInv'
    BY <1>9, UpdateRecordingKeeps
  <1>10. ASSUME NEW duration \in FrameTimes, Playback!SetRecordingFrameRate(duration)
         PROVE  PlaybackInv'
    BY <1>10, FrameRateKeeps
  <1>11. CASE UNCHANGED playbackVars
    <2>1. /\ UNCHANGED <<transform, myFrames, scenes, myRecordedModels, myModelOrientationList>>
          /\ UNCHANGED <<myFrameTimer, myFrameDuration, myPlayFrame>>
          /\ UNCHANGED <<myIsPlaying, myPlayReversed, unbroken>>
      BY <1>11 DEF playbackVars
    <2>2. PlaybackTypes'
      BY <2>1 DEF PlaybackInv, PlaybackTypes
    <2>3. KeysShowScenes' /\ NoKeyStandsStill' /\ LastIsRemembered'
      BY <2>1, FramesStay
    <2>4. PlaysForward' /\ ShownAsRecorded'
      BY <2>1, StillShown DEF PlaybackInv, PlaysForward
    <2>5. QED
      BY <2>2, <2>3, <2>4 DEF PlaybackInv
  <1>12. QED
    BY <1>1, <1>2, <1>3, <1>4, <1>5, <1>6, <1>7, <1>8, <1>9, <1>10, <1>11 DEF Playback!Next


\* Unbroken playback shows each model that has a key where it stood when the
\* frame was recorded, also where the frame has no key of it
\* (GameplaybackManager.cpp:154, :183).
THEOREM PlaybackShowsRecording == ASSUME TimesPass PROVE Playback!Spec => []ShownAsRecorded
  <1>1. Playback!Init => PlaybackInv
    BY PlaybackStart
  <1>2. PlaybackInv /\ [Playback!Next]_playbackVars => PlaybackInv'
    BY PlaybackStep
  <1>3. PlaybackInv => ShownAsRecorded
    BY DEF PlaybackInv
  <1>4. [Playback!Next]_Playback!vars => [Playback!Next]_playbackVars
    BY DEF Playback!vars, Playback!frames, Playback!models, Playback!timers, Playback!modes,
           playbackVars
  <1>5. QED
    BY <1>1, <1>2, <1>3, <1>4, PTL DEF Playback!Spec
-----------------------------------------------------------------------------
(***************************************************************************)
(* Textures: TextureLoader, with one thread that loads and releases.       *)
(***************************************************************************)

\* The operations written out.  A step is numbered by its place in them.
LoadPlan == <<"lock", "find", "read", "add", "unlock", "read", "add", "read", "subtract",
              "test", "read", "add", "read", "subtract", "test", "loaded">>
UnloadPlan == <<"read", "subtract", "test", "unloaded">>
FreePlan == <<"lock", "remove", "unlock", "free", "unloaded">>
PlanSteps == {"lock", "find", "read", "add", "unlock", "subtract", "test", "loaded",
              "remove", "free", "unloaded"}

\* How many users the model counts for before step k of loading it.
LoadUsers(k) == IF k <= 4 THEN 0 ELSE IF k \in {8, 9, 13, 14} THEN 2 ELSE 1

TextureHolders == Cardinality(textured)

ResourceHeld ==
    known /\ created \in Nat \ {0} /\ myTexture = created /\ released = 1 .. created - 1
ResourceGone ==
    ~known /\ created \in Nat /\ released = 1 .. created
LooseResource ==
    ~known /\ created \in Nat \ {0} /\ myTexture = created /\ released = 1 .. created - 1

\* Between two operations, and in the middle of one.
NoPlan ==
    /\ plan[Loader] = <<>> /\ TextureMutex = NoThread /\ textureUsers = TextureHolders
    /\ IF textured = {} THEN ResourceGone ELSE ResourceHeld
LoadingAt(k) ==
    /\ plan[Loader] = SubSeq(LoadPlan, k, 16)
    /\ works[Loader] \in Textured \ textured
    /\ TextureMutex = IF k \in 2 .. 5 THEN Loader ELSE NoThread
    /\ textureUsers = TextureHolders + LoadUsers(k)
    /\ k \in {4, 7, 9, 12, 14} => read[Loader] = textureUsers
    /\ IF k <= 2 /\ textured = {} THEN ResourceGone ELSE ResourceHeld
UnloadingAt(k) ==
    /\ plan[Loader] = SubSeq(UnloadPlan, k, 4)
    /\ works[Loader] \in Textured \ textured /\ TextureMutex = NoThread
    /\ textureUsers = IF k <= 2 THEN TextureHolders + 1 ELSE TextureHolders
    /\ k = 2 => read[Loader] = textureUsers
    /\ k = 4 => textured # {}
    /\ ResourceHeld
FreeingAt(k) ==
    /\ plan[Loader] = SubSeq(FreePlan, k, 5)
    /\ textured = {} /\ textureUsers = 0
    /\ TextureMutex = IF k \in {2, 3} THEN Loader ELSE NoThread
    /\ IF k <= 2 THEN ResourceHeld ELSE IF k <= 4 THEN LooseResource ELSE ResourceGone

TextureTypes ==
    /\ plan \in [{Loader} -> Seq(PlanSteps)] /\ read \in [{Loader} -> Nat]
    /\ works \in [{Loader} -> Textured \cup {Nothing}]
    /\ textured \in SUBSET Textured /\ textureUsers \in Nat

\* The inductive invariant.
TextureInv ==
    /\ TextureTypes
    /\ \/ NoPlan
       \/ \E k \in 1 .. 16 : LoadingAt(k)
       \/ \E k \in 1 .. 4 : UnloadingAt(k)
       \/ \E k \in 1 .. 5 : FreeingAt(k)


-----------------------------------------------------------------------------
(* Numbers, and the plans.                                                 *)

FewTextured ==
    /\ IsFiniteSet(Textured) /\ Cardinality(Textured) + 2 < CountModulus
    /\ Nothing \notin Nat

LEMMA TextureCount ==
    ASSUME FewTextured, NEW S \in SUBSET Textured
    PROVE  /\ IsFiniteSet(S) /\ Cardinality(S) \in Nat /\ Cardinality(S) + 2 < CountModulus
           /\ Cardinality(S) = 0 <=> S = {}
           /\ \A m \in Textured \ S : Cardinality(S \cup {m}) = Cardinality(S) + 1
           /\ \A m \in S : Cardinality(S \ {m}) = Cardinality(S) - 1
  <1>1. IsFiniteSet(S) /\ Cardinality(S) <= Cardinality(Textured)
    BY FS_Subset DEF FewTextured
  <1>2. Cardinality(S) \in Nat /\ Cardinality(Textured) \in Nat
    BY <1>1, FS_CardinalityType DEF FewTextured
  <1>3. Cardinality(S) + 2 < CountModulus
    BY <1>1, <1>2, ModulusType DEF FewTextured
  <1>4. QED
    BY <1>1, <1>2, <1>3, FS_EmptySet, FS_AddElement, FS_RemoveElement

\* One user less, as the code's unsigned arithmetic has it.
LEMMA ModLess == \A n \in 1 .. CountModulus - 1 : (n + CountModulus - 1) % CountModulus = n - 1
  <1>1. SUFFICES ASSUME NEW n \in 1 .. CountModulus - 1
                 PROVE  (n + CountModulus - 1) % CountModulus = n - 1
    OBVIOUS
  <1>2. QED
    BY ModulusType

LEMMA Ahead ==
    ASSUME NEW P \in Seq(PlanSteps), NEW k \in 1 .. Len(P)
    PROVE  /\ SubSeq(P, k, Len(P)) # <<>> /\ SubSeq(P, k, Len(P)) \in Seq(PlanSteps)
           /\ Head(SubSeq(P, k, Len(P))) = P[k]
           /\ Tail(SubSeq(P, k, Len(P))) = SubSeq(P, k + 1, Len(P))
  <1>1. PICK s : s = SubSeq(P, k, Len(P))
    OBVIOUS
  <1>2. /\ s \in Seq(PlanSteps) /\ Len(s) = Len(P) - k + 1
        /\ \A i \in 1 .. Len(P) - k + 1 : s[i] = P[k + i - 1]
    BY <1>1, SubSeqProperties
  <1>3. s # <<>> /\ Head(s) = P[k]
    BY <1>2
  <1>4. PICK t : t = SubSeq(P, k + 1, Len(P))
    OBVIOUS
  <1>5. /\ t \in Seq(PlanSteps) /\ Len(t) = Len(P) - k
        /\ \A i \in 1 .. Len(P) - k : t[i] = P[k + i]
    <2>1. \A i \in k + 1 .. Len(P) : P[i] \in PlanSteps
      OBVIOUS
    <2>2. /\ t \in Seq(PlanSteps) /\ Len(t) = IF k + 1 <= Len(P) THEN Len(P) - (k + 1) + 1 ELSE 0
          /\ \A i \in 1 .. Len(P) - (k + 1) + 1 : t[i] = P[k + 1 + i - 1]
      BY <1>4, <2>1, SubSeqProperties
    <2>3. QED
      BY <2>2
  <1>6. /\ Tail(s) \in Seq(PlanSteps) /\ Len(Tail(s)) = Len(P) - k
        /\ \A i \in 1 .. Len(P) - k : Tail(s)[i] = s[i + 1]
    BY <1>2, <1>3, HeadTailProperties
  <1>7. \A i \in 1 .. Len(P) - k : Tail(s)[i] = t[i]
    <2>1. TAKE i \in 1 .. Len(P) - k
    <2>2. i \in Nat /\ i + 1 \in 1 .. Len(P) - k + 1 /\ k + (i + 1) - 1 = k + i
      OBVIOUS
    <2>3. s[i + 1] = P[k + (i + 1) - 1]
      BY <1>2, <2>2
    <2>4. QED
      BY <1>5, <1>6, <2>2, <2>3
  <1>8. Tail(s) = t
    BY <1>5, <1>6, <1>7, SeqEqual
  <1>9. QED
    BY <1>1, <1>2, <1>3, <1>4, <1>8

LEMMA PlanTypes ==
    /\ LoadPlan \in Seq(PlanSteps) /\ Len(LoadPlan) = 16
    /\ UnloadPlan \in Seq(PlanSteps) /\ Len(UnloadPlan) = 4
    /\ FreePlan \in Seq(PlanSteps) /\ Len(FreePlan) = 5
  <1>1. LoadPlan \in Seq(PlanSteps) /\ Len(LoadPlan) = 16
    BY DEF LoadPlan, PlanSteps
  <1>2. UnloadPlan \in Seq(PlanSteps) /\ Len(UnloadPlan) = 4
    BY DEF UnloadPlan, PlanSteps
  <1>3. FreePlan \in Seq(PlanSteps) /\ Len(FreePlan) = 5
    BY DEF FreePlan, PlanSteps
  <1>4. QED
    BY <1>1, <1>2, <1>3

\* Which steps are where.
LEMMA LoadSteps ==
    \A k \in 1 .. 16 :
        /\ LoadPlan[k] = "read" <=> k \in {3, 6, 8, 11, 13}
        /\ LoadPlan[k] = "add" <=> k \in {4, 7, 12}
        /\ LoadPlan[k] = "subtract" <=> k \in {9, 14}
        /\ LoadPlan[k] = "test" <=> k \in {10, 15}
        /\ LoadPlan[k] = "lock" <=> k = 1
        /\ LoadPlan[k] = "find" <=> k = 2
        /\ LoadPlan[k] = "unlock" <=> k = 5
        /\ LoadPlan[k] = "loaded" <=> k = 16
        /\ LoadPlan[k] \notin {"remove", "free", "unloaded"}
  BY DEF LoadPlan

LEMMA UnloadSteps ==
    \A k \in 1 .. 4 :
        /\ UnloadPlan[k] = "read" <=> k = 1
        /\ UnloadPlan[k] = "subtract" <=> k = 2
        /\ UnloadPlan[k] = "test" <=> k = 3
        /\ UnloadPlan[k] = "unloaded" <=> k = 4
        /\ UnloadPlan[k] \notin {"add", "lock", "find", "unlock", "remove", "free", "loaded"}
  BY DEF UnloadPlan

LEMMA FreeSteps ==
    \A k \in 1 .. 5 :
        /\ FreePlan[k] = "lock" <=> k = 1
        /\ FreePlan[k] = "remove" <=> k = 2
        /\ FreePlan[k] = "unlock" <=> k = 3
        /\ FreePlan[k] = "free" <=> k = 4
        /\ FreePlan[k] = "unloaded" <=> k = 5
        /\ FreePlan[k] \notin {"read", "add", "subtract", "test", "find", "loaded"}
  BY DEF FreePlan

\* The steps of the operations one after another are the plans.
LEMMA LoadIsPlanned == Textures!LoadModel \o <<"loaded">> = SubSeq(LoadPlan, 1, 16)
  BY DEF Textures!LoadModel, Textures!GetTexture, Textures!Copy, Textures!Release,
         Textures!AddUser, Textures!RemoveUser, LoadPlan

LEMMA UnloadIsPlanned == Textures!Release \o <<"unloaded">> = SubSeq(UnloadPlan, 1, 4)
  BY DEF Textures!Release, Textures!RemoveUser, UnloadPlan

LEMMA FreeIsPlanned ==
    Textures!UnloadTexture \o SubSeq(UnloadPlan, 4, 4) = SubSeq(FreePlan, 1, 5)
  BY DEF Textures!UnloadTexture, UnloadPlan, FreePlan

\* After the last step the plan is done.
LEMMA PlansEnd ==
    /\ SubSeq(LoadPlan, 17, 16) = <<>> /\ SubSeq(UnloadPlan, 5, 4) = <<>>
    /\ SubSeq(FreePlan, 6, 5) = <<>>
  BY SubSeqEmpty

-----------------------------------------------------------------------------
(* The steps.                                                              *)

LEMMA PlansAreSteps ==
    /\ \A k \in 1 .. 16 : SubSeq(LoadPlan, k, 16) \in Seq(PlanSteps) \ {<<>>}
    /\ \A k \in 1 .. 4 : SubSeq(UnloadPlan, k, 4) \in Seq(PlanSteps) \ {<<>>}
    /\ \A k \in 1 .. 5 : SubSeq(FreePlan, k, 5) \in Seq(PlanSteps) \ {<<>>}
  <1>1. ASSUME NEW k \in 1 .. 16 PROVE SubSeq(LoadPlan, k, 16) \in Seq(PlanSteps) \ {<<>>}
    <2>1. k \in 1 .. Len(LoadPlan)
      BY PlanTypes
    <2>2. QED
      BY <2>1, Ahead, PlanTypes
  <1>2. ASSUME NEW k \in 1 .. 4 PROVE SubSeq(UnloadPlan, k, 4) \in Seq(PlanSteps) \ {<<>>}
    <2>1. k \in 1 .. Len(UnloadPlan)
      BY PlanTypes
    <2>2. QED
      BY <2>1, Ahead, PlanTypes
  <1>3. ASSUME NEW k \in 1 .. 5 PROVE SubSeq(FreePlan, k, 5) \in Seq(PlanSteps) \ {<<>>}
    <2>1. k \in 1 .. Len(FreePlan)
      BY PlanTypes
    <2>2. QED
      BY <2>1, Ahead, PlanTypes
  <1>4. QED
    BY <1>1, <1>2, <1>3

LEMMA NothingPlanned == ASSUME TextureInv, plan[Loader] = <<>> PROVE NoPlan
  <1>1. \A k \in 1 .. 16 : ~LoadingAt(k)
    BY PlansAreSteps DEF LoadingAt
  <1>2. \A k \in 1 .. 4 : ~UnloadingAt(k)
    BY PlansAreSteps DEF UnloadingAt
  <1>3. \A k \in 1 .. 5 : ~FreeingAt(k)
    BY PlansAreSteps DEF FreeingAt
  <1>4. QED
    BY <1>1, <1>2, <1>3 DEF TextureInv

\* The thread does what its plan says next.
LEMMA WhereItIs ==
    ASSUME TextureInv, NEW step, Textures!At(Loader, step)
    PROVE  \/ \E k \in 1 .. 16 : LoadingAt(k) /\ LoadPlan[k] = step
           \/ \E k \in 1 .. 4 : UnloadingAt(k) /\ UnloadPlan[k] = step
           \/ \E k \in 1 .. 5 : FreeingAt(k) /\ FreePlan[k] = step
  <1>1. plan[Loader] # <<>> /\ Head(plan[Loader]) = step
    BY DEF Textures!At
  <1>2. ASSUME NEW k \in 1 .. 16, LoadingAt(k) PROVE LoadPlan[k] = step
    BY <1>1, <1>2, Ahead, PlanTypes DEF LoadingAt
  <1>3. ASSUME NEW k \in 1 .. 4, UnloadingAt(k) PROVE UnloadPlan[k] = step
    BY <1>1, <1>3, Ahead, PlanTypes DEF UnloadingAt
  <1>4. ASSUME NEW k \in 1 .. 5, FreeingAt(k) PROVE FreePlan[k] = step
    BY <1>1, <1>4, Ahead, PlanTypes DEF FreeingAt
  <1>5. ~NoPlan
    BY <1>1 DEF NoPlan
  <1>6. QED
    BY <1>2, <1>3, <1>4, <1>5 DEF TextureInv

\* What the plan is after a step.
LEMMA PlanGoesOn ==
    ASSUME TextureTypes, Textures!Continue(Loader), plan[Loader] # <<>>
    PROVE  /\ plan' \in [{Loader} -> Seq(PlanSteps)]
           /\ \A k \in 1 .. 16 : plan[Loader] = SubSeq(LoadPlan, k, 16)
                => plan'[Loader] = SubSeq(LoadPlan, k + 1, 16)
           /\ \A k \in 1 .. 4 : plan[Loader] = SubSeq(UnloadPlan, k, 4)
                => plan'[Loader] = SubSeq(UnloadPlan, k + 1, 4)
           /\ \A k \in 1 .. 5 : plan[Loader] = SubSeq(FreePlan, k, 5)
                => plan'[Loader] = SubSeq(FreePlan, k + 1, 5)
  <1>1. plan \in [{Loader} -> Seq(PlanSteps)] /\ plan[Loader] \in Seq(PlanSteps)
    BY DEF TextureTypes
  <1>2. Tail(plan[Loader]) \in Seq(PlanSteps)
    BY <1>1, HeadTailProperties
  <1>3. plan' = [plan EXCEPT ![Loader] = Tail(plan[Loader])]
    BY DEF Textures!Continue
  <1>4. plan' \in [{Loader} -> Seq(PlanSteps)] /\ plan'[Loader] = Tail(plan[Loader])
    BY <1>1, <1>2, <1>3
  <1>5. \A k \in 1 .. 16 : Tail(SubSeq(LoadPlan, k, 16)) = SubSeq(LoadPlan, k + 1, 16)
    BY Ahead, PlanTypes
  <1>6. \A k \in 1 .. 4 : Tail(SubSeq(UnloadPlan, k, 4)) = SubSeq(UnloadPlan, k + 1, 4)
    BY Ahead, PlanTypes
  <1>7. \A k \in 1 .. 5 : Tail(SubSeq(FreePlan, k, 5)) = SubSeq(FreePlan, k + 1, 5)
    BY Ahead, PlanTypes
  <1>8. QED
    BY <1>4, <1>5, <1>6, <1>7

LEMMA StartLoadKeeps ==
    ASSUME TextureInv, NEW m \in Textured, Textures!StartLoad(Loader, m)
    PROVE  TextureInv'
  <1>1. /\ plan[Loader] = <<>> /\ m \notin textured
        /\ plan' = [plan EXCEPT ![Loader] = Textures!LoadModel \o <<"loaded">>]
        /\ works' = [works EXCEPT ![Loader] = m]
        /\ UNCHANGED <<known, textureUsers, myTexture, TextureMutex, created, released, read,
                       textured>>
    BY DEF Textures!StartLoad
  <1>2. NoPlan
    BY <1>1, NothingPlanned
  <1>3. Textures!LoadModel \o <<"loaded">> \in Seq(PlanSteps)
    <2>1. SubSeq(LoadPlan, 1, 16) \in Seq(PlanSteps)
      BY PlansAreSteps
    <2>2. QED
      BY <2>1, LoadIsPlanned, Zenon
  <1>4. TextureTypes'
    BY <1>1, <1>3 DEF TextureInv, TextureTypes
  <1>5. LoadingAt(1)'
    <2>1. plan'[Loader] = SubSeq(LoadPlan, 1, 16) /\ works'[Loader] = m
      BY <1>1, LoadIsPlanned DEF TextureInv, TextureTypes
    <2>2. textureUsers = TextureHolders + 0 /\ TextureHolders' = TextureHolders
      BY <1>1, <1>2 DEF NoPlan, TextureHolders, TextureInv, TextureTypes
    <2>3. /\ TextureMutex' = NoThread /\ textureUsers' = TextureHolders' + LoadUsers(1)
          /\ works'[Loader] \in Textured \ textured'
      BY <1>1, <1>2, <2>1, <2>2 DEF NoPlan, LoadUsers
    <2>4. IF textured' = {} THEN ResourceGone' ELSE ResourceHeld'
      BY <1>1, <1>2 DEF NoPlan, ResourceHeld, ResourceGone
    <2>5. QED
      BY <2>1, <2>3, <2>4 DEF LoadingAt
  <1>6. QED
    BY <1>4, <1>5 DEF TextureInv

LEMMA StartUnloadKeeps ==
    ASSUME FewTextured, TextureInv, NEW m \in Textured, Textures!StartUnload(Loader, m)
    PROVE  TextureInv'
  <1>1. /\ plan[Loader] = <<>> /\ m \in textured
        /\ plan' = [plan EXCEPT ![Loader] = Textures!Release \o <<"unloaded">>]
        /\ works' = [works EXCEPT ![Loader] = m]
        /\ textured' = textured \ {m}
        /\ UNCHANGED <<known, textureUsers, myTexture, TextureMutex, created, released, read>>
    BY DEF Textures!StartUnload
  <1>2. NoPlan
    BY <1>1, NothingPlanned
  <1>3. Textures!Release \o <<"unloaded">> \in Seq(PlanSteps)
    <2>1. SubSeq(UnloadPlan, 1, 4) \in Seq(PlanSteps)
      BY PlansAreSteps
    <2>2. QED
      BY <2>1, UnloadIsPlanned, Zenon
  <1>4. TextureTypes'
    BY <1>1, <1>3 DEF TextureInv, TextureTypes
  <1>5. UnloadingAt(1)'
    <2>1. plan'[Loader] = SubSeq(UnloadPlan, 1, 4) /\ works'[Loader] = m
      BY <1>1, UnloadIsPlanned DEF TextureInv, TextureTypes
    <2>2. TextureHolders' = TextureHolders - 1 /\ TextureHolders \in Nat
      BY <1>1, TextureCount DEF TextureHolders, TextureInv, TextureTypes
    <2>3. textureUsers' = TextureHolders' + 1
      BY <1>1, <1>2, <2>2 DEF NoPlan
    <2>4. QED
      BY <1>1, <1>2, <2>1, <2>3 DEF UnloadingAt, NoPlan, ResourceHeld
  <1>6. QED
    BY <1>4, <1>5 DEF TextureInv

LEMMA ReadCountKeeps ==
    ASSUME TextureInv, Textures!ReadCount(Loader)
    PROVE  TextureInv'
  <1>1. /\ Textures!At(Loader, "read") /\ Textures!Continue(Loader)
        /\ read' = [read EXCEPT ![Loader] = textureUsers]
        /\ UNCHANGED <<known, textureUsers, myTexture, TextureMutex, created, released, works,
                       textured>>
    BY DEF Textures!ReadCount
  <1>2. TextureTypes /\ plan[Loader] # <<>>
    BY <1>1 DEF TextureInv, Textures!At
  <1>3. TextureTypes' /\ read'[Loader] = textureUsers /\ TextureHolders' = TextureHolders
    BY <1>1, <1>2, PlanGoesOn DEF TextureTypes, TextureHolders
  <1>4. ASSUME NEW k \in 1 .. 16, LoadingAt(k), LoadPlan[k] = "read" PROVE TextureInv'
    <2>1. k \in {3, 6, 8, 11, 13} /\ k + 1 \in 1 .. 16
      BY <1>4, LoadSteps
    <2>2. LoadUsers(k + 1) = LoadUsers(k) /\ (k + 1 \in 2 .. 5 <=> k \in 2 .. 5)
      BY <2>1 DEF LoadUsers
    <2>3. plan'[Loader] = SubSeq(LoadPlan, (k + 1), 16)
      BY <1>1, <1>2, <1>4, PlanGoesOn DEF LoadingAt
    <2>4. LoadingAt(k + 1)'
      BY <1>1, <1>3, <1>4, <2>1, <2>2, <2>3 DEF LoadingAt, ResourceHeld
    <2>5. QED
      BY <1>3, <2>1, <2>4 DEF TextureInv
  <1>5. ASSUME NEW k \in 1 .. 4, UnloadingAt(k), UnloadPlan[k] = "read" PROVE TextureInv'
    <2>1. k = 1
      BY <1>5, UnloadSteps
    <2>2. plan'[Loader] = SubSeq(UnloadPlan, 2, 4)
      BY <1>1, <1>2, <1>5, <2>1, PlanGoesOn DEF UnloadingAt
    <2>3. UnloadingAt(2)'
      BY <1>1, <1>3, <1>5, <2>1, <2>2 DEF UnloadingAt, ResourceHeld
    <2>4. QED
      BY <1>3, <2>3 DEF TextureInv
  <1>6. QED
    BY <1>1, <1>4, <1>5, WhereItIs, FreeSteps

LEMMA WriteCountKeeps ==
    ASSUME FewTextured, TextureInv, Textures!WriteCount(Loader)
    PROVE  TextureInv'
  <1>1. /\ Textures!Continue(Loader)
        /\ UNCHANGED <<known, myTexture, TextureMutex, created, released, read, works, textured>>
    BY DEF Textures!WriteCount
  <1>2. TextureTypes /\ plan[Loader] # <<>>
    BY DEF TextureInv, Textures!WriteCount, Textures!At
  <1>3. /\ TextureHolders' = TextureHolders /\ TextureHolders \in Nat
        /\ TextureHolders + 2 < CountModulus
    BY <1>1, <1>2, TextureCount DEF TextureTypes, TextureHolders
  <1>4. textureUsers' \in Nat => TextureTypes'
    BY <1>1, <1>2, PlanGoesOn DEF TextureTypes
  <1>5. ASSUME Textures!At(Loader, "add"), textureUsers' = (read[Loader] + 1) % CountModulus
        PROVE  TextureInv'
    <2>1. ASSUME NEW k \in 1 .. 16, LoadingAt(k), LoadPlan[k] = "add" PROVE TextureInv'
      <3>1. k \in {4, 7, 12} /\ k + 1 \in 1 .. 16
        BY <2>1, LoadSteps
      <3>2. /\ LoadUsers(k + 1) = LoadUsers(k) + 1 /\ LoadUsers(k) \in {0, 1}
            /\ (k + 1 \in 2 .. 5 <=> k \in 2 .. 5) /\ k + 1 \notin {4, 7, 9, 12, 14} \ {9}
            /\ k + 1 # 9
        BY <3>1 DEF LoadUsers
      <3>3. plan'[Loader] = SubSeq(LoadPlan, (k + 1), 16)
        BY <1>1, <1>2, <2>1, PlanGoesOn DEF LoadingAt
      <3>4. read[Loader] = TextureHolders + LoadUsers(k)
        BY <2>1, <3>1 DEF LoadingAt
      <3>5. PICK n \in Nat : n = TextureHolders + LoadUsers(k)
        BY <1>3, <3>2
      <3>6. n + 1 \in 0 .. CountModulus - 1
        BY <1>3, <3>2, <3>5, ModulusType
      <3>7. (n + 1) % CountModulus = n + 1
        BY <3>6, ModSmall
      <3>8. textureUsers' = n + 1
        BY <1>5, <3>4, <3>5, <3>7
      <3>9. textureUsers' = TextureHolders' + LoadUsers(k + 1) /\ textureUsers' \in Nat
        BY <1>3, <3>2, <3>5, <3>8
      <3>10. LoadingAt(k + 1)'
        BY <1>1, <2>1, <3>1, <3>2, <3>3, <3>9 DEF LoadingAt, ResourceHeld
      <3>11. QED
        BY <1>4, <3>1, <3>9, <3>10 DEF TextureInv
    <2>2. QED
      BY <1>5, <2>1, WhereItIs, UnloadSteps, FreeSteps
  <1>6. ASSUME Textures!At(Loader, "subtract"),
               textureUsers' = (read[Loader] + CountModulus - 1) % CountModulus
        PROVE  TextureInv'
    <2>1. ASSUME NEW k \in 1 .. 16, LoadingAt(k), LoadPlan[k] = "subtract" PROVE TextureInv'
      <3>1. k \in {9, 14} /\ k + 1 \in 1 .. 16
        BY <2>1, LoadSteps
      <3>2. /\ LoadUsers(k + 1) = 1 /\ LoadUsers(k) = 2
            /\ k \notin 2 .. 5 /\ k + 1 \notin 2 .. 5 /\ k + 1 \notin {4, 7, 9, 12, 14}
        BY <3>1 DEF LoadUsers
      <3>3. plan'[Loader] = SubSeq(LoadPlan, (k + 1), 16)
        BY <1>1, <1>2, <2>1, PlanGoesOn DEF LoadingAt
      <3>4. read[Loader] = TextureHolders + 2
        BY <2>1, <3>1, <3>2 DEF LoadingAt
      <3>5. PICK n \in Nat : n = TextureHolders + 2
        BY <1>3
      <3>6. n \in 1 .. CountModulus - 1
        BY <1>3, <3>5, ModulusType
      <3>7. (n + CountModulus - 1) % CountModulus = n - 1
        BY <3>6, ModLess
      <3>8. textureUsers' = n - 1
        BY <1>6, <3>4, <3>5, <3>7
      <3>9. textureUsers' = TextureHolders' + LoadUsers(k + 1) /\ textureUsers' \in Nat
        BY <1>3, <3>2, <3>5, <3>8
      <3>10. LoadingAt(k + 1)'
        BY <1>1, <2>1, <3>1, <3>2, <3>3, <3>9 DEF LoadingAt, ResourceHeld
      <3>11. QED
        BY <1>4, <3>1, <3>9, <3>10 DEF TextureInv
    <2>2. ASSUME NEW k \in 1 .. 4, UnloadingAt(k), UnloadPlan[k] = "subtract" PROVE TextureInv'
      <3>1. k = 2
        BY <2>2, UnloadSteps
      <3>2. plan'[Loader] = SubSeq(UnloadPlan, 3, 4)
        BY <1>1, <1>2, <2>2, <3>1, PlanGoesOn DEF UnloadingAt
      <3>3. read[Loader] = TextureHolders + 1
        BY <2>2, <3>1 DEF UnloadingAt
      <3>4. PICK n \in Nat : n = TextureHolders + 1
        BY <1>3
      <3>5. n \in 1 .. CountModulus - 1
        BY <1>3, <3>4, ModulusType
      <3>6. (n + CountModulus - 1) % CountModulus = n - 1
        BY <3>5, ModLess
      <3>7. textureUsers' = n - 1
        BY <1>6, <3>3, <3>4, <3>6
      <3>8. textureUsers' = TextureHolders' /\ textureUsers' \in Nat
        BY <1>3, <3>4, <3>7
      <3>9. UnloadingAt(3)'
        BY <1>1, <2>2, <3>1, <3>2, <3>8 DEF UnloadingAt, ResourceHeld
      <3>10. QED
        BY <1>4, <3>8, <3>9 DEF TextureInv
    <2>3. QED
      BY <1>6, <2>1, <2>2, WhereItIs, FreeSteps
  <1>7. QED
    BY <1>5, <1>6 DEF Textures!WriteCount

LEMMA TestCountKeeps ==
    ASSUME FewTextured, TextureInv, Textures!TestCount(Loader)
    PROVE  TextureInv'
  <1>1. /\ Textures!At(Loader, "test")
        /\ UNCHANGED <<known, textureUsers, myTexture, TextureMutex, created, released, read,
                       works, textured>>
    BY DEF Textures!TestCount
  <1>2. TextureTypes /\ plan[Loader] # <<>>
    BY <1>1 DEF TextureInv, Textures!At
  <1>3. /\ TextureHolders' = TextureHolders /\ TextureHolders \in Nat
        /\ (TextureHolders = 0 <=> textured = {})
    BY <1>1, <1>2, TextureCount DEF TextureTypes, TextureHolders
  <1>4. CASE textureUsers # 0
    <2>1. Textures!Continue(Loader)
      BY <1>4 DEF Textures!TestCount, Textures!Continue
    <2>2. TextureTypes'
      BY <1>1, <1>2, <2>1, PlanGoesOn DEF TextureTypes
    <2>3. ASSUME NEW k \in 1 .. 16, LoadingAt(k), LoadPlan[k] = "test" PROVE TextureInv'
      <3>1. k \in {10, 15} /\ k + 1 \in 1 .. 16
        BY <2>3, LoadSteps
      <3>2. /\ LoadUsers(k + 1) = LoadUsers(k)
            /\ k \notin 2 .. 5 /\ k + 1 \notin 2 .. 5 /\ k + 1 \notin {4, 7, 9, 12, 14}
        BY <3>1 DEF LoadUsers
      <3>3. plan'[Loader] = SubSeq(LoadPlan, (k + 1), 16)
        BY <1>2, <2>1, <2>3, PlanGoesOn DEF LoadingAt
      <3>4. LoadingAt(k + 1)'
        BY <1>1, <1>3, <2>3, <3>1, <3>2, <3>3 DEF LoadingAt, ResourceHeld
      <3>5. QED
        BY <2>2, <3>1, <3>4 DEF TextureInv
    <2>4. ASSUME NEW k \in 1 .. 4, UnloadingAt(k), UnloadPlan[k] = "test" PROVE TextureInv'
      <3>1. k = 3
        BY <2>4, UnloadSteps
      <3>2. plan'[Loader] = SubSeq(UnloadPlan, 4, 4)
        BY <1>2, <2>1, <2>4, <3>1, PlanGoesOn DEF UnloadingAt
      <3>3. textured # {}
        BY <1>3, <1>4, <2>4, <3>1 DEF UnloadingAt
      <3>4. UnloadingAt(4)'
        BY <1>1, <1>3, <2>4, <3>1, <3>2, <3>3 DEF UnloadingAt, ResourceHeld
      <3>5. QED
        BY <2>2, <3>4 DEF TextureInv
    <2>5. QED
      BY <1>1, <2>3, <2>4, WhereItIs, FreeSteps
  <1>5. CASE textureUsers = 0
    <2>1. plan' = [plan EXCEPT ![Loader] = Textures!UnloadTexture \o Tail(plan[Loader])]
      BY <1>5 DEF Textures!TestCount
    <2>2. ASSUME NEW k \in 1 .. 16, LoadingAt(k), LoadPlan[k] = "test" PROVE FALSE
      <3>1. k \in {10, 15}
        BY <2>2, LoadSteps
      <3>2. LoadUsers(k) = 1
        BY <3>1 DEF LoadUsers
      <3>3. QED
        BY <1>3, <1>5, <2>2, <3>2 DEF LoadingAt
    <2>3. ASSUME NEW k \in 1 .. 4, UnloadingAt(k), UnloadPlan[k] = "test" PROVE TextureInv'
      <3>1. k = 3
        BY <2>3, UnloadSteps
      <3>2. Tail(plan[Loader]) = SubSeq(UnloadPlan, 4, 4)
        <4>1. k \in 1 .. Len(UnloadPlan) /\ Len(UnloadPlan) = 4
          BY PlanTypes
        <4>2. Tail(SubSeq(UnloadPlan, k, 4)) = SubSeq(UnloadPlan, k + 1, 4)
          BY <4>1, Ahead, PlanTypes
        <4>3. QED
          BY <2>3, <3>1, <4>2 DEF UnloadingAt
      <3>3. plan' = [plan EXCEPT ![Loader] = SubSeq(FreePlan, 1, 5)]
        BY <2>1, <3>2, FreeIsPlanned, Zenon
      <3>4. SubSeq(FreePlan, 1, 5) \in Seq(PlanSteps)
        BY PlansAreSteps
      <3>5. TextureTypes' /\ plan'[Loader] = SubSeq(FreePlan, 1, 5)
        BY <1>1, <1>2, <3>3, <3>4 DEF TextureTypes
      <3>6. textured = {} /\ TextureMutex = NoThread /\ ResourceHeld
        BY <1>3, <1>5, <2>3, <3>1 DEF UnloadingAt
      <3>7. FreeingAt(1)'
        BY <1>1, <1>5, <3>5, <3>6 DEF FreeingAt, ResourceHeld
      <3>8. QED
        BY <3>5, <3>7 DEF TextureInv
    <2>4. QED
      BY <1>1, <2>2, <2>3, WhereItIs, FreeSteps
  <1>6. QED
    BY <1>4, <1>5

LEMMA LockKeeps ==
    ASSUME TextureInv, Textures!Lock(Loader)
    PROVE  TextureInv'
  <1>1. /\ Textures!At(Loader, "lock") /\ Textures!Continue(Loader) /\ TextureMutex' = Loader
        /\ UNCHANGED <<known, textureUsers, myTexture, created, released, read, works, textured>>
    BY DEF Textures!Lock
  <1>2. TextureTypes /\ plan[Loader] # <<>>
    BY <1>1 DEF TextureInv, Textures!At
  <1>3. TextureTypes' /\ TextureHolders' = TextureHolders
    BY <1>1, <1>2, PlanGoesOn DEF TextureTypes, TextureHolders
  <1>4. ASSUME NEW k \in 1 .. 16, LoadingAt(k), LoadPlan[k] = "lock" PROVE TextureInv'
    <2>1. k = 1
      BY <1>4, LoadSteps
    <2>2. plan'[Loader] = SubSeq(LoadPlan, 2, 16)
      BY <1>1, <1>2, <1>4, <2>1, PlanGoesOn DEF LoadingAt
    <2>3. LoadingAt(2)'
      BY <1>1, <1>3, <1>4, <2>1, <2>2 DEF LoadingAt, LoadUsers, ResourceHeld, ResourceGone
    <2>4. QED
      BY <1>3, <2>3 DEF TextureInv
  <1>5. ASSUME NEW k \in 1 .. 5, FreeingAt(k), FreePlan[k] = "lock" PROVE TextureInv'
    <2>1. k = 1
      BY <1>5, FreeSteps
    <2>2. plan'[Loader] = SubSeq(FreePlan, 2, 5)
      BY <1>1, <1>2, <1>5, <2>1, PlanGoesOn DEF FreeingAt
    <2>3. FreeingAt(2)'
      BY <1>1, <1>5, <2>1, <2>2 DEF FreeingAt, ResourceHeld
    <2>4. QED
      BY <1>3, <2>3 DEF TextureInv
  <1>6. QED
    BY <1>1, <1>4, <1>5, WhereItIs, UnloadSteps

LEMMA UnlockKeeps ==
    ASSUME TextureInv, Textures!Unlock(Loader)
    PROVE  TextureInv'
  <1>1. /\ Textures!At(Loader, "unlock") /\ Textures!Continue(Loader)
        /\ TextureMutex' = NoThread
        /\ UNCHANGED <<known, textureUsers, myTexture, created, released, read, works, textured>>
    BY DEF Textures!Unlock
  <1>2. TextureTypes /\ plan[Loader] # <<>>
    BY <1>1 DEF TextureInv, Textures!At
  <1>3. TextureTypes' /\ TextureHolders' = TextureHolders
    BY <1>1, <1>2, PlanGoesOn DEF TextureTypes, TextureHolders
  <1>4. ASSUME NEW k \in 1 .. 16, LoadingAt(k), LoadPlan[k] = "unlock" PROVE TextureInv'
    <2>1. k = 5
      BY <1>4, LoadSteps
    <2>2. plan'[Loader] = SubSeq(LoadPlan, 6, 16)
      BY <1>1, <1>2, <1>4, <2>1, PlanGoesOn DEF LoadingAt
    <2>3. LoadingAt(6)'
      BY <1>1, <1>3, <1>4, <2>1, <2>2 DEF LoadingAt, LoadUsers, ResourceHeld
    <2>4. QED
      BY <1>3, <2>3 DEF TextureInv
  <1>5. ASSUME NEW k \in 1 .. 5, FreeingAt(k), FreePlan[k] = "unlock" PROVE TextureInv'
    <2>1. k = 3
      BY <1>5, FreeSteps
    <2>2. plan'[Loader] = SubSeq(FreePlan, 4, 5)
      BY <1>1, <1>2, <1>5, <2>1, PlanGoesOn DEF FreeingAt
    <2>3. FreeingAt(4)'
      BY <1>1, <1>5, <2>1, <2>2 DEF FreeingAt, LooseResource
    <2>4. QED
      BY <1>3, <2>3 DEF TextureInv
  <1>6. QED
    BY <1>1, <1>4, <1>5, WhereItIs, UnloadSteps

LEMMA FindKeeps ==
    ASSUME TextureInv, Textures!Find(Loader)
    PROVE  TextureInv'
  <1>1. /\ Textures!At(Loader, "find") /\ Textures!Continue(Loader)
        /\ UNCHANGED <<textureUsers, TextureMutex, released, read, works, textured>>
    BY DEF Textures!Find
  <1>2. TextureTypes /\ plan[Loader] # <<>>
    BY <1>1 DEF TextureInv, Textures!At
  <1>3. TextureTypes' /\ TextureHolders' = TextureHolders
    BY <1>1, <1>2, PlanGoesOn DEF TextureTypes, TextureHolders
  <1>4. ASSUME NEW k \in 1 .. 16, LoadingAt(k), LoadPlan[k] = "find" PROVE TextureInv'
    <2>1. k = 2
      BY <1>4, LoadSteps
    <2>2. plan'[Loader] = SubSeq(LoadPlan, 3, 16)
      BY <1>1, <1>2, <1>4, <2>1, PlanGoesOn DEF LoadingAt
    <2>3. ResourceHeld'
      <3>1. CASE known
        <4>1. UNCHANGED <<known, created, myTexture>>
          BY <3>1 DEF Textures!Find
        <4>2. ResourceHeld
          BY <1>4, <3>1 DEF LoadingAt, ResourceGone
        <4>3. QED
          BY <1>1, <4>1, <4>2 DEF ResourceHeld
      <3>2. CASE ~known
        <4>1. known' /\ created' = created + 1 /\ myTexture' = created + 1
          BY <3>2 DEF Textures!Find
        <4>2. ResourceGone
          BY <1>4, <3>2 DEF LoadingAt, ResourceHeld
        <4>3. created \in Nat /\ released' = 1 .. created
          BY <1>1, <4>2 DEF ResourceGone
        <4>4. created' - 1 = created /\ created' \in Nat \ {0}
          BY <4>1, <4>3
        <4>5. QED
          BY <4>1, <4>3, <4>4 DEF ResourceHeld
      <3>3. QED
        BY <3>1, <3>2
    <2>4. LoadingAt(3)'
      BY <1>1, <1>3, <1>4, <2>1, <2>2, <2>3 DEF LoadingAt, LoadUsers
    <2>5. QED
      BY <1>3, <2>4 DEF TextureInv
  <1>5. QED
    BY <1>1, <1>4, WhereItIs, UnloadSteps, FreeSteps

LEMMA RemoveKeeps ==
    ASSUME TextureInv, Textures!Remove(Loader)
    PROVE  TextureInv'
  <1>1. /\ Textures!At(Loader, "remove") /\ known' = FALSE
        /\ UNCHANGED <<textureUsers, myTexture, TextureMutex, created, released, read, works,
                       textured>>
    BY DEF Textures!Remove
  <1>2. TextureTypes /\ plan[Loader] # <<>>
    BY <1>1 DEF TextureInv, Textures!At
  <1>3. PICK k \in 1 .. 5 : FreeingAt(k) /\ FreePlan[k] = "remove"
    BY <1>1, WhereItIs, LoadSteps, UnloadSteps
  <1>4. k = 2
    BY <1>3, FreeSteps
  <1>5. known
    BY <1>3, <1>4 DEF FreeingAt, ResourceHeld
  <1>6. Textures!Continue(Loader)
    BY <1>5 DEF Textures!Remove, Textures!Continue
  <1>7. TextureTypes'
    BY <1>1, <1>2, <1>6, PlanGoesOn DEF TextureTypes
  <1>8. plan'[Loader] = SubSeq(FreePlan, 3, 5)
    BY <1>2, <1>3, <1>4, <1>6, PlanGoesOn DEF FreeingAt
  <1>9. FreeingAt(3)'
    BY <1>1, <1>3, <1>4, <1>8 DEF FreeingAt, ResourceHeld, LooseResource
  <1>10. QED
    BY <1>7, <1>9 DEF TextureInv

LEMMA FreeKeeps ==
    ASSUME TextureInv, Textures!Free(Loader)
    PROVE  TextureInv'
  <1>1. /\ Textures!At(Loader, "free") /\ Textures!Continue(Loader)
        /\ released' = released \cup {myTexture}
        /\ UNCHANGED <<known, textureUsers, TextureMutex, created, read, works, textured>>
    BY DEF Textures!Free
  <1>2. TextureTypes /\ plan[Loader] # <<>>
    BY <1>1 DEF TextureInv, Textures!At
  <1>3. TextureTypes'
    BY <1>1, <1>2, PlanGoesOn DEF TextureTypes
  <1>4. PICK k \in 1 .. 5 : FreeingAt(k) /\ FreePlan[k] = "free"
    BY <1>1, WhereItIs, LoadSteps, UnloadSteps
  <1>5. k = 4
    BY <1>4, FreeSteps
  <1>6. plan'[Loader] = SubSeq(FreePlan, 5, 5)
    BY <1>1, <1>2, <1>4, <1>5, PlanGoesOn DEF FreeingAt
  <1>7. LooseResource
    BY <1>4, <1>5 DEF FreeingAt
  <1>8. ResourceGone'
    <2>1. created \in Nat \ {0} /\ released' = (1 .. created - 1) \cup {created}
      BY <1>1, <1>7 DEF LooseResource
    <2>2. released' = 1 .. created
      BY <2>1
    <2>3. QED
      BY <1>1, <1>7, <2>1, <2>2 DEF LooseResource, ResourceGone
  <1>9. FreeingAt(5)'
    BY <1>1, <1>4, <1>5, <1>6, <1>8 DEF FreeingAt
  <1>10. QED
    BY <1>3, <1>9 DEF TextureInv

LEMMA FinishKeeps ==
    ASSUME FewTextured, TextureInv, Textures!Finish(Loader)
    PROVE  TextureInv'
  <1>1. /\ Textures!Continue(Loader) /\ works' = [works EXCEPT ![Loader] = Nothing]
        /\ UNCHANGED <<known, textureUsers, myTexture, TextureMutex, created, released, read>>
    BY DEF Textures!Finish
  <1>2. TextureTypes /\ plan[Loader] # <<>>
    BY DEF TextureInv, Textures!Finish, Textures!At
  <1>3. /\ plan' \in [{Loader} -> Seq(PlanSteps)] /\ read' \in [{Loader} -> Nat]
        /\ works' \in [{Loader} -> Textured \cup {Nothing}] /\ textureUsers' \in Nat
    BY <1>1, <1>2, PlanGoesOn DEF TextureTypes
  <1>4. ASSUME Textures!At(Loader, "loaded") PROVE TextureInv'
    <2>1. textured' = textured \cup {works[Loader]}
      BY <1>4 DEF Textures!Finish
    <2>2. PICK k \in 1 .. 16 : LoadingAt(k) /\ LoadPlan[k] = "loaded"
      BY <1>4, WhereItIs, UnloadSteps, FreeSteps
    <2>3. k = 16
      BY <2>2, LoadSteps
    <2>4. plan'[Loader] = <<>>
      BY <1>1, <1>2, <2>2, <2>3, PlanGoesOn, PlansEnd DEF LoadingAt
    <2>5. works[Loader] \in Textured \ textured
      BY <2>2 DEF LoadingAt
    <2>6. TextureHolders' = TextureHolders + 1 /\ textured' \in SUBSET Textured
      BY <1>2, <2>1, <2>5, TextureCount DEF TextureTypes, TextureHolders
    <2>7. textureUsers = TextureHolders + 1 /\ TextureMutex = NoThread /\ ResourceHeld
      BY <2>2, <2>3 DEF LoadingAt, LoadUsers
    <2>8. textured' # {}
      BY <2>1
    <2>9. NoPlan'
      BY <1>1, <2>4, <2>6, <2>7, <2>8 DEF NoPlan, ResourceHeld
    <2>10. QED
      BY <1>3, <2>6, <2>9 DEF TextureInv, TextureTypes
  <1>5. ASSUME Textures!At(Loader, "unloaded") PROVE TextureInv'
    <2>1. textured' = textured
      BY <1>5 DEF Textures!Finish, Textures!At
    <2>2. TextureTypes' /\ TextureHolders' = TextureHolders
      BY <1>2, <1>3, <2>1 DEF TextureTypes, TextureHolders
    <2>3. ASSUME NEW k \in 1 .. 4, UnloadingAt(k), UnloadPlan[k] = "unloaded" PROVE TextureInv'
      <3>1. k = 4
        BY <2>3, UnloadSteps
      <3>2. plan'[Loader] = <<>>
        BY <1>1, <1>2, <2>3, <3>1, PlanGoesOn, PlansEnd DEF UnloadingAt
      <3>3. NoPlan'
        BY <1>1, <2>1, <2>2, <2>3, <3>1, <3>2 DEF NoPlan, UnloadingAt, ResourceHeld
      <3>4. QED
        BY <2>2, <3>3 DEF TextureInv
    <2>4. ASSUME NEW k \in 1 .. 5, FreeingAt(k), FreePlan[k] = "unloaded" PROVE TextureInv'
      <3>1. k = 5
        BY <2>4, FreeSteps
      <3>2. plan'[Loader] = <<>>
        BY <1>1, <1>2, <2>4, <3>1, PlanGoesOn, PlansEnd DEF FreeingAt
      <3>3. /\ textured = {} /\ textureUsers = 0 /\ TextureMutex = NoThread /\ ResourceGone
            /\ TextureHolders = 0
        BY <1>2, <2>4, <3>1, TextureCount DEF FreeingAt, TextureHolders, TextureTypes
      <3>4. NoPlan'
        BY <1>1, <2>1, <2>2, <3>2, <3>3 DEF NoPlan, ResourceGone
      <3>5. QED
        BY <2>2, <3>4 DEF TextureInv
    <2>5. QED
      BY <1>5, <2>3, <2>4, WhereItIs, LoadSteps
  <1>6. QED
    BY <1>4, <1>5 DEF Textures!Finish

LEMMA TextureStart == ASSUME FewTextured, Textures!Init PROVE TextureInv
  <1>1. /\ known = FALSE /\ textureUsers = 0 /\ TextureMutex = NoThread /\ created = 0
        /\ released = {} /\ plan = [t \in {Loader} |-> <<>>] /\ read = [t \in {Loader} |-> 0]
        /\ works = [t \in {Loader} |-> Nothing] /\ textured = {}
    BY DEF Textures!Init, Textures!Threads
  <1>2. TextureTypes /\ plan[Loader] = <<>>
    BY <1>1 DEF TextureTypes
  <1>3. TextureHolders = 0
    BY <1>1, FS_EmptySet DEF TextureHolders
  <1>4. ResourceGone
    BY <1>1 DEF ResourceGone
  <1>5. QED
    BY <1>1, <1>2, <1>3, <1>4 DEF TextureInv, NoPlan

LEMMA TextureStep ==
    ASSUME FewTextured, TextureInv, [Textures!Next]_textureVars
    PROVE  TextureInv'
  <1>1. CASE Textures!Step(Loader)
    BY <1>1, ReadCountKeeps, WriteCountKeeps, TestCountKeeps, LockKeeps, UnlockKeeps, FindKeeps,
       RemoveKeeps, FreeKeeps, FinishKeeps DEF Textures!Step
  <1>2. ASSUME NEW m \in Textured, Textures!StartLoad(Loader, m) PROVE TextureInv'
    BY <1>2, StartLoadKeeps
  <1>3. ASSUME NEW m \in Textured, Textures!StartUnload(Loader, m) PROVE TextureInv'
    BY <1>3, StartUnloadKeeps
  <1>4. CASE UNCHANGED textureVars
    <2>1. UNCHANGED <<known, textureUsers, myTexture, TextureMutex, created, released, plan,
                      read, works, textured>>
      BY <1>4 DEF textureVars
    <2>2. TextureTypes' /\ (NoPlan => NoPlan')
      BY <2>1 DEF TextureInv, TextureTypes, NoPlan, TextureHolders, ResourceHeld, ResourceGone
    <2>3. \A k \in 1 .. 16 : LoadingAt(k) => LoadingAt(k)'
      BY <2>1 DEF LoadingAt, TextureHolders, ResourceHeld, ResourceGone
    <2>4. \A k \in 1 .. 4 : UnloadingAt(k) => UnloadingAt(k)'
      BY <2>1 DEF UnloadingAt, TextureHolders, ResourceHeld
    <2>5. \A k \in 1 .. 5 : FreeingAt(k) => FreeingAt(k)'
      BY <2>1 DEF FreeingAt, ResourceHeld, LooseResource, ResourceGone
    <2>6. QED
      BY <2>2, <2>3, <2>4, <2>5 DEF TextureInv
  <1>5. QED
    BY <1>1, <1>2, <1>3, <1>4 DEF Textures!Next, Textures!Threads

\* TextureLoader has its own instance of the standard module.
LEMMA SameCardinality == \A S : Textures!Cardinality(S) = Cardinality(S)
  BY DEF Textures!Cardinality, Cardinality

LEMMA TextureInvSuffices == ASSUME FewTextured, TextureInv PROVE TexturesInv
  <1>1. Textures!HeldTexturesStay
    <2>1. textured # {} => ResourceHeld
      BY DEF TextureInv, NoPlan, LoadingAt, UnloadingAt, FreeingAt
    <2>2. ResourceHeld => known /\ myTexture # Nothing /\ myTexture \notin released
      BY DEF ResourceHeld, FewTextured
    <2>3. QED
      BY <2>1, <2>2 DEF Textures!HeldTexturesStay
  <1>2. Textures!UsersMatch
    <2>1. (\A t \in Textures!Threads : plan[t] = <<>>) => NoPlan
      BY NothingPlanned DEF Textures!Threads
    <2>2. NoPlan => textureUsers = Cardinality(textured)
                    /\ (textured = {} => ~known /\ released = 1 .. created)
      BY DEF NoPlan, TextureHolders, ResourceGone
    <2>3. QED
      BY <2>1, <2>2, SameCardinality DEF Textures!UsersMatch
  <1>3. QED
    BY <1>1, <1>2 DEF TexturesInv

\* A model that is loaded has its texture, and between two operations the
\* texture's count is the number of models that hold it; at zero the texture
\* has been released, each of its resources once (TextureInstance.cpp:15, :24,
\* :47).
THEOREM TexturesAreCounted == ASSUME FewTextured PROVE Textures!Spec => []TexturesInv
  <1>1. Textures!Init => TextureInv
    BY TextureStart
  <1>2. TextureInv /\ [Textures!Next]_textureVars => TextureInv'
    BY TextureStep
  <1>3. TextureInv => TexturesInv
    BY TextureInvSuffices
  <1>4. [Textures!Next]_Textures!vars => [Textures!Next]_textureVars
    BY DEF Textures!vars, textureVars
  <1>5. QED
    BY <1>1, <1>2, <1>3, <1>4, PTL DEF Textures!Spec
=============================================================================
