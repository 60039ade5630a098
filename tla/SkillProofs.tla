---------------------------- MODULE SkillProofs ----------------------------
(***************************************************************************)
(* The publication of skills, for any number of skills and entries, any    *)
(* failures, and whatever others do to the paths: the replacement of a set *)
(* (SkillSwitch), then one publication where there is no rename that does  *)
(* not replace (SkillClaim).                                               *)
(***************************************************************************)
EXTENDS SkillSwitch, SkillClaim, FiniteSetTheorems, TLAPS

USE SwitchConstants DEF SwitchConstants, Skills

\* The objects that can be at the path of s: its old one, its new one, and those of others.
IdsAt(s) == {0, s, N + s} \cup ((2 * N + 1)..(2 * N + added))

InPlace ==
  \A s \in Skills :
    /\ dest[s].id \in IdsAt(s) /\ backup[s].object.id \in IdsAt(s)
    /\ quarantine[s].id \in IdsAt(s)
    /\ published[s] \in {None, New(s)} /\ staged[s] \in {None, New(s)}

\* The stamps of this run.
OwnStamps(stamps) == {r \in stamps : r >= FirstSecond}

\* What this run has moved aside is under a stamp of its own, and pruning has left it.
Stamped ==
  /\ roots \subseteq 0..second
  /\ \A s \in Skills : backup[s].object # None =>
       backup[s].stamp \in roots /\ backup[s].stamp >= FirstSecond
  /\ step \in {"look", "move"} => Cardinality(OwnStamps(roots)) <= skill - 1

\* What the step says of the skills before it and after it.
Phase ==
  /\ step \in {"look", "move"} => \A s \in Skills :
       /\ published[s] = None /\ quarantine[s] = None /\ staged[s] = New(s)
       /\ s >= skill => backup[s] = NoBackup
  /\ step \in {"publish", "confirm"} => \A s \in Skills :
       /\ quarantine[s] = None
       /\ s >= skill => published[s] = None
       /\ s > skill \/ (s = skill /\ step = "publish") => staged[s] = New(s)
  /\ step \in {"check", "quarantine", "verify"} => \A s \in Skills :
       s < skill \/ (s = skill /\ step # "verify") => quarantine[s] = None
  /\ step \in {"quarantine", "verify"} => published[skill] = New(skill)

\* Where the run has brought a skill that nobody else touches.
OldOf(s)   == IF s \in gone THEN None ELSE Original(s)
IsOld(s)   == dest[s] = OldOf(s) /\ backup[s].object = None
IsAside(s) == dest[s] = None /\ backup[s].object = OldOf(s)
IsNew(s)   == dest[s] = New(s) /\ backup[s].object = OldOf(s) /\ published[s] = New(s)
IsGoing(s) == dest[s] = None /\ backup[s].object = OldOf(s) /\ quarantine[s] = New(s)

AsPlanned(s) ==
  /\ step \in {"look", "move"} => IF s < skill THEN IsAside(s) ELSE IsOld(s)
  /\ step \in {"publish", "confirm"} =>
       /\ s < skill => IsNew(s)
       /\ s > skill \/ (s = skill /\ step = "publish") => IsAside(s)
       /\ s = skill /\ step = "confirm" => dest[s] = New(s) /\ backup[s].object = OldOf(s)
  /\ step \in {"check", "quarantine", "verify"} /\ ~flawed =>
       /\ s > skill => IsAside(s) \/ IsOld(s)
       /\ s < skill \/ (s = skill /\ step # "verify") =>
            IsNew(s) \/ (published[s] = None /\ (IsAside(s) \/ IsOld(s)))
       /\ s = skill /\ step = "verify" => IsGoing(s)
  /\ step = "restore" /\ ~flawed =>
       IF s > skill THEN IsOld(s) ELSE IsAside(s) \/ IsOld(s)
  /\ step = "failed" /\ ~flawed => IsOld(s)
  /\ step = "done" => IsNew(s)

Untouched == \A s \in Skills \ touched : AsPlanned(s)

SwitchInv ==
  SwitchTypeOK /\ InPlace /\ Stamped /\ Phase /\ OnlyOwnDestroyed /\ NothingLost /\ Untouched

-----------------------------------------------------------------------------
(* Helpers.                                                                *)

Holds(n, s) == n \in {dest[s].id, backup[s].object.id, quarantine[s].id}

LEMMA KeepsAll ==
  ASSUME NothingLost, added \in Nat, added' = added, gone \subseteq gone',
         \A s \in Skills : \A n : Holds(n, s) =>
           Holds(n, s)' \/ n \in gone' \/ n = 0 \/ n \in (N + 1)..(2 * N)
  PROVE  NothingLost'
<1> SUFFICES ASSUME NEW n \in Skills \cup {2 * N + k : k \in 1..added}, n \notin gone'
             PROVE  (\E s \in Skills : Holds(n, s))'
  BY DEF NothingLost, Holds
<1>1. PICK s \in Skills : Holds(n, s)
  BY DEF NothingLost, Holds
<1>2. n # 0 /\ n \notin (N + 1)..(2 * N)
  OBVIOUS
<1> QED
  BY <1>1, <1>2

\* Pruning keeps the stamps of this run, if they are few enough.
LEMMA OwnAreKept ==
  ASSUME NEW stamps, stamps \subseteq 0..LastSecond, BackupsSuffice,
         Cardinality(OwnStamps(stamps)) <= N,
         NEW r \in stamps, r >= FirstSecond
  PROVE  r \in Kept(stamps)
<1> DEFINE later == {q \in stamps : q >= r}
           seconds == FirstSecond..LastSecond
<1>1. IsFiniteSet(seconds) /\ Cardinality(seconds) = LastSecond - FirstSecond + 1
  BY FS_Interval
<1>2. later \subseteq OwnStamps(stamps) /\ OwnStamps(stamps) \subseteq seconds
  <2>1. \A q \in stamps : q \in Int /\ q <= LastSecond
    OBVIOUS
  <2>2. ASSUME NEW q \in OwnStamps(stamps)
        PROVE  q \in FirstSecond..LastSecond
    BY <2>1 DEF OwnStamps
  <2>3. ASSUME NEW q \in later
        PROVE  q \in OwnStamps(stamps)
    <3>1. q \in stamps /\ q >= r
      OBVIOUS
    <3>2. q >= FirstSecond
      BY <2>1, <3>1
    <3> QED
      BY <3>1, <3>2 DEF OwnStamps
  <2> QED
    BY <2>2, <2>3
<1>3. IsFiniteSet(OwnStamps(stamps))
  BY <1>1, <1>2, FS_Subset
<1>4. /\ Cardinality(later) <= Cardinality(OwnStamps(stamps))
      /\ Cardinality(OwnStamps(stamps)) <= Cardinality(seconds)
      /\ IsFiniteSet(later)
  BY <1>1, <1>2, <1>3, FS_Subset
<1>5. Cardinality(later) \in Nat /\ Cardinality(OwnStamps(stamps)) \in Nat
  BY <1>3, <1>4, FS_CardinalityType
<1> HIDE DEF later, seconds
<1>6. Cardinality(later) <= Keep
  BY <1>1, <1>4, <1>5 DEF BackupsSuffice
<1> QED
  BY <1>6 DEF Kept, later

LEMMA OneMoreStamp ==
  ASSUME NEW stamps, stamps \subseteq 0..LastSecond, NEW now \in 0..LastSecond,
         NEW n \in Nat, Cardinality(OwnStamps(stamps)) <= n
  PROVE  /\ Cardinality(OwnStamps(stamps \cup {now})) <= n + 1
         /\ Cardinality(OwnStamps(Kept(stamps \cup {now}))) <= n + 1
<1> DEFINE own == OwnStamps(stamps)
           more == OwnStamps(stamps \cup {now})
           kept == OwnStamps(Kept(stamps \cup {now}))
<1>1. IsFiniteSet(FirstSecond..LastSecond) /\ own \subseteq FirstSecond..LastSecond
  <2>1. IsFiniteSet(FirstSecond..LastSecond)
    BY FS_Interval
  <2>2. \A q \in stamps : q \in Int /\ q <= LastSecond
    OBVIOUS
  <2>3. ASSUME NEW q \in own
        PROVE  q \in FirstSecond..LastSecond
    BY <2>2 DEF OwnStamps
  <2> QED
    BY <2>1, <2>3
<1>2. IsFiniteSet(own) /\ Cardinality(own) \in Nat
  BY <1>1, FS_Subset, FS_CardinalityType
<1>3. IsFiniteSet(own \cup {now}) /\ Cardinality(own \cup {now}) <= Cardinality(own) + 1
  <2> HIDE DEF own
  <2>1. IsFiniteSet(own \cup {now})
    BY <1>2, FS_AddElement
  <2>2. \/ Cardinality(own \cup {now}) = Cardinality(own)
        \/ Cardinality(own \cup {now}) = Cardinality(own) + 1
    BY <1>2, FS_AddElement
  <2> QED
    BY <1>2, <2>1, <2>2
<1>4. more \subseteq own \cup {now} /\ kept \subseteq own \cup {now}
  BY DEF OwnStamps, Kept
<1>5. /\ Cardinality(more) <= Cardinality(own \cup {now})
      /\ Cardinality(kept) <= Cardinality(own \cup {now})
      /\ IsFiniteSet(more) /\ IsFiniteSet(kept)
  BY <1>3, <1>4, FS_Subset
<1>6. Cardinality(more) \in Nat /\ Cardinality(kept) \in Nat /\ Cardinality(own \cup {now}) \in Nat
  BY <1>3, <1>5, FS_CardinalityType
<1> HIDE DEF own, more, kept
<1>7. Cardinality(more) <= n + 1 /\ Cardinality(kept) <= n + 1
  BY <1>2, <1>3, <1>5, <1>6 DEF own
<1> QED
  BY <1>7 DEF more, kept

LEMMA OwnAreCounted ==
  ASSUME NEW stamps, stamps \subseteq 0..LastSecond
  PROVE  Cardinality(OwnStamps(stamps)) \in Nat
<1>1. IsFiniteSet(0..LastSecond)
  BY FS_Interval
<1>2. OwnStamps(stamps) \subseteq 0..LastSecond
  BY DEF OwnStamps
<1> QED
  BY <1>1, <1>2, FS_Subset, FS_CardinalityType

LEMMA NewIsNew ==
  ASSUME NEW s \in Skills
  PROVE  /\ None \in Objects /\ New(s) \in Objects /\ Original(s) \in Objects
         /\ None # New(s) /\ None # Original(s) /\ New(s) # Original(s)
         /\ New(s).id = N + s /\ Original(s).id = s /\ None.id = 0
         /\ NoBackup.object = None /\ NoBackup \in [object : Objects, stamp : 0..LastSecond]
<1>1. None.id = 0 /\ New(s).id = N + s /\ Original(s).id = s
  BY DEF None, New, Original, Object
<1> QED
  BY <1>1 DEF None, New, Original, Object, Objects, NoBackup
\* backupSkillSet.
LEMMA BackingUpKeeps ==
  ASSUME SwitchInv, BackupsSuffice, Look \/ SetAside \/ SetAsideFails
  PROVE  SwitchInv'
<1> USE DEF SwitchInv, Proceed, GiveUp, acts, outcome
<1>1. CASE Look
  <2> USE <1>1 DEF Look
  <2>1. SwitchTypeOK'
    <3>1. skill \in 1..(N + 1)
      BY DEF SwitchTypeOK
    <3> QED
      BY <3>1 DEF SwitchTypeOK
  <2>2. InPlace'
    BY NewIsNew DEF SwitchTypeOK, InPlace, IdsAt
  <2>3. Stamped'
    <3>1. Cardinality(OwnStamps(roots)) \in Nat
      BY OwnAreCounted DEF SwitchTypeOK
    <3> QED
      BY <3>1 DEF SwitchTypeOK, Stamped
  <2>4. Phase'
    BY NewIsNew DEF SwitchTypeOK, Phase, InPlace
  <2>5. OnlyOwnDestroyed'
    BY NewIsNew DEF SwitchTypeOK, OnlyOwnDestroyed, Phase
  <2>6. NothingLost'
    BY DEF NothingLost
  <2>7. Untouched'
    BY NewIsNew DEF SwitchTypeOK, Untouched, AsPlanned, IsOld, IsAside, IsNew, IsGoing, OldOf, Phase
  <2> QED
    BY <2>1, <2>2, <2>3, <2>4, <2>5, <2>6, <2>7
<1>2. CASE SetAside
  <2>a. /\ step = "move" /\ skill \in Skills /\ second \in 0..LastSecond
        /\ dest' = [dest EXCEPT ![skill] = None] /\ roots' = Kept(roots \cup {second})
        /\ step' = "look" /\ skill' = skill + 1
        /\ UNCHANGED <<second, staged, quarantine, published, acts, outcome>>
    BY <1>2 DEF SetAside, SwitchTypeOK
  <2>b. /\ roots \subseteq 0..second /\ roots \subseteq 0..LastSecond
        /\ Cardinality(OwnStamps(roots)) <= skill - 1 /\ second >= FirstSecond
        /\ backup[skill] = NoBackup
    BY <2>a DEF SwitchTypeOK, Stamped, Phase
  <2>c. /\ Cardinality(OwnStamps(roots \cup {second})) <= skill
        /\ Cardinality(OwnStamps(roots')) <= skill
    <3>1. skill - 1 \in Nat /\ (skill - 1) + 1 = skill
      BY <2>a
    <3> DEFINE n == skill - 1
    <3> HIDE DEF n
    <3>2. /\ Cardinality(OwnStamps(roots \cup {second})) <= n + 1
          /\ Cardinality(OwnStamps(Kept(roots \cup {second}))) <= n + 1
      BY <2>a, <2>b, <3>1, OneMoreStamp DEF n
    <3> QED
      BY <2>a, <3>1, <3>2 DEF n
  <2>d. \A r \in roots \cup {second} : r >= FirstSecond => r \in roots'
    <3>1. roots \cup {second} \subseteq 0..LastSecond
      BY <2>a, <2>b
    <3>2. Cardinality(OwnStamps(roots \cup {second})) \in Nat
      BY <3>1, OwnAreCounted
    <3>3. Cardinality(OwnStamps(roots \cup {second})) <= N
      BY <2>a, <2>c, <3>2
    <3> QED
      BY <2>a, <3>1, <3>3, OwnAreKept
  <2>e. roots' \subseteq roots \cup {second}
    BY <2>a DEF Kept
  <2>f. backup' = [backup EXCEPT ![skill] = [object |-> dest[skill], stamp |-> second]]
    <3> DEFINE aside == [backup EXCEPT ![skill] = [object |-> dest[skill], stamp |-> second]]
    <3>1. \A s \in Skills : aside[s].object # None => aside[s].stamp \in roots'
      BY <2>a, <2>b, <2>d DEF SwitchTypeOK, Stamped
    <3>2. {s \in Skills : aside[s].object # None /\ aside[s].stamp \notin roots'} = {}
      BY <3>1
    <3> DEFINE lost == {s \in Skills : aside[s].object # None /\ aside[s].stamp \notin roots'}
    <3>5. backup' = [s \in Skills |-> IF s \in lost THEN NoBackup ELSE aside[s]]
      BY <1>2 DEF SetAside
    <3>6. lost = {}
      BY <3>2
    <3> HIDE DEF lost, aside
    <3>3. backup' = [s \in Skills |-> aside[s]]
      BY <3>5, <3>6
    <3>4. aside = [s \in Skills |-> aside[s]]
      BY DEF SwitchTypeOK, aside
    <3> QED
      BY <3>3, <3>4 DEF aside
  <2> USE <2>a, <2>b, <2>c, <2>d, <2>e, <2>f
  <2>1. SwitchTypeOK'
    <3>1. dest' \in [Skills -> Objects]
      BY NewIsNew DEF SwitchTypeOK
    <3>2. [object |-> dest[skill], stamp |-> second] \in [object : Objects, stamp : 0..LastSecond]
      BY DEF SwitchTypeOK
    <3>3. backup' \in [Skills -> [object : Objects, stamp : 0..LastSecond]]
      BY <3>2 DEF SwitchTypeOK
    <3>4. skill' \in 1..(N + 1) /\ step' = "look"
      OBVIOUS
    <3>5. second' \in FirstSecond..LastSecond /\ roots' \subseteq 0..LastSecond
      BY <2>a, <2>b, <2>e DEF SwitchTypeOK
    <3>6. /\ staged' \in [Skills -> Objects] /\ quarantine' \in [Skills -> Objects]
          /\ published' \in [Skills -> Objects] /\ added' \in 0..MaxOthers
          /\ gone' \subseteq 0..(2 * N + MaxOthers) /\ touched' \subseteq Skills
          /\ destroyed' \subseteq Objects /\ flawed' \in BOOLEAN
      BY <2>a DEF SwitchTypeOK
    <3> QED
      BY ONLY <3>1, <3>3, <3>4, <3>5, <3>6 DEF SwitchTypeOK, Skills
  <2>2. InPlace'
    BY NewIsNew DEF SwitchTypeOK, InPlace, IdsAt
  <2>3. Stamped'
    <3>0. skill' - 1 = skill
      BY <2>a
    <3>1. Cardinality(OwnStamps(roots')) <= skill' - 1
      BY <2>c, <3>0
    <3>2. roots' \subseteq 0..second'
      <4>1. roots \cup {second} \subseteq 0..second
        BY <2>a, <2>b
      <4> QED
        BY <2>a, <2>e, <4>1
    <3>3. ASSUME NEW s \in Skills, backup'[s].object # None
          PROVE  backup'[s].stamp \in roots' /\ backup'[s].stamp >= FirstSecond
      BY <3>3 DEF SwitchTypeOK, Stamped
    <3> QED
      BY <3>1, <3>2, <3>3 DEF Stamped
  <2>4. Phase'
    BY NewIsNew DEF SwitchTypeOK, Phase, InPlace
  <2>5. OnlyOwnDestroyed'
    BY NewIsNew DEF SwitchTypeOK, OnlyOwnDestroyed, Phase
  <2>6. NothingLost'
    <3>1. \A s \in Skills : \A n : Holds(n, s) => Holds(n, s)' \/ n = 0
      BY DEF Holds, SwitchTypeOK, NoBackup, None, Object
    <3> QED
      BY <3>1, KeepsAll DEF SwitchTypeOK
  <2>7. Untouched'
    BY NewIsNew DEF SwitchTypeOK, Untouched, AsPlanned, IsOld, IsAside, IsNew, IsGoing, OldOf, Phase
  <2> QED
    BY <2>1, <2>2, <2>3, <2>4, <2>5, <2>6, <2>7
<1>3. CASE SetAsideFails
  <2> USE <1>3 DEF SetAsideFails
  <2>1. SwitchTypeOK'
    BY NewIsNew DEF SwitchTypeOK
  <2>2. InPlace'
    BY NewIsNew DEF SwitchTypeOK, InPlace, IdsAt
  <2>3. Stamped'
    BY NewIsNew DEF SwitchTypeOK, Stamped, Phase
  <2>4. Phase'
    BY NewIsNew DEF SwitchTypeOK, Phase, InPlace
  <2>5. OnlyOwnDestroyed'
    BY NewIsNew DEF SwitchTypeOK, OnlyOwnDestroyed, Phase
  <2>6. NothingLost'
    BY DEF NothingLost
  <2>7. Untouched'
    BY NewIsNew DEF SwitchTypeOK, Untouched, AsPlanned, IsOld, IsAside, IsNew, IsGoing, OldOf, Phase
  <2> QED
    BY <2>1, <2>2, <2>3, <2>4, <2>5, <2>6, <2>7
<1> QED
  BY <1>1, <1>2, <1>3

\* publishStagedSkillSet.
LEMMA PublishingKeeps ==
  ASSUME SwitchInv, BackupsSuffice, Publish \/ PublishFails \/ Confirm \/ ConfirmFails \/ Done
  PROVE  SwitchInv'
<1> USE DEF SwitchInv, Proceed, GiveUp, acts, outcome
<1>1. CASE Publish
  <2> USE <1>1 DEF Publish
  <2>1. SwitchTypeOK'
    <3>1. skill \in Skills
      BY DEF SwitchTypeOK
    <3>2. dest' \in [Skills -> Objects] /\ staged' \in [Skills -> Objects]
      BY <3>1, NewIsNew DEF SwitchTypeOK
    <3> QED
      BY <3>1, <3>2 DEF SwitchTypeOK
  <2>2. InPlace'
    <3> SUFFICES ASSUME NEW s \in Skills
                 PROVE  /\ dest'[s].id \in IdsAt(s) /\ staged'[s] \in {None, New(s)}
      BY DEF InPlace, IdsAt
    <3>1. skill \in Skills /\ staged[skill] = New(skill)
      BY DEF SwitchTypeOK, Phase
    <3>2. dest'[s] = IF s = skill THEN New(s) ELSE dest[s]
      BY <3>1 DEF SwitchTypeOK
    <3>3. staged'[s] = IF s = skill THEN None ELSE staged[s]
      BY <3>1 DEF SwitchTypeOK
    <3> QED
      BY <3>2, <3>3, NewIsNew DEF InPlace, IdsAt
  <2>3. Stamped'
    BY NewIsNew DEF SwitchTypeOK, Stamped, Phase
  <2>4. Phase'
    BY NewIsNew DEF SwitchTypeOK, Phase, InPlace
  <2>5. OnlyOwnDestroyed'
    BY NewIsNew DEF SwitchTypeOK, OnlyOwnDestroyed, Phase
  <2>6. NothingLost'
    <3>1. skill \in Skills
      BY DEF SwitchTypeOK
    <3>2. \A s \in Skills : \A n : Holds(n, s) => Holds(n, s)' \/ n = 0
      BY <3>1 DEF Holds, SwitchTypeOK, None, Object
    <3> QED
      BY <3>2, KeepsAll DEF SwitchTypeOK
  <2>7. Untouched'
    <3> SUFFICES ASSUME NEW s \in Skills \ touched
                 PROVE  AsPlanned(s)'
      BY DEF Untouched
    <3>1. AsPlanned(s) /\ OldOf(s)' = OldOf(s)
      BY DEF Untouched, OldOf
    <3>2. skill \in Skills
      BY DEF SwitchTypeOK
    <3>3. dest'[s] = IF s = skill THEN New(s) ELSE dest[s]
      BY <3>2 DEF SwitchTypeOK, Phase
    <3> QED
      BY <3>1, <3>2, <3>3 DEF AsPlanned, IsAside, IsNew
  <2> QED
    BY <2>1, <2>2, <2>3, <2>4, <2>5, <2>6, <2>7
<1>2. CASE PublishFails
  <2> USE <1>2 DEF PublishFails
  <2>1. SwitchTypeOK'
    BY NewIsNew DEF SwitchTypeOK
  <2>2. InPlace'
    BY NewIsNew DEF SwitchTypeOK, InPlace, IdsAt
  <2>3. Stamped'
    BY NewIsNew DEF SwitchTypeOK, Stamped, Phase
  <2>4. Phase'
    BY NewIsNew DEF SwitchTypeOK, Phase, InPlace
  <2>5. OnlyOwnDestroyed'
    BY NewIsNew DEF SwitchTypeOK, OnlyOwnDestroyed, Phase
  <2>6. NothingLost'
    BY DEF NothingLost
  <2>7. Untouched'
    BY NewIsNew DEF SwitchTypeOK, Untouched, AsPlanned, IsOld, IsAside, IsNew, IsGoing, OldOf, Phase
  <2> QED
    BY <2>1, <2>2, <2>3, <2>4, <2>5, <2>6, <2>7
<1>3. CASE Confirm
  <2> USE <1>3 DEF Confirm
  <2>1. SwitchTypeOK'
    BY NewIsNew DEF SwitchTypeOK
  <2>2. InPlace'
    BY NewIsNew DEF SwitchTypeOK, InPlace, IdsAt
  <2>3. Stamped'
    BY NewIsNew DEF SwitchTypeOK, Stamped, Phase
  <2>4. Phase'
    BY NewIsNew DEF SwitchTypeOK, Phase, InPlace
  <2>5. OnlyOwnDestroyed'
    BY NewIsNew DEF SwitchTypeOK, OnlyOwnDestroyed, Phase
  <2>6. NothingLost'
    BY DEF NothingLost
  <2>7. Untouched'
    BY NewIsNew DEF SwitchTypeOK, Untouched, AsPlanned, IsOld, IsAside, IsNew, IsGoing, OldOf, Phase
  <2> QED
    BY <2>1, <2>2, <2>3, <2>4, <2>5, <2>6, <2>7
<1>4. CASE ConfirmFails
  <2> USE <1>4 DEF ConfirmFails
  <2>1. SwitchTypeOK'
    BY NewIsNew DEF SwitchTypeOK
  <2>2. InPlace'
    BY NewIsNew DEF SwitchTypeOK, InPlace, IdsAt
  <2>3. Stamped'
    BY NewIsNew DEF SwitchTypeOK, Stamped, Phase
  <2>4. Phase'
    BY NewIsNew DEF SwitchTypeOK, Phase, InPlace
  <2>5. OnlyOwnDestroyed'
    BY NewIsNew DEF SwitchTypeOK, OnlyOwnDestroyed, Phase
  <2>6. NothingLost'
    BY DEF NothingLost
  <2>7. Untouched'
    <3> SUFFICES ASSUME NEW s \in Skills \ touched
                 PROVE  AsPlanned(s)'
      BY DEF Untouched
    <3>1. AsPlanned(s) /\ OldOf(s)' = OldOf(s)
      BY DEF Untouched, OldOf
    <3>2. skill \in Skills /\ (s >= skill => published[s] = None)
      BY DEF SwitchTypeOK, Phase
    <3>3. CASE s = skill
      BY <3>1, <3>3 DEF AsPlanned
    <3>4. CASE s # skill
      <4>1. IsNew(s) \/ (published[s] = None /\ IsAside(s))
        BY <3>1, <3>2, <3>4 DEF AsPlanned
      <4> QED
        BY <3>1, <3>4, <4>1 DEF AsPlanned, IsNew, IsAside
    <3> QED
      BY <3>3, <3>4
  <2> QED
    BY <2>1, <2>2, <2>3, <2>4, <2>5, <2>6, <2>7
<1>5. CASE Done
  <2> USE <1>5 DEF Done
  <2>1. SwitchTypeOK'
    BY NewIsNew DEF SwitchTypeOK
  <2>2. InPlace'
    BY NewIsNew DEF SwitchTypeOK, InPlace, IdsAt
  <2>3. Stamped'
    BY NewIsNew DEF SwitchTypeOK, Stamped, Phase
  <2>4. Phase'
    BY NewIsNew DEF SwitchTypeOK, Phase, InPlace
  <2>5. OnlyOwnDestroyed'
    BY NewIsNew DEF SwitchTypeOK, OnlyOwnDestroyed, Phase
  <2>6. NothingLost'
    BY DEF NothingLost
  <2>7. Untouched'
    BY NewIsNew DEF SwitchTypeOK, Untouched, AsPlanned, IsOld, IsAside, IsNew, IsGoing, OldOf, Phase
  <2> QED
    BY <2>1, <2>2, <2>3, <2>4, <2>5, <2>6, <2>7
<1> QED
  BY <1>1, <1>2, <1>3, <1>4, <1>5

\* restoreSkillSet.
LEMMA RestoringKeeps ==
  ASSUME SwitchInv, BackupsSuffice, Check \/ Quarantine \/ Verify \/ Restore \/ Failed
  PROVE  SwitchInv'
<1> USE DEF SwitchInv, Proceed, GiveUp, acts, outcome
<1>1. CASE Check
  <2> USE <1>1 DEF Check, StillOurs
  <2>1. SwitchTypeOK'
    <3>1. skill \in 0..N
      BY DEF SwitchTypeOK
    <3>2. /\ step' \in {"restore", "quarantine", "check"} /\ skill' \in 0..N
          /\ step' = "quarantine" => skill' \in Skills
      BY <3>1
    <3>3. flawed' \in BOOLEAN
      BY DEF SwitchTypeOK
    <3> QED
      BY <3>2, <3>3 DEF SwitchTypeOK
  <2>2. InPlace'
    BY NewIsNew DEF SwitchTypeOK, InPlace, IdsAt
  <2>3. Stamped'
    BY NewIsNew DEF SwitchTypeOK, Stamped, Phase
  <2>4. Phase'
    <3>1. step' \in {"restore", "quarantine", "check"} /\ skill \in 0..N
      BY DEF SwitchTypeOK
    <3>2. ASSUME NEW s \in Skills, step' \in {"check", "quarantine", "verify"},
                 s < skill' \/ (s = skill' /\ step' # "verify")
          PROVE  quarantine'[s] = None
      BY <3>1, <3>2 DEF SwitchTypeOK, Phase
    <3>3. step' \in {"quarantine", "verify"} => published'[skill'] = New(skill')
      BY <3>1, NewIsNew DEF SwitchTypeOK, Phase, InPlace
    <3> QED
      BY <3>1, <3>2, <3>3 DEF Phase
  <2>5. OnlyOwnDestroyed'
    BY NewIsNew DEF SwitchTypeOK, OnlyOwnDestroyed, Phase
  <2>6. NothingLost'
    BY DEF NothingLost
  <2>7. Untouched'
    <3> SUFFICES ASSUME NEW s \in Skills \ touched
                 PROVE  AsPlanned(s)'
      BY DEF Untouched
    <3>1. AsPlanned(s) /\ OldOf(s)' = OldOf(s)
      BY DEF Untouched, OldOf
    <3>2. skill \in 0..N
      BY DEF SwitchTypeOK
    <3>3. published[s] \in {None, New(s)} /\ New(s) # None
      BY NewIsNew DEF InPlace
    <3>4. CASE skill = 0
      BY <3>1, <3>4 DEF AsPlanned, IsOld, IsAside, IsNew, IsGoing
    <3>5. CASE skill > 0 /\ StillOurs /\ step' = "quarantine"
      BY <3>1, <3>3, <3>5 DEF AsPlanned, IsOld, IsAside, IsNew, IsGoing
    <3>6. CASE skill > 0 /\ ~StillOurs /\ step' = "check"
      BY <3>1, <3>2, <3>3, <3>6 DEF AsPlanned, IsOld, IsAside, IsNew, IsGoing
    <3>7. CASE skill > 0 /\ StillOurs /\ step' = "check"
      BY <3>7 DEF AsPlanned
    <3> QED
      BY <3>2, <3>4, <3>5, <3>6, <3>7
  <2> QED
    BY <2>1, <2>2, <2>3, <2>4, <2>5, <2>6, <2>7
<1>2. CASE Quarantine
  <2> USE <1>2 DEF Quarantine
  <2>1. SwitchTypeOK'
    <3>1. skill \in Skills
      BY DEF SwitchTypeOK
    <3>2. /\ dest' \in [Skills -> Objects] /\ quarantine' \in [Skills -> Objects]
      BY <3>1, NewIsNew DEF SwitchTypeOK
    <3>3. /\ step' \in {"check", "verify"} /\ skill' \in 0..N
          /\ step' = "verify" => skill' \in Skills
      BY <3>1
    <3> QED
      BY <3>2, <3>3 DEF SwitchTypeOK
  <2>2. InPlace'
    BY NewIsNew DEF SwitchTypeOK, InPlace, IdsAt
  <2>3. Stamped'
    BY NewIsNew DEF SwitchTypeOK, Stamped, Phase
  <2>4. Phase'
    <3>1. step' \in {"check", "verify"} /\ skill \in Skills
      BY DEF SwitchTypeOK
    <3>2. ASSUME NEW s \in Skills, step' \in {"check", "quarantine", "verify"},
                 s < skill' \/ (s = skill' /\ step' # "verify")
          PROVE  quarantine'[s] = None
      BY <3>1, <3>2 DEF SwitchTypeOK, Phase
    <3>3. step' \in {"quarantine", "verify"} => published'[skill'] = New(skill')
      BY <3>1, NewIsNew DEF SwitchTypeOK, Phase, InPlace
    <3> QED
      BY <3>1, <3>2, <3>3 DEF Phase
  <2>5. OnlyOwnDestroyed'
    BY NewIsNew DEF SwitchTypeOK, OnlyOwnDestroyed, Phase
  <2>6. NothingLost'
    <3>1. skill \in Skills /\ quarantine[skill] = None
      BY DEF SwitchTypeOK, Phase
    <3>2. \A s \in Skills : \A n : Holds(n, s) => Holds(n, s)' \/ n = 0
      BY <3>1 DEF Holds, SwitchTypeOK, None, Object
    <3> QED
      BY <3>2, KeepsAll DEF SwitchTypeOK
  <2>7. Untouched'
    <3> SUFFICES ASSUME NEW s \in Skills \ touched
                 PROVE  AsPlanned(s)'
      BY DEF Untouched
    <3>1. AsPlanned(s) /\ OldOf(s)' = OldOf(s)
      BY DEF Untouched, OldOf
    <3>2. skill \in Skills
      BY DEF SwitchTypeOK
    <3>3. /\ dest'[s] = IF s = skill THEN None ELSE dest[s]
          /\ quarantine'[s] = IF s = skill THEN dest[s] ELSE quarantine[s]
      BY <3>2 DEF SwitchTypeOK
    <3>4. published[skill] = New(skill) /\ New(s) # None
      BY NewIsNew DEF Phase
    <3> QED
      BY <3>1, <3>2, <3>3, <3>4 DEF AsPlanned, IsOld, IsAside, IsNew, IsGoing
  <2> QED
    BY <2>1, <2>2, <2>3, <2>4, <2>5, <2>6, <2>7
<1>3. CASE Verify
  <2> USE <1>3 DEF Verify
  <2>1. SwitchTypeOK'
    <3>1. skill \in Skills
      BY DEF SwitchTypeOK
    <3>2. dest' \in [Skills -> Objects]
      BY <3>1 DEF SwitchTypeOK
    <3>4. quarantine' \in [Skills -> Objects]
      BY <3>1, NewIsNew DEF SwitchTypeOK
    <3>5. destroyed' \subseteq Objects
      BY <3>1 DEF SwitchTypeOK
    <3>3. step' = "check" /\ skill' \in 0..N
      BY <3>1
    <3> QED
      BY <3>2, <3>3, <3>4, <3>5 DEF SwitchTypeOK
  <2>2. InPlace'
    <3> SUFFICES ASSUME NEW s \in Skills
                 PROVE  /\ dest'[s].id \in IdsAt(s) /\ quarantine'[s].id \in IdsAt(s)
      BY DEF InPlace, IdsAt
    <3>1. skill \in Skills
      BY DEF SwitchTypeOK
    <3>2. dest'[s] \in {dest[s], quarantine[s]} /\ quarantine'[s] \in {None, quarantine[s]}
      BY <3>1 DEF SwitchTypeOK
    <3> QED
      BY <3>2, NewIsNew DEF InPlace, IdsAt
  <2>3. Stamped'
    BY NewIsNew DEF SwitchTypeOK, Stamped, Phase
  <2>4. Phase'
    <3>1. step' = "check" /\ skill \in Skills
      BY DEF SwitchTypeOK
    <3>2. ASSUME NEW s \in Skills, step' \in {"check", "quarantine", "verify"},
                 s < skill' \/ (s = skill' /\ step' # "verify")
          PROVE  quarantine'[s] = None
      BY <3>1, <3>2 DEF SwitchTypeOK, Phase
    <3>3. step' \in {"quarantine", "verify"} => published'[skill'] = New(skill')
      BY <3>1, NewIsNew DEF SwitchTypeOK, Phase, InPlace
    <3> QED
      BY <3>1, <3>2, <3>3 DEF Phase
  <2>5. OnlyOwnDestroyed'
    BY NewIsNew DEF SwitchTypeOK, OnlyOwnDestroyed, Phase
  <2>6. NothingLost'
    <3>1. skill \in Skills /\ published[skill] = New(skill)
      BY DEF SwitchTypeOK, Phase
    <3>2. \A s \in Skills : \A n : Holds(n, s) =>
            Holds(n, s)' \/ n = 0 \/ n \in (N + 1)..(2 * N)
      BY <3>1 DEF Holds, SwitchTypeOK, None, New, Object
    <3> QED
      BY <3>2, KeepsAll DEF SwitchTypeOK
  <2>7. Untouched'
    <3> SUFFICES ASSUME NEW s \in Skills \ touched
                 PROVE  AsPlanned(s)'
      BY DEF Untouched
    <3>1. AsPlanned(s) /\ OldOf(s)' = OldOf(s)
      BY DEF Untouched, OldOf
    <3>2. skill \in Skills
      BY DEF SwitchTypeOK
    <3>3. published[skill] = New(skill) /\ New(s) # None
      BY NewIsNew DEF Phase
    <3>4. CASE s # skill
      <4>1. dest'[s] = dest[s]
        BY <3>2, <3>4 DEF SwitchTypeOK
      <4> QED
        BY <3>1, <3>2, <3>4, <4>1 DEF AsPlanned, IsOld, IsAside, IsNew, IsGoing
    <3>5. CASE s = skill
      <4>1. CASE flawed
        BY <4>1 DEF AsPlanned
      <4>2. CASE ~flawed
        <5>1. IsGoing(s)
          BY <3>1, <3>5, <4>2 DEF AsPlanned
        <5>2. dest'[s] = None
          BY <3>3, <3>5, <5>1 DEF IsGoing
        <5> QED
          BY <3>1, <3>2, <3>5, <5>1, <5>2 DEF AsPlanned, IsOld, IsAside, IsNew, IsGoing
      <4> QED
        BY <4>1, <4>2
    <3> QED
      BY <3>4, <3>5
  <2> QED
    BY <2>1, <2>2, <2>3, <2>4, <2>5, <2>6, <2>7
<1>4. CASE Restore
  <2> USE <1>4 DEF Restore
  <2>1. SwitchTypeOK'
    <3>1. skill \in Skills
      BY DEF SwitchTypeOK
    <3>4. dest' \in [Skills -> Objects]
      BY <3>1 DEF SwitchTypeOK
    <3>5. backup' \in [Skills -> [object : Objects, stamp : 0..LastSecond]]
      BY <3>1, NewIsNew DEF SwitchTypeOK
    <3>6. flawed' \in BOOLEAN
      BY DEF SwitchTypeOK
    <3>2. /\ backup' \in [Skills -> [object : Objects, stamp : 0..LastSecond]]
          /\ flawed' \in BOOLEAN /\ dest' \in [Skills -> Objects]
      BY <3>4, <3>5, <3>6
    <3>3. step' = "restore" /\ skill' \in 0..N
      BY <3>1
    <3> QED
      BY <3>2, <3>3 DEF SwitchTypeOK
  <2>2. InPlace'
    <3> SUFFICES ASSUME NEW s \in Skills
                 PROVE  /\ dest'[s].id \in IdsAt(s) /\ backup'[s].object.id \in IdsAt(s)
      BY DEF InPlace, IdsAt
    <3>1. skill \in Skills
      BY DEF SwitchTypeOK
    <3>2. dest'[s] \in {dest[s], backup[s].object} /\ backup'[s] \in {NoBackup, backup[s]}
      BY <3>1 DEF SwitchTypeOK
    <3> QED
      BY <3>2, NewIsNew DEF InPlace, IdsAt
  <2>3. Stamped'
    BY NewIsNew DEF SwitchTypeOK, Stamped, Phase
  <2>4. Phase'
    BY NewIsNew DEF SwitchTypeOK, Phase, InPlace
  <2>5. OnlyOwnDestroyed'
    BY NewIsNew DEF SwitchTypeOK, OnlyOwnDestroyed, Phase
  <2>6. NothingLost'
    <3>1. skill \in Skills
      BY DEF SwitchTypeOK
    <3>2. \A s \in Skills : \A n : Holds(n, s) => Holds(n, s)' \/ n = 0
      BY <3>1 DEF Holds, SwitchTypeOK, None, Object
    <3> QED
      BY <3>2, KeepsAll DEF SwitchTypeOK
  <2>7. Untouched'
    <3> SUFFICES ASSUME NEW s \in Skills \ touched
                 PROVE  AsPlanned(s)'
      BY DEF Untouched
    <3>1. AsPlanned(s) /\ OldOf(s)' = OldOf(s)
      BY DEF Untouched, OldOf
    <3>2. skill \in Skills
      BY DEF SwitchTypeOK
    <3>3. CASE s # skill
      <4>1. dest'[s] = dest[s] /\ backup'[s] = backup[s]
        BY <3>2, <3>3 DEF SwitchTypeOK
      <4> QED
        BY <3>1, <3>2, <3>3, <4>1 DEF AsPlanned, IsOld, IsAside
    <3>4. CASE s = skill
      <4>1. CASE flawed'
        BY <4>1 DEF AsPlanned
      <4>2. CASE ~flawed'
        <5>1. ~flawed /\ (IsAside(s) \/ IsOld(s))
          BY <3>1, <3>4, <4>2 DEF AsPlanned
        <5>2. CASE backup[s].object # None /\ dest[s] = None
          <6>1. dest'[s] = backup[s].object /\ backup'[s] = NoBackup
            BY <3>4, <4>2, <5>2 DEF SwitchTypeOK
          <6> QED
            BY <3>1, <3>4, <5>1, <5>2, <6>1, NewIsNew DEF AsPlanned, IsOld, IsAside
        <5>3. CASE backup[s].object = None \/ dest[s] # None
          <6>1. dest'[s] = dest[s] /\ backup'[s] = backup[s]
            BY <3>4, <4>2, <5>3
          <6> QED
            BY <3>1, <3>4, <5>1, <5>3, <6>1 DEF AsPlanned, IsOld, IsAside
        <5> QED
          BY <5>2, <5>3
      <4> QED
        BY <4>1, <4>2
    <3> QED
      BY <3>3, <3>4
  <2> QED
    BY <2>1, <2>2, <2>3, <2>4, <2>5, <2>6, <2>7
<1>5. CASE Failed
  <2> USE <1>5 DEF Failed
  <2>1. SwitchTypeOK'
    BY NewIsNew DEF SwitchTypeOK
  <2>2. InPlace'
    BY NewIsNew DEF SwitchTypeOK, InPlace, IdsAt
  <2>3. Stamped'
    BY NewIsNew DEF SwitchTypeOK, Stamped, Phase
  <2>4. Phase'
    BY NewIsNew DEF SwitchTypeOK, Phase, InPlace
  <2>5. OnlyOwnDestroyed'
    BY NewIsNew DEF SwitchTypeOK, OnlyOwnDestroyed, Phase
  <2>6. NothingLost'
    BY DEF NothingLost
  <2>7. Untouched'
    BY NewIsNew DEF SwitchTypeOK, Untouched, AsPlanned, IsOld, IsAside, IsNew, IsGoing, OldOf, Phase
  <2> QED
    BY <2>1, <2>2, <2>3, <2>4, <2>5, <2>6, <2>7
<1> QED
  BY <1>1, <1>2, <1>3, <1>4, <1>5

\* The clock, a death, and what others do.
LEMMA WorldKeeps ==
  ASSUME SwitchInv, BackupsSuffice, SwitchDies \/ SecondPasses \/ \E s \in Skills : Others(s)
  PROVE  SwitchInv'
<1> USE DEF SwitchInv, Proceed, GiveUp, acts, outcome
<1>1. CASE SwitchDies
  <2> USE <1>1 DEF SwitchDies
  <2>1. SwitchTypeOK'
    BY NewIsNew DEF SwitchTypeOK
  <2>2. InPlace'
    BY NewIsNew DEF SwitchTypeOK, InPlace, IdsAt
  <2>3. Stamped'
    BY NewIsNew DEF SwitchTypeOK, Stamped, Phase
  <2>4. Phase'
    BY NewIsNew DEF SwitchTypeOK, Phase, InPlace
  <2>5. OnlyOwnDestroyed'
    BY NewIsNew DEF SwitchTypeOK, OnlyOwnDestroyed, Phase
  <2>6. NothingLost'
    BY DEF NothingLost
  <2>7. Untouched'
    BY NewIsNew DEF SwitchTypeOK, Untouched, AsPlanned, IsOld, IsAside, IsNew, IsGoing, OldOf, Phase
  <2> QED
    BY <2>1, <2>2, <2>3, <2>4, <2>5, <2>6, <2>7
<1>2. CASE SecondPasses
  <2> USE <1>2 DEF SecondPasses
  <2>1. SwitchTypeOK'
    BY NewIsNew DEF SwitchTypeOK
  <2>2. InPlace'
    BY NewIsNew DEF SwitchTypeOK, InPlace, IdsAt
  <2>3. Stamped'
    BY NewIsNew DEF SwitchTypeOK, Stamped, Phase
  <2>4. Phase'
    BY NewIsNew DEF SwitchTypeOK, Phase, InPlace
  <2>5. OnlyOwnDestroyed'
    BY NewIsNew DEF SwitchTypeOK, OnlyOwnDestroyed, Phase
  <2>6. NothingLost'
    BY DEF NothingLost
  <2>7. Untouched'
    BY NewIsNew DEF SwitchTypeOK, Untouched, AsPlanned, IsOld, IsAside, IsNew, IsGoing, OldOf, Phase
  <2> QED
    BY <2>1, <2>2, <2>3, <2>4, <2>5, <2>6, <2>7
<1>3. ASSUME NEW t \in Skills, Others(t)
      PROVE  SwitchInv'
  <2>0. /\ gone' = IF dest'[t].id # dest[t].id THEN gone \cup {dest[t].id} ELSE gone
        /\ touched' = touched \cup {t}
    BY <1>3 DEF Others
  <2>1. /\ added' \in 0..MaxOthers /\ dest'[t] \in Objects /\ dest' = [dest EXCEPT ![t] = dest'[t]]
        /\ \/ added' = added /\ dest'[t].id \in {0, dest[t].id}
           \/ added' = added + 1 /\ dest'[t].id = 2 * N + added'
    <3>1. dest[t] \in Objects /\ added \in 0..MaxOthers
      BY DEF SwitchTypeOK
    <3>2. CASE /\ added < MaxOthers /\ added' = added + 1
               /\ dest' = [dest EXCEPT ![t] = Object(2 * N + added')]
      <4>1. dest'[t] = Object(2 * N + added')
        BY <3>2 DEF SwitchTypeOK
      <4>2. added' \in 0..MaxOthers /\ 2 * N + added' \in 0..(2 * N + MaxOthers)
        BY <3>1, <3>2
      <4>3. dest'[t].id = 2 * N + added' /\ dest'[t] \in Objects
        <5> DEFINE id == 2 * N + added'
        <5>1. dest'[t] = [id |-> id, edited |-> FALSE]
          BY <4>1 DEF Object
        <5> HIDE DEF id
        <5>2. dest'[t].id = id
          BY <5>1
        <5>3. id \in 0..(2 * N + MaxOthers)
          BY <4>2 DEF id
        <5>4. dest'[t] \in Objects
          BY <5>1, <5>3 DEF Objects
        <5> QED
          BY <5>2, <5>4 DEF id
      <4> QED
        BY <3>2, <4>1, <4>2, <4>3
    <3>3. CASE added' = added /\ dest' = [dest EXCEPT ![t] = None]
      <4>1. dest'[t] = None /\ None \in Objects /\ None.id = 0
        BY <3>3, NewIsNew DEF SwitchTypeOK
      <4> QED
        BY <3>1, <3>3, <4>1
    <3>4. CASE added' = added /\ dest' = [dest EXCEPT ![t].edited = TRUE]
      <4>1. dest'[t] = [dest[t] EXCEPT !.edited = TRUE]
        BY <3>4 DEF SwitchTypeOK
      <4>2. dest'[t] \in Objects /\ dest'[t].id = dest[t].id
        BY <3>1, <4>1 DEF Objects
      <4>3. dest' = [dest EXCEPT ![t] = dest'[t]]
        BY <3>4, <4>1
      <4> QED
        BY <3>1, <3>4, <4>2, <4>3
    <3> QED
      BY <1>3, <3>2, <3>3, <3>4 DEF Others
  <2>a. /\ dest[t].id \in 0..(2 * N + MaxOthers) /\ dest'[t].id \in 0..(2 * N + MaxOthers)
        /\ added \in Nat /\ added' \in Nat /\ dest[t].id \in IdsAt(t)
        /\ \A s \in Skills : dest'[s] = IF s = t THEN dest'[t] ELSE dest[s]
    <3>1. dest[t] \in Objects /\ dest \in [Skills -> Objects] /\ added \in Nat /\ added' \in Nat
      BY <2>1 DEF SwitchTypeOK
    <3>2. \A s \in Skills : dest'[s] = IF s = t THEN dest'[t] ELSE dest[s]
      BY <2>1, <3>1
    <3> QED
      BY <2>1, <3>1, <3>2 DEF Objects, InPlace
  <2>2. UNCHANGED <<second, step, skill, staged, quarantine, backup, roots, published, destroyed,
                    flawed>>
    BY <1>3 DEF Others
  <2>3. SwitchTypeOK'
    <3>1. dest' \in [Skills -> Objects] /\ touched' \subseteq Skills
      BY <2>0, <2>1 DEF SwitchTypeOK
    <3>2. gone' \subseteq 0..(2 * N + MaxOthers)
      BY <2>0, <2>a DEF SwitchTypeOK
    <3> QED
      BY <2>1, <2>2, <3>1, <3>2 DEF SwitchTypeOK
  <2>4. InPlace'
    <3> SUFFICES ASSUME NEW s \in Skills
                 PROVE  /\ IdsAt(s) \subseteq IdsAt(s)' /\ dest'[s].id \in IdsAt(s)'
      BY <2>2 DEF InPlace
    <3>1. IdsAt(s) \subseteq IdsAt(s)'
      <4>1. added <= added'
        BY <2>1, <2>a
      <4>2. (2 * N + 1)..(2 * N + added) \subseteq (2 * N + 1)..(2 * N + added')
        BY <2>a, <4>1
      <4> QED
        BY <4>2 DEF IdsAt
    <3>2. CASE s = t
      <4>1. 0 \in IdsAt(t)' /\ dest[t].id \in IdsAt(t)'
        BY <2>a, <3>1, <3>2 DEF IdsAt
      <4>2. added' = added + 1 => 2 * N + added' \in IdsAt(t)'
        BY <2>a DEF IdsAt
      <4>3. dest'[t].id \in IdsAt(t)'
        BY <2>1, <4>1, <4>2
      <4> QED
        BY <3>1, <3>2, <4>3
    <3>3. CASE s # t
      BY <2>1, <3>1, <3>3 DEF InPlace, SwitchTypeOK
    <3> QED
      BY <3>1, <3>2, <3>3
  <2>5. Stamped' /\ Phase' /\ OnlyOwnDestroyed'
    BY <2>2 DEF Stamped, Phase, OnlyOwnDestroyed
  <2>6. NothingLost'
    <3> SUFFICES ASSUME NEW n \in Skills \cup {2 * N + k : k \in 1..added'}, n \notin gone'
                 PROVE  (\E s \in Skills : Holds(n, s))'
      BY DEF NothingLost, Holds
    <3>1. CASE \E s \in Skills : Holds(n, s)
      <4> PICK s \in Skills : Holds(n, s)
        BY <3>1
      <4> QED
        BY <2>0, <2>2, <2>a DEF Holds
    <3>2. CASE n = 2 * N + added' /\ added' = added + 1
      <4>1. n # dest[t].id
        BY <2>a, <3>2 DEF IdsAt
      <4>2. dest'[t].id = n
        BY <2>1, <3>2 DEF SwitchTypeOK
      <4> QED
        BY <4>2 DEF Holds
    <3>3. CASE n \in Skills \cup {2 * N + k : k \in 1..added}
      BY <2>0, <3>1, <3>3 DEF NothingLost, Holds
    <3>4. added' = added \/ added' = added + 1
      BY <2>1
    <3>5. 1..added' \subseteq 1..added \cup (IF added' = added THEN {} ELSE {added'})
      BY <2>a, <3>4
    <3> QED
      BY <3>2, <3>3, <3>4, <3>5
  <2>7. Untouched'
    <3> SUFFICES ASSUME NEW s \in Skills \ touched'
                 PROVE  AsPlanned(s)'
      BY DEF Untouched
    <3>1. AsPlanned(s) /\ s # t
      BY <2>0 DEF Untouched
    <3>2. dest[t].id # s
      BY <2>a, <3>1 DEF IdsAt
    <3>3. OldOf(s)' = OldOf(s) /\ dest'[s] = dest[s]
      BY <2>0, <2>a, <3>1, <3>2 DEF OldOf
    <3> QED
      BY <2>2, <3>1, <3>3 DEF AsPlanned, IsOld, IsAside, IsNew, IsGoing
  <2> QED
    BY <2>3, <2>4, <2>5, <2>6, <2>7
<1> QED
  BY <1>1, <1>2, <1>3

\* It holds when the run starts.
LEMMA SwitchStarts ==
  ASSUME SwitchInit
  PROVE  SwitchInv
<1> USE NewIsNew DEF SwitchInit
<1>1. SwitchTypeOK
  <2>1. dest \in [Skills -> Objects] /\ gone \subseteq 0..(2 * N + MaxOthers)
    OBVIOUS
  <2>2. roots \subseteq 0..LastSecond
    OBVIOUS
  <2>3. staged \in [Skills -> Objects] /\ published \in [Skills -> Objects]
    OBVIOUS
  <2>4. quarantine \in [Skills -> Objects]
    OBVIOUS
  <2>5. backup \in [Skills -> [object : Objects, stamp : 0..LastSecond]]
    <3>1. NoBackup \in [object : Objects, stamp : 0..LastSecond]
      BY DEF NoBackup, None, Object, Objects
    <3> QED
      BY <3>1
  <2>6. second \in FirstSecond..LastSecond /\ skill \in 1..(N + 1) /\ step = "look"
    OBVIOUS
  <2>7. added \in 0..MaxOthers /\ touched = {} /\ destroyed = {}
    OBVIOUS
  <2>8. flawed \in BOOLEAN
    OBVIOUS
  <2> QED
    BY ONLY <2>1, <2>2, <2>3, <2>4, <2>5, <2>6, <2>7, <2>8 DEF SwitchTypeOK
<1>2. InPlace
  BY DEF InPlace, IdsAt
<1>3. Stamped
  <2>0. \A r \in roots : r \in Int /\ r < FirstSecond
    <3>1. roots \subseteq 0..(FirstSecond - 1)
      OBVIOUS
    <3> QED
      BY <3>1
  <2>1. OwnStamps(roots) = {}
    <3>1. ASSUME NEW r \in OwnStamps(roots)
          PROVE  FALSE
      <4>1. r \in roots /\ r >= FirstSecond
        BY DEF OwnStamps
      <4> QED
        BY <2>0, <4>1
    <3> QED
      BY <3>1
  <2>2. Cardinality(OwnStamps(roots)) = 0
    BY <2>1, FS_EmptySet
  <2> QED
    BY <2>2 DEF Stamped
<1>4. Phase /\ OnlyOwnDestroyed
  BY DEF Phase, OnlyOwnDestroyed
<1>5. NothingLost
  BY DEF NothingLost
<1>6. Untouched
  BY DEF Untouched, AsPlanned, IsOld, OldOf
<1> QED
  BY <1>1, <1>2, <1>3, <1>4, <1>5, <1>6 DEF SwitchInv

\* Others write to the paths, calls fail, the run dies: a rollback removes only what the run
\* has published, nothing is lost, and the paths nobody touched are all new or all as before
\* (publishStagedSkillSet, RollbackSkillPathPublications).
THEOREM SwitchIsSafe == BackupsSuffice => (SwitchSpec => []SwitchSafe)
<1> SUFFICES ASSUME BackupsSuffice PROVE SwitchSpec => []SwitchSafe
  OBVIOUS
<1>1. SwitchInit => SwitchInv
  BY SwitchStarts
<1>2. SwitchInv /\ [SwitchNext]_switchVars => SwitchInv'
  <2> SUFFICES ASSUME SwitchInv, [SwitchNext]_switchVars
               PROVE  SwitchInv'
    OBVIOUS
  <2>1. CASE Look \/ SetAside \/ SetAsideFails
    BY <2>1, BackingUpKeeps
  <2>2. CASE Publish \/ PublishFails \/ Confirm \/ ConfirmFails \/ Done
    BY <2>2, PublishingKeeps
  <2>3. CASE Check \/ Quarantine \/ Verify \/ Restore \/ Failed
    BY <2>3, RestoringKeeps
  <2>4. CASE SwitchDies \/ SecondPasses \/ \E s \in Skills : Others(s)
    BY <2>4, WorldKeeps
  <2>5. CASE UNCHANGED switchVars
    BY <2>5 DEF switchVars, acts, outcome, SwitchInv, SwitchTypeOK, InPlace, IdsAt, Stamped, Phase,
         OnlyOwnDestroyed, NothingLost, Untouched, AsPlanned, IsOld, IsAside, IsNew, IsGoing, OldOf
  <2> QED
    BY <2>1, <2>2, <2>3, <2>4, <2>5 DEF SwitchNext
<1>3. SwitchInv => SwitchSafe
  <2>1. ASSUME NEW s \in Skills \ touched, AsPlanned(s)
        PROVE  /\ step = "done" => dest[s] = New(s)
               /\ step = "failed" /\ ~flawed => dest[s] = IF s \in gone THEN None ELSE Original(s)
    BY <2>1 DEF AsPlanned, IsNew, IsOld, OldOf
  <2> QED
    BY <2>1 DEF SwitchInv, SwitchSafe, AllOrNothing, Untouched
<1> QED
  BY <1>1, <1>2, <1>3, PTL DEF SwitchSpec

-----------------------------------------------------------------------------
(* SkillClaim.                                                             *)

HIDE SwitchConstants DEF SwitchConstants, Skills
USE ClaimConstants DEF ClaimConstants, AllNames, Things, Nothing, Ours, NoDir, ClaimDir, StagedDir

\* While nobody else writes, what is where follows from the step.
Split(inside) ==
  /\ \A n \in AllNames : entries[n] = IF n \in inside THEN Ours ELSE Nothing
  /\ \A n \in AllNames : source[n] = IF n \in Names \ inside THEN Ours ELSE Nothing

\* Each staged entry is at one place at least, and each that was moved at the new one only.
OnTheWayBack ==
  /\ \A n \in AllNames : source[n] \in {Nothing, Ours} /\ entries[n] \in {Nothing, Ours}
  /\ \A n \in OtherNames : source[n] = Nothing
  /\ \A n \in Names : source[n] = Ours \/ entries[n] = Ours
  /\ \A n \in moved : source[n] = Nothing

Undisturbed ==
  /\ claiming = "mkdir" => dir = NoDir
  /\ claiming \in {"mkdir", "identify", "rename", "read", "rmdir"} => Split({})
  /\ claiming \in {"mkdir", "identify", "rename", "read"} => moved = {} /\ ~stuck
  /\ claiming \in {"identify", "rename", "read", "move", "back", "reread", "chmod", "shell",
                   "unclaim", "rmdir"} => dir = ClaimDir
  /\ claiming \in {"move", "reread", "chmod", "shell"} => Split(moved) /\ ~stuck
  /\ claiming \in {"back", "unclaim"} => OnTheWayBack /\ (~stuck => Split(moved))
  /\ claiming = "unclaim" => moved = {}
  /\ claiming \in {"reread", "chmod", "shell"} => moved = Names
  /\ claiming \in {"identity", "confirm"} =>
       /\ dir \in {ClaimDir, StagedDir}
       /\ entries = Staged /\ source = Empty
  /\ claiming = "identity" => claimed = IF dir = ClaimDir THEN ClaimDir ELSE NoDir
  /\ claiming \in {"rename", "read", "move", "back", "reread", "chmod", "shell"} => claimed = ClaimDir
  /\ claiming = "confirm" => claimed = IF dir = ClaimDir THEN ClaimDir ELSE NoDir
  /\ claiming = "failed" /\ ~stuck => dir = NoDir
  /\ claiming # "uncertain"

\* The way back begins with a failure; what was compared is what was read after mkdir, unless
\* it was replaced after that; and what was read is the claim, unless it was replaced before.
Steps ==
  /\ claiming = "back" => failed
  /\ claiming = "confirm" /\ claimed # NoDir => dir \in {NoDir, claimed} \/ late
  /\ claiming = "identify" => dir \in {NoDir, ClaimDir} \/ early
  /\ claimed \in {NoDir, ClaimDir} \/ early

ClaimInv ==
  /\ ClaimTypeOK /\ (~interfered => Undisturbed) /\ Steps
  /\ ForwardLosesNothing /\ OtherNamesSurvive /\ ReplacedIsNotPublished

LEMMA EmptyAndStaged ==
  /\ Empty \in [AllNames -> Things] /\ Staged \in [AllNames -> Things]
  /\ \A n \in AllNames : Empty[n] = Nothing
  /\ \A n \in AllNames : Staged[n] = IF n \in Names THEN Ours ELSE Nothing
BY DEF Empty, Staged

\* The claim, and the rename over it.
LEMMA ClaimingKeeps ==
  ASSUME ClaimInv, Mkdir \/ Identify \/ FastRename \/ RenameRefused \/ ReadClaim
  PROVE  ClaimInv'
<1> USE DEF ClaimInv, ReturnAs, outside, ClaimEnded
<1>1. CASE Mkdir
  <2> USE <1>1 DEF Mkdir
  <2>1. ClaimTypeOK'
    BY EmptyAndStaged DEF ClaimTypeOK, Used
  <2>2. (~interfered => Undisturbed)'
    BY EmptyAndStaged DEF ClaimTypeOK, Undisturbed, Split, OnTheWayBack, Used
  <2>3. Steps'
    BY DEF ClaimTypeOK, Steps
  <2>4. ForwardLosesNothing' /\ OtherNamesSurvive'
    BY EmptyAndStaged DEF ClaimTypeOK, Steps, ForwardLosesNothing, OtherNamesSurvive
  <2>5. ReplacedIsNotPublished'
    BY DEF ClaimTypeOK, Steps, ReplacedIsNotPublished
  <2> QED
    BY <2>1, <2>2, <2>3, <2>4, <2>5
<1>2. CASE FastRename
  <2> USE <1>2 DEF FastRename
  <2>1. ClaimTypeOK'
    <3>1. /\ source' \in [AllNames -> Things] /\ entries' \in [AllNames -> Things]
          /\ dir' \in -2..MaxForeign /\ dir' # NoDir
      BY EmptyAndStaged DEF ClaimTypeOK
    <3>2. ~interfered => Used(entries') \subseteq Names
      BY DEF Undisturbed, Split, Used
    <3>3. \A n \in Names : source'[n] # Ours
      BY EmptyAndStaged
    <3> QED
      BY <3>1, <3>2, <3>3 DEF ClaimTypeOK
  <2>2. (~interfered => Undisturbed)'
    BY EmptyAndStaged DEF ClaimTypeOK, Undisturbed, Split, OnTheWayBack, Used
  <2>3. Steps'
    BY DEF ClaimTypeOK, Steps
  <2>4. ForwardLosesNothing' /\ OtherNamesSurvive'
    BY EmptyAndStaged DEF ClaimTypeOK, Steps, ForwardLosesNothing, OtherNamesSurvive
  <2>5. ReplacedIsNotPublished'
    BY DEF ClaimTypeOK, Steps, ReplacedIsNotPublished
  <2> QED
    BY <2>1, <2>2, <2>3, <2>4, <2>5
<1>3. CASE RenameRefused
  <2> USE <1>3 DEF RenameRefused
  <2>1. ClaimTypeOK'
    BY EmptyAndStaged DEF ClaimTypeOK, Used
  <2>2. (~interfered => Undisturbed)'
    BY EmptyAndStaged DEF ClaimTypeOK, Undisturbed, Split, OnTheWayBack, Used
  <2>3. Steps'
    BY DEF ClaimTypeOK, Steps
  <2>4. ForwardLosesNothing' /\ OtherNamesSurvive'
    BY EmptyAndStaged DEF ClaimTypeOK, Steps, ForwardLosesNothing, OtherNamesSurvive
  <2>5. ReplacedIsNotPublished'
    BY DEF ClaimTypeOK, Steps, ReplacedIsNotPublished
  <2> QED
    BY <2>1, <2>2, <2>3, <2>4, <2>5
<1>4. CASE ReadClaim
  <2> USE <1>4 DEF ReadClaim
  <2>1. ClaimTypeOK'
    BY EmptyAndStaged DEF ClaimTypeOK, Used
  <2>2. (~interfered => Undisturbed)'
    BY EmptyAndStaged DEF ClaimTypeOK, Undisturbed, Split, OnTheWayBack, Used
  <2>3. Steps'
    BY DEF ClaimTypeOK, Steps
  <2>4. ForwardLosesNothing' /\ OtherNamesSurvive'
    BY EmptyAndStaged DEF ClaimTypeOK, Steps, ForwardLosesNothing, OtherNamesSurvive
  <2>5. ReplacedIsNotPublished'
    BY DEF ClaimTypeOK, Steps, ReplacedIsNotPublished
  <2> QED
    BY <2>1, <2>2, <2>3, <2>4, <2>5
<1>5. CASE Identify
  <2> USE <1>5 DEF Identify
  <2>1. ClaimTypeOK'
    BY EmptyAndStaged DEF ClaimTypeOK, Used
  <2>2. (~interfered => Undisturbed)'
    BY EmptyAndStaged DEF ClaimTypeOK, Undisturbed, Split, OnTheWayBack, Used
  <2>3. Steps'
    BY DEF ClaimTypeOK, Steps
  <2>4. ForwardLosesNothing' /\ OtherNamesSurvive'
    BY EmptyAndStaged DEF ClaimTypeOK, Steps, ForwardLosesNothing, OtherNamesSurvive
  <2>5. ReplacedIsNotPublished'
    BY DEF ClaimTypeOK, Steps, ReplacedIsNotPublished
  <2> QED
    BY <2>1, <2>2, <2>3, <2>4, <2>5
<1> QED
  BY <1>1, <1>2, <1>3, <1>4, <1>5

\* The entries are moved one by one.
LEMMA MovingKeeps ==
  ASSUME ClaimInv,
         \/ (\E n \in Names : MoveEntry(n)) \/ (\E n \in Names : MoveFails(n))
         \/ (\E n \in Names : EntryStays(n))
         \/ AllMoved \/ Reread \/ Chmod \/ RemoveShell \/ ShellStays
  PROVE  ClaimInv'
<1> USE DEF ClaimInv, ReturnAs, outside, ClaimEnded
<1>1. ASSUME NEW n \in Names, MoveEntry(n)
      PROVE  ClaimInv'
  <2> USE <1>1 DEF MoveEntry
  <2>1. ClaimTypeOK'
    BY EmptyAndStaged DEF ClaimTypeOK, Used
  <2>2. (~interfered => Undisturbed)'
    BY EmptyAndStaged DEF ClaimTypeOK, Undisturbed, Split, OnTheWayBack, Used
  <2>3. Steps'
    BY DEF ClaimTypeOK, Steps
  <2>4. ForwardLosesNothing' /\ OtherNamesSurvive'
    BY EmptyAndStaged DEF ClaimTypeOK, Steps, ForwardLosesNothing, OtherNamesSurvive
  <2>5. ReplacedIsNotPublished'
    BY DEF ClaimTypeOK, Steps, ReplacedIsNotPublished
  <2> QED
    BY <2>1, <2>2, <2>3, <2>4, <2>5
<1>2. ASSUME NEW n \in Names, MoveFails(n)
      PROVE  ClaimInv'
  <2> USE <1>2 DEF MoveFails
  <2>1. ClaimTypeOK'
    BY EmptyAndStaged DEF ClaimTypeOK, Used
  <2>2. (~interfered => Undisturbed)'
    BY EmptyAndStaged DEF ClaimTypeOK, Undisturbed, Split, OnTheWayBack, Used
  <2>3. Steps'
    BY DEF ClaimTypeOK, Steps
  <2>4. ForwardLosesNothing' /\ OtherNamesSurvive'
    BY EmptyAndStaged DEF ClaimTypeOK, Steps, ForwardLosesNothing, OtherNamesSurvive
  <2>5. ReplacedIsNotPublished'
    BY DEF ClaimTypeOK, Steps, ReplacedIsNotPublished
  <2> QED
    BY <2>1, <2>2, <2>3, <2>4, <2>5
<1>3. CASE AllMoved
  <2> USE <1>3 DEF AllMoved
  <2>1. ClaimTypeOK'
    BY EmptyAndStaged DEF ClaimTypeOK, Used
  <2>2. (~interfered => Undisturbed)'
    BY EmptyAndStaged DEF ClaimTypeOK, Undisturbed, Split, OnTheWayBack, Used
  <2>3. Steps'
    BY DEF ClaimTypeOK, Steps
  <2>4. ForwardLosesNothing' /\ OtherNamesSurvive'
    BY EmptyAndStaged DEF ClaimTypeOK, Steps, ForwardLosesNothing, OtherNamesSurvive
  <2>5. ReplacedIsNotPublished'
    BY DEF ClaimTypeOK, Steps, ReplacedIsNotPublished
  <2> QED
    BY <2>1, <2>2, <2>3, <2>4, <2>5
<1>4. CASE Reread
  <2> USE <1>4 DEF Reread
  <2>1. ClaimTypeOK'
    BY EmptyAndStaged DEF ClaimTypeOK, Used
  <2>2. (~interfered => Undisturbed)'
    BY EmptyAndStaged DEF ClaimTypeOK, Undisturbed, Split, OnTheWayBack, Used
  <2>3. Steps'
    BY DEF ClaimTypeOK, Steps
  <2>4. ForwardLosesNothing' /\ OtherNamesSurvive'
    BY EmptyAndStaged DEF ClaimTypeOK, Steps, ForwardLosesNothing, OtherNamesSurvive
  <2>5. ReplacedIsNotPublished'
    BY DEF ClaimTypeOK, Steps, ReplacedIsNotPublished
  <2> QED
    BY <2>1, <2>2, <2>3, <2>4, <2>5
<1>5. CASE Chmod
  <2> USE <1>5 DEF Chmod
  <2>1. ClaimTypeOK'
    BY EmptyAndStaged DEF ClaimTypeOK, Used
  <2>2. (~interfered => Undisturbed)'
    BY EmptyAndStaged DEF ClaimTypeOK, Undisturbed, Split, OnTheWayBack, Used
  <2>3. Steps'
    BY DEF ClaimTypeOK, Steps
  <2>4. ForwardLosesNothing' /\ OtherNamesSurvive'
    BY EmptyAndStaged DEF ClaimTypeOK, Steps, ForwardLosesNothing, OtherNamesSurvive
  <2>5. ReplacedIsNotPublished'
    BY DEF ClaimTypeOK, Steps, ReplacedIsNotPublished
  <2> QED
    BY <2>1, <2>2, <2>3, <2>4, <2>5
<1>6. CASE RemoveShell
  <2> USE <1>6 DEF RemoveShell
  <2>1. ClaimTypeOK'
    BY EmptyAndStaged DEF ClaimTypeOK, Used
  <2>2. (~interfered => Undisturbed)'
    BY EmptyAndStaged DEF ClaimTypeOK, Undisturbed, Split, OnTheWayBack, Used
  <2>3. Steps'
    BY DEF ClaimTypeOK, Steps
  <2>4. ForwardLosesNothing' /\ OtherNamesSurvive'
    BY EmptyAndStaged DEF ClaimTypeOK, Steps, ForwardLosesNothing, OtherNamesSurvive
  <2>5. ReplacedIsNotPublished'
    BY DEF ClaimTypeOK, Steps, ReplacedIsNotPublished
  <2> QED
    BY <2>1, <2>2, <2>3, <2>4, <2>5
<1>7. ASSUME NEW n \in Names, EntryStays(n)
      PROVE  ClaimInv'
  <2> USE <1>7 DEF EntryStays
  <2>1. ClaimTypeOK'
    BY EmptyAndStaged DEF ClaimTypeOK, Used
  <2>2. (~interfered => Undisturbed)'
    BY EmptyAndStaged DEF ClaimTypeOK, Undisturbed, Split, OnTheWayBack, Used
  <2>3. Steps'
    BY DEF ClaimTypeOK, Steps
  <2>4. ForwardLosesNothing' /\ OtherNamesSurvive'
    BY EmptyAndStaged DEF ClaimTypeOK, Steps, ForwardLosesNothing, OtherNamesSurvive
  <2>5. ReplacedIsNotPublished'
    BY DEF ClaimTypeOK, Steps, ReplacedIsNotPublished
  <2> QED
    BY <2>1, <2>2, <2>3, <2>4, <2>5
<1>8. CASE ShellStays
  <2> USE <1>8 DEF ShellStays
  <2>1. ClaimTypeOK'
    BY EmptyAndStaged DEF ClaimTypeOK, Used
  <2>2. (~interfered => Undisturbed)'
    BY EmptyAndStaged DEF ClaimTypeOK, Undisturbed, Split, OnTheWayBack, Used
  <2>3. Steps'
    BY DEF ClaimTypeOK, Steps
  <2>4. ForwardLosesNothing' /\ OtherNamesSurvive'
    BY EmptyAndStaged DEF ClaimTypeOK, Steps, ForwardLosesNothing, OtherNamesSurvive
  <2>5. ReplacedIsNotPublished'
    BY DEF ClaimTypeOK, Steps, ReplacedIsNotPublished
  <2> QED
    BY <2>1, <2>2, <2>3, <2>4, <2>5
<1> QED
  BY <1>1, <1>2, <1>3, <1>4, <1>5, <1>6, <1>7, <1>8

\* A failure moves them back.
LEMMA GoingBackKeeps ==
  ASSUME ClaimInv,
         \/ (\E n \in Names : MoveBack(n)) \/ (\E n \in Names : BackFails(n))
         \/ AllBack \/ Unclaim \/ Rmdir
  PROVE  ClaimInv'
<1> USE DEF ClaimInv, ReturnAs, outside, ClaimEnded
<1>1. ASSUME NEW n \in Names, MoveBack(n)
      PROVE  ClaimInv'
  <2> USE <1>1 DEF MoveBack
  <2>1. ClaimTypeOK'
    BY EmptyAndStaged DEF ClaimTypeOK, Used
  <2>2. (~interfered => Undisturbed)'
    BY EmptyAndStaged DEF ClaimTypeOK, Undisturbed, Split, OnTheWayBack, Used
  <2>3. Steps'
    BY DEF ClaimTypeOK, Steps
  <2>4. ForwardLosesNothing' /\ OtherNamesSurvive'
    BY EmptyAndStaged DEF ClaimTypeOK, Steps, ForwardLosesNothing, OtherNamesSurvive
  <2>5. ReplacedIsNotPublished'
    BY DEF ClaimTypeOK, Steps, ReplacedIsNotPublished
  <2> QED
    BY <2>1, <2>2, <2>3, <2>4, <2>5
<1>2. CASE AllBack
  <2> USE <1>2 DEF AllBack
  <2>1. ClaimTypeOK'
    BY EmptyAndStaged DEF ClaimTypeOK, Used
  <2>2. (~interfered => Undisturbed)'
    BY EmptyAndStaged DEF ClaimTypeOK, Undisturbed, Split, OnTheWayBack, Used
  <2>3. Steps'
    BY DEF ClaimTypeOK, Steps
  <2>4. ForwardLosesNothing' /\ OtherNamesSurvive'
    BY EmptyAndStaged DEF ClaimTypeOK, Steps, ForwardLosesNothing, OtherNamesSurvive
  <2>5. ReplacedIsNotPublished'
    BY DEF ClaimTypeOK, Steps, ReplacedIsNotPublished
  <2> QED
    BY <2>1, <2>2, <2>3, <2>4, <2>5
<1>3. CASE Unclaim
  <2> USE <1>3 DEF Unclaim
  <2>1. ClaimTypeOK'
    BY EmptyAndStaged DEF ClaimTypeOK, Used
  <2>2. (~interfered => Undisturbed)'
    BY EmptyAndStaged DEF ClaimTypeOK, Undisturbed, Split, OnTheWayBack, Used
  <2>3. Steps'
    BY DEF ClaimTypeOK, Steps
  <2>4. ForwardLosesNothing' /\ OtherNamesSurvive'
    BY EmptyAndStaged DEF ClaimTypeOK, Steps, ForwardLosesNothing, OtherNamesSurvive
  <2>5. ReplacedIsNotPublished'
    BY DEF ClaimTypeOK, Steps, ReplacedIsNotPublished
  <2> QED
    BY <2>1, <2>2, <2>3, <2>4, <2>5
<1>4. CASE Rmdir
  <2> USE <1>4 DEF Rmdir
  <2>1. ClaimTypeOK'
    <3>1. dir' \in {NoDir, dir} /\ dir' \in -2..MaxForeign /\ (dir' = NoDir => entries' = Empty)
      BY DEF ClaimTypeOK
    <3>4. {interfered, early, late, stuck}' \subseteq BOOLEAN
      <4>1. stuck' \in BOOLEAN
        BY DEF ClaimTypeOK
      <4> QED
        BY <4>1 DEF ClaimTypeOK
    <3>2. source' \in [AllNames -> Things] /\ entries' \in [AllNames -> Things] /\ claiming' = "failed"
      BY EmptyAndStaged DEF ClaimTypeOK
    <3>3. ~interfered' => dir' \in {NoDir, ClaimDir, StagedDir} /\ Used(entries)' \subseteq Names
      BY <3>1 DEF ClaimTypeOK, Used
    <3> QED
      BY <3>1, <3>2, <3>3, <3>4 DEF ClaimTypeOK
  <2>2. (~interfered => Undisturbed)'
    <3>1. ~interfered => Undisturbed /\ entries = Empty
      BY EmptyAndStaged DEF ClaimTypeOK, Undisturbed, Split, Empty
    <3> QED
      BY <3>1, EmptyAndStaged DEF ClaimTypeOK, Undisturbed, Split
  <2>3. Steps'
    BY DEF ClaimTypeOK, Steps
  <2>4. ForwardLosesNothing' /\ OtherNamesSurvive'
    BY EmptyAndStaged DEF ClaimTypeOK, Steps, ForwardLosesNothing, OtherNamesSurvive
  <2>5. ReplacedIsNotPublished'
    BY DEF ClaimTypeOK, Steps, ReplacedIsNotPublished
  <2> QED
    BY <2>1, <2>2, <2>3, <2>4, <2>5
<1>5. ASSUME NEW n \in Names, BackFails(n)
      PROVE  ClaimInv'
  <2> USE <1>5 DEF BackFails
  <2>1. ClaimTypeOK'
    BY EmptyAndStaged DEF ClaimTypeOK, Used
  <2>2. (~interfered => Undisturbed)'
    BY EmptyAndStaged DEF ClaimTypeOK, Undisturbed, Split, OnTheWayBack, Used
  <2>3. Steps'
    BY DEF ClaimTypeOK, Steps
  <2>4. ForwardLosesNothing' /\ OtherNamesSurvive'
    BY EmptyAndStaged DEF ClaimTypeOK, Steps, ForwardLosesNothing, OtherNamesSurvive
  <2>5. ReplacedIsNotPublished'
    BY DEF ClaimTypeOK, Steps, ReplacedIsNotPublished
  <2> QED
    BY <2>1, <2>2, <2>3, <2>4, <2>5
<1> QED
  BY <1>1, <1>2, <1>3, <1>4, <1>5

\* PublishSkillPathNoReplace, after the rename.
LEMMA ProvingKeeps ==
  ASSUME ClaimInv, Identity \/ ConfirmContent
  PROVE  ClaimInv'
<1> USE DEF ClaimInv, ReturnAs, outside, ClaimEnded
<1>1. CASE Identity
  <2> USE <1>1 DEF Identity
  <2>1. ClaimTypeOK'
    BY EmptyAndStaged DEF ClaimTypeOK, Used
  <2>2. (~interfered => Undisturbed)'
    BY EmptyAndStaged DEF ClaimTypeOK, Undisturbed, Split, OnTheWayBack, Used
  <2>3. Steps'
    BY DEF ClaimTypeOK, Steps
  <2>4. ForwardLosesNothing' /\ OtherNamesSurvive'
    BY EmptyAndStaged DEF ClaimTypeOK, Steps, ForwardLosesNothing, OtherNamesSurvive
  <2>5. ReplacedIsNotPublished'
    BY DEF ClaimTypeOK, Steps, ReplacedIsNotPublished
  <2> QED
    BY <2>1, <2>2, <2>3, <2>4, <2>5
<1>2. CASE ConfirmContent
  <2> USE <1>2 DEF ConfirmContent
  <2>1. ClaimTypeOK'
    BY EmptyAndStaged DEF ClaimTypeOK, Used
  <2>2. (~interfered => Undisturbed)'
    BY EmptyAndStaged DEF ClaimTypeOK, Undisturbed, Split, OnTheWayBack, Used
  <2>3. Steps'
    BY DEF ClaimTypeOK, Steps
  <2>4. ForwardLosesNothing' /\ OtherNamesSurvive'
    BY EmptyAndStaged DEF ClaimTypeOK, Steps, ForwardLosesNothing, OtherNamesSurvive
  <2>5. ReplacedIsNotPublished'
    BY DEF ClaimTypeOK, Steps, ReplacedIsNotPublished
  <2> QED
    BY <2>1, <2>2, <2>3, <2>4, <2>5
<1> QED
  BY <1>1, <1>2

\* What others do.
LEMMA OthersKeep ==
  ASSUME ClaimInv,
         \/ (\E n \in AllNames : WriteEntry(n)) \/ (\E n \in AllNames : DeleteEntry(n))
         \/ DeleteDir \/ MakeDir
  PROVE  ClaimInv'
<1> USE DEF ClaimInv, ReturnAs, outside, ClaimEnded
<1>1. ASSUME NEW n \in AllNames, WriteEntry(n)
      PROVE  ClaimInv'
  <2> USE <1>1 DEF WriteEntry
  <2>1. ClaimTypeOK'
    BY EmptyAndStaged DEF ClaimTypeOK, Used
  <2>2. (~interfered => Undisturbed)'
    BY EmptyAndStaged DEF ClaimTypeOK, Undisturbed, Split, OnTheWayBack, Used
  <2>3. Steps'
    BY DEF ClaimTypeOK, Steps
  <2>4. ForwardLosesNothing' /\ OtherNamesSurvive'
    BY EmptyAndStaged DEF ClaimTypeOK, Steps, ForwardLosesNothing, OtherNamesSurvive
  <2>5. ReplacedIsNotPublished'
    BY DEF ClaimTypeOK, Steps, ReplacedIsNotPublished
  <2> QED
    BY <2>1, <2>2, <2>3, <2>4, <2>5
<1>2. ASSUME NEW n \in AllNames, DeleteEntry(n)
      PROVE  ClaimInv'
  <2> USE <1>2 DEF DeleteEntry
  <2>1. ClaimTypeOK'
    BY EmptyAndStaged DEF ClaimTypeOK, Used
  <2>2. (~interfered => Undisturbed)'
    BY EmptyAndStaged DEF ClaimTypeOK, Undisturbed, Split, OnTheWayBack, Used
  <2>3. Steps'
    BY DEF ClaimTypeOK, Steps
  <2>4. ForwardLosesNothing' /\ OtherNamesSurvive'
    BY EmptyAndStaged DEF ClaimTypeOK, Steps, ForwardLosesNothing, OtherNamesSurvive
  <2>5. ReplacedIsNotPublished'
    BY DEF ClaimTypeOK, Steps, ReplacedIsNotPublished
  <2> QED
    BY <2>1, <2>2, <2>3, <2>4, <2>5
<1>3. CASE DeleteDir
  <2> USE <1>3 DEF DeleteDir
  <2>1. ClaimTypeOK'
    BY EmptyAndStaged DEF ClaimTypeOK, Used
  <2>2. (~interfered => Undisturbed)'
    BY EmptyAndStaged DEF ClaimTypeOK, Undisturbed, Split, OnTheWayBack, Used
  <2>3. Steps'
    BY DEF ClaimTypeOK, Steps
  <2>4. ForwardLosesNothing' /\ OtherNamesSurvive'
    BY EmptyAndStaged DEF ClaimTypeOK, Steps, ForwardLosesNothing, OtherNamesSurvive
  <2>5. ReplacedIsNotPublished'
    BY DEF ClaimTypeOK, Steps, ReplacedIsNotPublished
  <2> QED
    BY <2>1, <2>2, <2>3, <2>4, <2>5
<1>4. CASE MakeDir
  <2> USE <1>4 DEF MakeDir
  <2>1. ClaimTypeOK'
    BY EmptyAndStaged DEF ClaimTypeOK, Used
  <2>2. (~interfered => Undisturbed)'
    BY EmptyAndStaged DEF ClaimTypeOK, Undisturbed, Split, OnTheWayBack, Used
  <2>3. Steps'
    BY DEF ClaimTypeOK, Steps
  <2>4. ForwardLosesNothing' /\ OtherNamesSurvive'
    BY EmptyAndStaged DEF ClaimTypeOK, Steps, ForwardLosesNothing, OtherNamesSurvive
  <2>5. ReplacedIsNotPublished'
    BY DEF ClaimTypeOK, Steps, ReplacedIsNotPublished
  <2> QED
    BY <2>1, <2>2, <2>3, <2>4, <2>5
<1> QED
  BY <1>1, <1>2, <1>3, <1>4

\* It holds when a publication starts.
LEMMA ClaimStarts ==
  ASSUME ClaimInit
  PROVE  ClaimInv
<1> USE EmptyAndStaged DEF ClaimInit
<1>1. ClaimTypeOK
  <2>1. Used(entries) = {}
    BY DEF Used
  <2>2. source \in [AllNames -> Things] /\ entries \in [AllNames -> Things]
    OBVIOUS
  <2>3. claiming = "mkdir" /\ dir = NoDir /\ entries = Empty /\ foreign = 0 /\ moved = {}
    OBVIOUS
  <2>4. /\ alive = {} /\ failed \in BOOLEAN /\ claimed = NoDir
        /\ {interfered, early, late, stuck} \subseteq BOOLEAN
    OBVIOUS
  <2>5. \A n \in Names : entries[n] = Nothing
    OBVIOUS
  <2> QED
    BY <2>1, <2>2, <2>3, <2>4, <2>5 DEF ClaimTypeOK
<1>2. Undisturbed
  BY DEF Undisturbed, Split, OnTheWayBack
<1>3. /\ Steps /\ ForwardLosesNothing /\ OtherNamesSurvive /\ ReplacedIsNotPublished
  BY DEF Steps, ForwardLosesNothing, OtherNamesSurvive, ReplacedIsNotPublished
<1> QED
  BY <1>1, <1>2, <1>3 DEF ClaimInv

\* For any staged entries, whether rename replaces an empty directory or not, and whatever
\* others write, replace and remove meanwhile: nothing of theirs is lost before the way back,
\* nothing under another name ever, no other directory is taken for the claim, and a failure
\* that nobody disturbed leaves nothing behind (renameSkillDirNoReplaceFallback).
THEOREM ClaimIsSafe == ClaimSpec => []ClaimSafe
<1>1. ClaimInit => ClaimInv
  BY ClaimStarts
<1>2. ClaimInv /\ [ClaimNext]_claimVars => ClaimInv'
  <2> SUFFICES ASSUME ClaimInv, [ClaimNext]_claimVars
               PROVE  ClaimInv'
    OBVIOUS
  <2>1. CASE Mkdir \/ Identify \/ FastRename \/ RenameRefused \/ ReadClaim
    BY <2>1, ClaimingKeeps
  <2>2. CASE \/ (\E n \in Names : MoveEntry(n)) \/ (\E n \in Names : MoveFails(n))
             \/ (\E n \in Names : EntryStays(n))
             \/ AllMoved \/ Reread \/ Chmod \/ RemoveShell \/ ShellStays
    BY <2>2, MovingKeeps
  <2>3. CASE \/ (\E n \in Names : MoveBack(n)) \/ (\E n \in Names : BackFails(n))
             \/ AllBack \/ Unclaim \/ Rmdir
    BY <2>3, GoingBackKeeps
  <2>4. CASE Identity \/ ConfirmContent
    BY <2>4, ProvingKeeps
  <2>5. CASE (\E n \in AllNames : WriteEntry(n)) \/ (\E n \in AllNames : DeleteEntry(n))
             \/ DeleteDir \/ MakeDir
    BY <2>5, OthersKeep
  <2>6. CASE UNCHANGED claimVars
    BY <2>6 DEF claimVars, outside, ClaimInv, ClaimTypeOK, Used, Undisturbed, OnTheWayBack, Split,
         Steps,         ForwardLosesNothing, OtherNamesSurvive, ReplacedIsNotPublished
  <2> QED
    BY <2>1, <2>2, <2>3, <2>4, <2>5, <2>6 DEF ClaimNext
<1>3. ClaimInv => ClaimSafe
  <2> SUFFICES ASSUME ClaimInv
               PROVE  ClaimSafe
    OBVIOUS
  <2>1. FailureLeavesNothing
    <3> SUFFICES ASSUME ~interfered
                 PROVE  /\ claiming \in {"unclaim", "rmdir"} =>
                             IF stuck THEN \A n \in Names : Ours \in {source[n], entries[n]}
                                      ELSE source = Staged
                        /\ claiming = "failed" /\ ~stuck => dir = NoDir
      BY DEF FailureLeavesNothing
    <3>1. Undisturbed
      BY DEF ClaimInv
    <3>2. ASSUME claiming \in {"unclaim", "rmdir"}, stuck
          PROVE  \A n \in Names : Ours \in {source[n], entries[n]}
      BY <3>1, <3>2 DEF Undisturbed, OnTheWayBack, Split
    <3>3. ASSUME claiming \in {"unclaim", "rmdir"}, ~stuck
          PROVE  source = Staged
      BY <3>1, <3>3 DEF Undisturbed, Split, Staged, ClaimInv, ClaimTypeOK
    <3> QED
      BY <3>1, <3>2, <3>3 DEF Undisturbed
  <2> QED
    BY <2>1 DEF ClaimSafe, ClaimInv
<1> QED
  BY <1>1, <1>2, <1>3, PTL DEF ClaimSpec
=============================================================================
