---------------------------- MODULE OwnerProofs ----------------------------
(***************************************************************************)
(* What the owner keeps and is told: proofs about LaunchBoard (first half) *)
(* and about PhoneEvidence with the PrivateAdapters it runs beside (second *)
(* half).  The two components share nothing but this module.               *)
(*                                                                         *)
(* LaunchBoard: BoardInv says what every copy of the board's state has in  *)
(* common, the stored one, the one each tab works with and those in the    *)
(* hands of a request, and how they are related.  PhoneEvidence: PhoneInv  *)
(* accounts for every copy in the inbox and says what each script knows of *)
(* the inbox it has looked at.                                             *)
(***************************************************************************)
EXTENDS LaunchBoard, PhoneEvidence, FiniteSetTheorems, SequenceTheorems, TLAPS

Kinds == {"own", "start", "progress"}

Task == [id : Ids, project : Ids \cup {0}, of : Launches \cup {None}, kind : Kinds]

LaunchRec == [project : Ids \cup {0}, tasks : Ids \cup {0}, progress : Ids \cup {0},
              sent : BOOLEAN]

Board == [launches : UNION {[D -> LaunchRec] : D \in SUBSET Launches},
          projects : SUBSET Ids, tasks : SUBSET Task]

Edits == [open : BOOLEAN, id : Ids \cup {0}, projects : SUBSET Ids, stale : BOOLEAN]

Sends == [launch : Launches \cup {None}, attached : BOOLEAN]

(* A state in itself: ids are given once; a start task and a follow-up are   *)
(* the ones their launch names, so that there is no second one.              *)
SoundBoard(b, m) ==
    /\ b \in Board
    /\ \A x \in b.tasks : x.id <= m
    /\ \A x, y \in b.tasks : x.id = y.id => x = y
    /\ \A x \in b.tasks : x.kind = "start" =>
         x.of \in DOMAIN b.launches /\ b.launches[x.of].tasks = x.id
    /\ \A x \in b.tasks : x.kind = "progress" =>
         x.of \in DOMAIN b.launches /\ b.launches[x.of].progress = x.id
    /\ \A l \in DOMAIN b.launches, x \in b.tasks :
         x.id = b.launches[l].progress => x.kind = "progress" /\ x.of = l
    /\ \A l \in DOMAIN b.launches : b.launches[l].progress <= m

Resolved(b, s) ==
    \A x \in b.tasks :
        \/ x.project \in b.projects \cup {0}
        \/ \E l \in DOMAIN b.launches : b.launches[l].project = x.project
        \/ x.id \in s

GoodBoard(b, m, s) == SoundBoard(b, m) /\ Resolved(b, s)

(* nb has the launches of b and their marks.                                 *)
Keeps(b, nb) ==
    \A l \in DOMAIN b.launches :
        /\ l \in DOMAIN nb.launches
        /\ b.launches[l].sent => nb.launches[l].sent

BoardTypes ==
    /\ made \in Ids \cup {0}
    /\ stray \subseteq Ids
    /\ current \subseteq Tabs
    /\ held \subseteq Launches
    /\ steps \in Nat /\ faults \in Nat
    /\ changing \in [Tabs -> {"no", "import", "reset"}]
    /\ state \in [Tabs -> Board]
    /\ editor \in [Tabs -> Edits]
    /\ sending \in [Tabs -> Sends]

(* An inspector offers projects that are there, unless the state has been    *)
(* replaced behind it; a launch that is sent and attached is part of it.     *)
PageFits(t) ==
    /\ editor[t].open /\ ~editor[t].stale => editor[t].projects \subseteq state[t].projects
    /\ sending[t].attached => sending[t].launch \in DOMAIN state[t].launches
    /\ sending[t] # NoSend => sending[t].launch \in Launches

BoardInv ==
    /\ BoardTypes
    /\ GoodBoard(store, made, stray)
    /\ GoodBoard(file, made, stray)
    /\ \A t \in Tabs : GoodBoard(state[t], made, stray) /\ PageFits(t)
    /\ \A t \in current : Keeps(store, state[t])

-----------------------------------------------------------------------------
(* What SetLaunch does to a board.                                           *)
LEMMA SetLaunchFacts ==
    ASSUME NEW b \in Board, NEW l \in Launches, NEW r \in LaunchRec
    PROVE  /\ SetLaunch(b, l, r) \in Board
           /\ DOMAIN SetLaunch(b, l, r).launches = DOMAIN b.launches \cup {l}
           /\ SetLaunch(b, l, r).launches[l] = r
           /\ \A x \in DOMAIN b.launches \ {l} :
                SetLaunch(b, l, r).launches[x] = b.launches[x]
           /\ SetLaunch(b, l, r).projects = b.projects
           /\ SetLaunch(b, l, r).tasks = b.tasks
<1> DEFINE D == DOMAIN b.launches \cup {l}
           f == [x \in D |-> IF x = l THEN r ELSE b.launches[x]]
<1>1. PICK E \in SUBSET Launches : b.launches \in [E -> LaunchRec]
  BY DEF Board
<1>2. D \in SUBSET Launches
  BY <1>1
<1>3. \A x \in D : (IF x = l THEN r ELSE b.launches[x]) \in LaunchRec
  BY <1>1
<1>4. f \in [D -> LaunchRec]
  BY <1>3
<1>5. f \in UNION {[X -> LaunchRec] : X \in SUBSET Launches}
  BY <1>2, <1>4
<1>6. /\ DOMAIN f = D /\ f[l] = r
      /\ \A x \in DOMAIN b.launches \ {l} : f[x] = b.launches[x]
  OBVIOUS
<1>7. SetLaunch(b, l, r) = [b EXCEPT !.launches = f]
  BY DEF SetLaunch
<1> HIDE DEF f
<1>8. /\ [b EXCEPT !.launches = f] \in Board
      /\ [b EXCEPT !.launches = f].launches = f
      /\ [b EXCEPT !.launches = f].projects = b.projects
      /\ [b EXCEPT !.launches = f].tasks = b.tasks
  BY <1>5 DEF Board
<1> QED
  BY <1>6, <1>7, <1>8

LEMMA BoardFacts ==
    ASSUME NEW b \in Board
    PROVE  /\ DOMAIN b.launches \subseteq Launches
           /\ \A l \in DOMAIN b.launches : b.launches[l] \in LaunchRec
           /\ b.projects \subseteq Ids
           /\ b.tasks \subseteq Task
<1>1. PICK E \in SUBSET Launches : b.launches \in [E -> LaunchRec]
  BY DEF Board
<1> QED
  BY <1>1 DEF Board

LEMMA GoodGrows ==
    ASSUME NEW b, NEW m \in Nat, NEW n \in Nat, m <= n, NEW s, NEW z, s \subseteq z,
           GoodBoard(b, m, s)
    PROVE  GoodBoard(b, n, z)
<1>1. b \in Board
  BY DEF GoodBoard, SoundBoard
<1>2. \A x \in b.tasks : x.id \in Nat
  BY <1>1, BoardFacts, BoardAssumption DEF Task, Ids
<1>3. \A l \in DOMAIN b.launches : b.launches[l].progress \in Nat
  BY <1>1, BoardFacts, BoardAssumption DEF LaunchRec, Ids
<1>4. \A x \in b.tasks : x.id <= n
  BY <1>2 DEF GoodBoard, SoundBoard
<1>5. \A l \in DOMAIN b.launches : b.launches[l].progress <= n
  BY <1>3 DEF GoodBoard, SoundBoard
<1>6. SoundBoard(b, n)
  BY <1>4, <1>5 DEF GoodBoard, SoundBoard
<1>7. Resolved(b, z)
  BY DEF GoodBoard, Resolved
<1> QED
  BY <1>6, <1>7 DEF GoodBoard

LEMMA KeepsItself ==
    ASSUME NEW b
    PROVE  Keeps(b, b)
  BY DEF Keeps

LEMMA KeepsAll ==
    ASSUME NEW b, NEW c, NEW d, Keeps(b, c), Keeps(c, d)
    PROVE  Keeps(b, d)
  BY DEF Keeps

(* Writing a board that is good and has all the page had.                    *)
LEMMA PersistGood ==
    ASSUME BoardInv, NEW t \in Tabs, NEW nb, Persist(t, nb),
           GoodBoard(nb, made', stray'), Keeps(state[t], nb),
           made' \in Ids \cup {0}, made <= made', stray \subseteq stray', file' = file
    PROVE  /\ state' \in [Tabs -> Board]
           /\ state'[t] = nb /\ \A u \in Tabs \ {t} : state'[u] = state[u]
           /\ current' \subseteq Tabs /\ faults' \in Nat
           /\ GoodBoard(store', made', stray') /\ GoodBoard(file', made', stray')
           /\ \A u \in Tabs : GoodBoard(state'[u], made', stray')
           /\ \A u \in current' : Keeps(store', state'[u])
<1>1. made \in Nat /\ made' \in Nat
  BY BoardAssumption DEF BoardInv, BoardTypes, Ids
<1>2. \A b : GoodBoard(b, made, stray) => GoodBoard(b, made', stray')
  BY <1>1, GoodGrows
<1>3. nb \in Board
  BY DEF GoodBoard, SoundBoard
<1>4. /\ state' \in [Tabs -> Board]
      /\ state'[t] = nb /\ \A u \in Tabs \ {t} : state'[u] = state[u]
  BY <1>3 DEF BoardInv, BoardTypes, Persist
<1>5. store' \in {store, nb} /\ faults' \in Nat
  BY DEF BoardInv, BoardTypes, Persist
<1>6. GoodBoard(store', made', stray') /\ GoodBoard(file', made', stray')
  BY <1>2, <1>5 DEF BoardInv
<1>7. \A u \in Tabs : GoodBoard(state'[u], made', stray')
  <2> SUFFICES ASSUME NEW u \in Tabs PROVE GoodBoard(state'[u], made', stray')
    OBVIOUS
  <2> QED
    BY <1>2, <1>4 DEF BoardInv
<1>8. current' \subseteq Tabs
  BY DEF BoardInv, BoardTypes, Persist
<1>9. ASSUME NEW u \in current' PROVE Keeps(store', state'[u])
  <2>1. u \in Tabs
    BY <1>8, <1>9
  <2>2. CASE store' = nb /\ nb # store /\ current' = current \cap {t}
    <3>1. u = t
      BY <2>2, <1>9
    <3> QED
      BY <2>2, <3>1, <1>4, KeepsItself
  <2>3. CASE store' = store /\ current' = current
    <3>1. Keeps(store, state[u])
      BY <2>3, <1>9 DEF BoardInv
    <3>2. CASE u = t
      BY <2>3, <3>1, <3>2, <1>4, KeepsAll
    <3>3. CASE u # t
      BY <2>3, <3>1, <3>3, <1>4, <2>1
    <3> QED
      BY <3>2, <3>3
  <2> QED
    BY <2>2, <2>3 DEF Persist
<1> QED
  BY <1>4, <1>5, <1>6, <1>7, <1>8, <1>9

-----------------------------------------------------------------------------
(* What each change does to a good board; m and n are the ids given before   *)
(* and after it.                                                             *)

(* A new launch, or the mark of one.                                         *)
LEMMA LaunchesOnly ==
    ASSUME NEW b \in Board, NEW nb \in Board, NEW m \in Nat, NEW s, GoodBoard(b, m, s),
           nb.tasks = b.tasks, nb.projects = b.projects,
           DOMAIN b.launches \subseteq DOMAIN nb.launches,
           \A x \in DOMAIN b.launches :
             /\ nb.launches[x].project = b.launches[x].project
             /\ nb.launches[x].tasks = b.launches[x].tasks
             /\ nb.launches[x].progress = b.launches[x].progress,
           \A x \in DOMAIN nb.launches \ DOMAIN b.launches : nb.launches[x].progress = 0
    PROVE  GoodBoard(nb, m, s)
<1>1. \A x \in b.tasks : x.id \in Nat \ {0}
  BY BoardFacts, BoardAssumption DEF Task, Ids
<1>2. SoundBoard(nb, m)
  <2>1. \A x \in DOMAIN nb.launches, y \in nb.tasks :
          y.id = nb.launches[x].progress => y.kind = "progress" /\ y.of = x
    <3> SUFFICES ASSUME NEW x \in DOMAIN nb.launches, NEW y \in nb.tasks,
                        y.id = nb.launches[x].progress
                 PROVE  y.kind = "progress" /\ y.of = x
      OBVIOUS
    <3>1. x \in DOMAIN b.launches
      BY <1>1
    <3> QED
      BY <3>1 DEF GoodBoard, SoundBoard
  <2>2. \A x \in DOMAIN nb.launches : nb.launches[x].progress <= m
    <3> SUFFICES ASSUME NEW x \in DOMAIN nb.launches
                 PROVE  nb.launches[x].progress <= m
      OBVIOUS
    <3>1. CASE x \in DOMAIN b.launches
      BY <3>1 DEF GoodBoard, SoundBoard
    <3>2. CASE x \notin DOMAIN b.launches
      BY <3>2
    <3> QED
      BY <3>1, <3>2
  <2> QED
    BY <2>1, <2>2 DEF GoodBoard, SoundBoard
<1>3. Resolved(nb, s)
  BY DEF GoodBoard, Resolved
<1> QED
  BY <1>2, <1>3 DEF GoodBoard

(* The tasks of a start, or a task that stands alone.                        *)
LEMMA TaskAdded ==
    ASSUME NEW b \in Board, NEW nb \in Board, NEW m \in Nat, NEW n \in Nat, m <= n, NEW s,
           GoodBoard(b, m, s), NEW y \in Task, m < y.id, y.id <= n,
           nb.tasks = b.tasks \cup {y}, b.projects \subseteq nb.projects,
           DOMAIN nb.launches = DOMAIN b.launches,
           \A x \in DOMAIN b.launches :
             /\ b.launches[x].project \in {0, nb.launches[x].project}
             /\ b.launches[x].tasks \in {0, nb.launches[x].tasks}
             /\ nb.launches[x].progress = b.launches[x].progress,
           y.kind # "progress",
           y.kind = "start" => /\ y.of \in DOMAIN b.launches
                               /\ nb.launches[y.of].tasks = y.id,
           \/ y.project \in nb.projects \cup {0}
           \/ \E x \in DOMAIN nb.launches : nb.launches[x].project = y.project
           \/ y.id \in s
    PROVE  GoodBoard(nb, n, s)
<1>1. /\ \A x \in b.tasks : x.id \in Nat \ {0} /\ x.id <= m
      /\ y.id \in Nat
  BY BoardFacts, BoardAssumption DEF Task, Ids, GoodBoard, SoundBoard
<1>2. \A x \in DOMAIN b.launches : b.launches[x].progress \in Nat /\ b.launches[x].progress <= m
  BY BoardFacts, BoardAssumption DEF LaunchRec, Ids, GoodBoard, SoundBoard
<1>3. SoundBoard(nb, n)
  <2>1. \A x \in nb.tasks : x.id <= n
    BY <1>1
  <2>2. \A x, z \in nb.tasks : x.id = z.id => x = z
    BY <1>1 DEF GoodBoard, SoundBoard
  <2>3. \A x \in nb.tasks : x.kind = "start" =>
          x.of \in DOMAIN nb.launches /\ nb.launches[x.of].tasks = x.id
    <3> SUFFICES ASSUME NEW x \in nb.tasks, x.kind = "start"
                 PROVE  x.of \in DOMAIN nb.launches /\ nb.launches[x.of].tasks = x.id
      OBVIOUS
    <3>1. CASE x = y
      BY <3>1
    <3>2. CASE x \in b.tasks
      <4>1. x.of \in DOMAIN b.launches /\ b.launches[x.of].tasks = x.id
        BY <3>2 DEF GoodBoard, SoundBoard
      <4>2. x.id # 0
        BY <1>1, <3>2
      <4> QED
        BY <4>1, <4>2
    <3> QED
      BY <3>1, <3>2
  <2>4. \A x \in nb.tasks : x.kind = "progress" =>
          x.of \in DOMAIN nb.launches /\ nb.launches[x.of].progress = x.id
    BY DEF GoodBoard, SoundBoard
  <2>5. \A l \in DOMAIN nb.launches, x \in nb.tasks :
          x.id = nb.launches[l].progress => x.kind = "progress" /\ x.of = l
    <3> SUFFICES ASSUME NEW l \in DOMAIN nb.launches, NEW x \in nb.tasks,
                        x.id = nb.launches[l].progress
                 PROVE  x.kind = "progress" /\ x.of = l
      OBVIOUS
    <3>1. x # y
      BY <1>1, <1>2
    <3> QED
      BY <3>1 DEF GoodBoard, SoundBoard
  <2>6. \A l \in DOMAIN nb.launches : nb.launches[l].progress <= n
    BY <1>2
  <2> QED
    BY <2>1, <2>2, <2>3, <2>4, <2>5, <2>6 DEF SoundBoard
<1>4. Resolved(nb, s)
  <2> SUFFICES ASSUME NEW x \in b.tasks
               PROVE  \/ x.project \in nb.projects \cup {0}
                      \/ \E l \in DOMAIN nb.launches : nb.launches[l].project = x.project
                      \/ x.id \in s
    BY DEF Resolved
  <2>1. CASE x.project \in b.projects \cup {0} \/ x.id \in s
    BY <2>1
  <2>2. CASE x.project # 0 /\ \E l \in DOMAIN b.launches : b.launches[l].project = x.project
    BY <2>2
  <2> QED
    BY <2>1, <2>2 DEF GoodBoard, Resolved
<1> QED
  BY <1>3, <1>4 DEF GoodBoard

(* The follow-up of a launch, which takes the place of the one it has.       *)
LEMMA FollowUpSet ==
    ASSUME NEW b \in Board, NEW nb \in Board, NEW m \in Nat, NEW n \in Nat, m <= n, NEW s,
           GoodBoard(b, m, s), NEW l \in DOMAIN b.launches, NEW y \in Task,
           y.kind = "progress", y.of = l, y.project \in nb.projects,
           nb.tasks = (b.tasks \ WithId(b, y.id)) \cup {y},
           \/ m < y.id /\ FollowUps(b, l) = {}
           \/ \E x \in FollowUps(b, l) : x.id = y.id,
           y.id <= n,
           b.projects \subseteq nb.projects,
           DOMAIN nb.launches = DOMAIN b.launches,
           nb.launches[l].progress = y.id,
           \A x \in DOMAIN b.launches \ {l} :
             nb.launches[x].progress = b.launches[x].progress,
           \A x \in DOMAIN b.launches :
             /\ b.launches[x].project \in {0, nb.launches[x].project}
             /\ nb.launches[x].tasks = b.launches[x].tasks
    PROVE  GoodBoard(nb, n, s)
<1>1. /\ \A x \in b.tasks : x.id \in Nat \ {0} /\ x.id <= m
      /\ y.id \in Nat
  BY BoardFacts, BoardAssumption DEF Task, Ids, GoodBoard, SoundBoard
<1>2. \A x \in DOMAIN b.launches : b.launches[x].progress \in Nat /\ b.launches[x].progress <= m
  BY BoardFacts, BoardAssumption DEF LaunchRec, Ids, GoodBoard, SoundBoard
<1>3. \A x \in nb.tasks \ {y} : x \in b.tasks /\ x.id # y.id
  BY DEF WithId
<1>4. \A x \in FollowUps(b, l) : x \in b.tasks /\ x.kind = "progress" /\ x.of = l
                                 /\ b.launches[l].progress = x.id
  <2> SUFFICES ASSUME NEW x \in FollowUps(b, l)
               PROVE  /\ x \in b.tasks /\ x.kind = "progress" /\ x.of = l
                      /\ b.launches[l].progress = x.id
    OBVIOUS
  <2>1. CASE WithId(b, b.launches[l].progress) # {}
    BY <2>1 DEF FollowUps, WithId, GoodBoard, SoundBoard
  <2>2. CASE WithId(b, b.launches[l].progress) = {}
    BY <2>2 DEF FollowUps, GoodBoard, SoundBoard
  <2> QED
    BY <2>1, <2>2
<1>5. \A x \in nb.tasks \ {y} : ~(x.kind = "progress" /\ x.of = l)
  <2> SUFFICES ASSUME NEW x \in nb.tasks \ {y}, x.kind = "progress", x.of = l
               PROVE  FALSE
    OBVIOUS
  <2>1. x \in b.tasks /\ x.id # y.id /\ b.launches[l].progress = x.id
    BY <1>3 DEF GoodBoard, SoundBoard
  <2>2. x \in WithId(b, b.launches[l].progress)
    BY <2>1 DEF WithId
  <2>3. x \in FollowUps(b, l)
    BY <2>2 DEF FollowUps
  <2> QED
    BY <2>1, <2>3, <1>4
<1>6. \A x \in DOMAIN b.launches \ {l} : b.launches[x].progress # y.id
  <2>1. CASE m < y.id
    BY <2>1, <1>1, <1>2
  <2>2. CASE \E x \in FollowUps(b, l) : x.id = y.id
    BY <2>2, <1>4 DEF GoodBoard, SoundBoard
  <2> QED
    BY <2>1, <2>2
<1>7. SoundBoard(nb, n)
  <2>1. \A x \in nb.tasks : x.id <= n
    BY <1>1, <1>3
  <2>2. \A x, z \in nb.tasks : x.id = z.id => x = z
    BY <1>3 DEF GoodBoard, SoundBoard
  <2>3. \A x \in nb.tasks : x.kind = "start" =>
          x.of \in DOMAIN nb.launches /\ nb.launches[x.of].tasks = x.id
    BY <1>3 DEF GoodBoard, SoundBoard
  <2>4. \A x \in nb.tasks : x.kind = "progress" =>
          x.of \in DOMAIN nb.launches /\ nb.launches[x.of].progress = x.id
    <3> SUFFICES ASSUME NEW x \in nb.tasks, x.kind = "progress"
                 PROVE  x.of \in DOMAIN nb.launches /\ nb.launches[x.of].progress = x.id
      OBVIOUS
    <3>1. CASE x = y
      BY <3>1
    <3>2. CASE x # y
      <4>1. x \in b.tasks /\ x.of # l
        BY <3>2, <1>3, <1>5
      <4>2. x.of \in DOMAIN b.launches /\ b.launches[x.of].progress = x.id
        BY <4>1 DEF GoodBoard, SoundBoard
      <4> QED
        BY <4>1, <4>2
    <3> QED
      BY <3>1, <3>2
  <2>5. \A k \in DOMAIN nb.launches, x \in nb.tasks :
          x.id = nb.launches[k].progress => x.kind = "progress" /\ x.of = k
    <3> SUFFICES ASSUME NEW k \in DOMAIN nb.launches, NEW x \in nb.tasks,
                        x.id = nb.launches[k].progress
                 PROVE  x.kind = "progress" /\ x.of = k
      OBVIOUS
    <3>1. CASE k = l
      <4>1. x = y
        BY <3>1, <1>3
      <4> QED
        BY <3>1, <4>1
    <3>2. CASE k # l
      <4>1. x # y
        BY <3>2, <1>6
      <4> QED
        BY <3>2, <4>1, <1>3 DEF GoodBoard, SoundBoard
    <3> QED
      BY <3>1, <3>2
  <2>6. \A x \in DOMAIN nb.launches : nb.launches[x].progress <= n
    <3> SUFFICES ASSUME NEW x \in DOMAIN nb.launches
                 PROVE  nb.launches[x].progress <= n
      OBVIOUS
    <3>1. CASE x = l
      BY <3>1
    <3>2. CASE x # l
      BY <3>2, <1>2
    <3> QED
      BY <3>1, <3>2
  <2> QED
    BY <2>1, <2>2, <2>3, <2>4, <2>5, <2>6 DEF SoundBoard
<1>8. Resolved(nb, s)
  <2> SUFFICES ASSUME NEW x \in nb.tasks
               PROVE  \/ x.project \in nb.projects \cup {0}
                      \/ \E k \in DOMAIN nb.launches : nb.launches[k].project = x.project
                      \/ x.id \in s
    BY DEF Resolved
  <2>1. CASE x = y
    BY <2>1
  <2>2. CASE x # y /\ (x.project \in b.projects \cup {0} \/ x.id \in s)
    BY <2>2
  <2>3. CASE x # y /\ x.project # 0 /\ \E k \in DOMAIN b.launches : b.launches[k].project = x.project
    BY <2>3
  <2> QED
    BY <2>1, <2>2, <2>3, <1>3 DEF GoodBoard, Resolved
<1> QED
  BY <1>7, <1>8 DEF GoodBoard

(* Tasks are changed, by f, in nothing but their project, or taken away, and *)
(* so are projects.                                                          *)
LEMMA TasksMoved ==
    ASSUME NEW b \in Board, NEW nb \in Board, NEW m \in Nat, NEW s, NEW z, s \subseteq z,
           GoodBoard(b, m, s),
           NEW f \in [b.tasks -> Task], \A x \in b.tasks :
             f[x].id = x.id /\ f[x].kind = x.kind /\ f[x].of = x.of,
           nb.tasks \subseteq {f[x] : x \in b.tasks}, nb.launches = b.launches,
           \A x \in b.tasks : \/ f[x].project \in nb.projects \cup {0}
                              \/ f[x].id \in z
                              \/ f[x].project = x.project /\ x.project \notin b.projects
    PROVE  GoodBoard(nb, m, z)
<1>1. \A y \in nb.tasks : \E x \in b.tasks : y = f[x]
  OBVIOUS
<1>2. SoundBoard(nb, m)
  <2>1. \A x \in nb.tasks : x.id <= m
    BY <1>1 DEF GoodBoard, SoundBoard
  <2>2. \A x, y \in nb.tasks : x.id = y.id => x = y
    <3> SUFFICES ASSUME NEW x \in nb.tasks, NEW y \in nb.tasks, x.id = y.id
                 PROVE  x = y
      OBVIOUS
    <3>1. PICK v \in b.tasks : x = f[v]
      BY <1>1
    <3>2. PICK w \in b.tasks : y = f[w]
      BY <1>1
    <3>3. v.id = w.id
      BY <3>1, <3>2
    <3> QED
      BY <3>1, <3>2, <3>3 DEF GoodBoard, SoundBoard
  <2>3. \A x \in nb.tasks : x.kind = "start" =>
          x.of \in DOMAIN nb.launches /\ nb.launches[x.of].tasks = x.id
    BY <1>1 DEF GoodBoard, SoundBoard
  <2>4. \A x \in nb.tasks : x.kind = "progress" =>
          x.of \in DOMAIN nb.launches /\ nb.launches[x.of].progress = x.id
    BY <1>1 DEF GoodBoard, SoundBoard
  <2>5. \A l \in DOMAIN nb.launches, x \in nb.tasks :
          x.id = nb.launches[l].progress => x.kind = "progress" /\ x.of = l
    BY <1>1 DEF GoodBoard, SoundBoard
  <2> QED
    BY <2>1, <2>2, <2>3, <2>4, <2>5 DEF GoodBoard, SoundBoard
<1>3. Resolved(nb, z)
  <2> SUFFICES ASSUME NEW y \in nb.tasks
               PROVE  \/ y.project \in nb.projects \cup {0}
                      \/ \E k \in DOMAIN nb.launches : nb.launches[k].project = y.project
                      \/ y.id \in z
    BY DEF Resolved
  <2>1. PICK x \in b.tasks : y = f[x]
    BY <1>1
  <2>2. CASE f[x].project = x.project /\ x.project \notin b.projects
    <3>1. \/ x.project \in b.projects \cup {0}
          \/ \E l \in DOMAIN b.launches : b.launches[l].project = x.project
          \/ x.id \in s
      BY DEF GoodBoard, Resolved
    <3> QED
      BY <2>1, <2>2, <3>1
  <2> QED
    BY <2>1, <2>2
<1> QED
  BY <1>2, <1>3 DEF GoodBoard

-----------------------------------------------------------------------------
(* A change of the page t whose board is good preserves the invariant.       *)
LEMMA PersistInv ==
    ASSUME BoardInv, NEW t \in Tabs, NEW nb, Persist(t, nb),
           GoodBoard(nb, made', stray'), Keeps(state[t], nb),
           made' \in Ids \cup {0}, made <= made', stray \subseteq stray', stray' \subseteq Ids,
           file' = file, held' \subseteq Launches, steps' \in Nat,
           editor' \in [Tabs -> Edits], sending' \in [Tabs -> Sends],
           changing' \in [Tabs -> {"no", "import", "reset"}],
           \A u \in Tabs \ {t} : editor'[u] = editor[u] /\ sending'[u] = sending[u],
           editor'[t].open /\ ~editor'[t].stale => editor'[t].projects \subseteq nb.projects,
           sending'[t].attached => sending'[t].launch \in DOMAIN nb.launches,
           sending'[t] # NoSend => sending'[t].launch \in Launches
    PROVE  BoardInv'
<1>1. /\ state' \in [Tabs -> Board]
      /\ state'[t] = nb /\ \A u \in Tabs \ {t} : state'[u] = state[u]
      /\ current' \subseteq Tabs /\ faults' \in Nat
      /\ GoodBoard(store', made', stray') /\ GoodBoard(file', made', stray')
      /\ \A u \in Tabs : GoodBoard(state'[u], made', stray')
      /\ \A u \in current' : Keeps(store', state'[u])
  BY PersistGood
<1>2. BoardTypes'
  BY <1>1 DEF BoardTypes
<1>3. ASSUME NEW u \in Tabs PROVE PageFits(u)'
  <2>1. CASE u = t
    BY <1>1, <2>1 DEF PageFits, NoSend
  <2>2. CASE u # t
    <3>1. PageFits(u)
      BY DEF BoardInv
    <3> QED
      BY <1>1, <2>2, <3>1 DEF PageFits, NoSend
  <2> QED
    BY <2>1, <2>2
<1> QED
  BY <1>1, <1>2, <1>3 DEF BoardInv

(* The page shows what it did.                                               *)
LEMMA PersistPages ==
    ASSUME BoardInv, NEW t \in Tabs, NEW nb, Persist(t, nb),
           GoodBoard(nb, made', stray'), Keeps(state[t], nb),
           state[t].projects \subseteq nb.projects,
           made' \in Ids \cup {0}, made <= made', stray' = stray,
           steps' \in Nat, changing' \in [Tabs -> {"no", "import", "reset"}],
           UNCHANGED <<editor, sending, world>>
    PROVE  BoardInv'
<1>1. PageFits(t) /\ BoardTypes
  BY DEF BoardInv
<1>2. /\ editor'[t].open /\ ~editor'[t].stale => editor'[t].projects \subseteq nb.projects
      /\ sending'[t].attached => sending'[t].launch \in DOMAIN nb.launches
      /\ sending'[t] # NoSend => sending'[t].launch \in Launches
  BY <1>1 DEF PageFits, Keeps
<1> QED
  BY <1>1, <1>2, PersistInv DEF BoardTypes, world

(* The inspector is closed.                                                  *)
LEMMA PersistClosed ==
    ASSUME BoardInv, NEW t \in Tabs, NEW nb, Persist(t, nb),
           GoodBoard(nb, made', stray'), Keeps(state[t], nb),
           made' \in Ids \cup {0}, made <= made', stray \subseteq stray', stray' \subseteq Ids,
           steps' \in Nat, editor' = [editor EXCEPT ![t] = NoEdit],
           UNCHANGED <<sending, changing, world>>
    PROVE  BoardInv'
<1>1. PageFits(t) /\ BoardTypes
  BY DEF BoardInv
<1>2. NoEdit \in Edits /\ NoEdit.open = FALSE
  BY BoardAssumption DEF NoEdit, Edits, Ids
<1>3. editor' \in [Tabs -> Edits] /\ editor'[t].open = FALSE
  BY <1>1, <1>2 DEF BoardTypes
<1>4. \A u \in Tabs \ {t} : editor'[u] = editor[u]
  BY <1>1 DEF BoardTypes
<1>5. /\ sending'[t].attached => sending'[t].launch \in DOMAIN nb.launches
      /\ sending'[t] # NoSend => sending'[t].launch \in Launches
  BY <1>1 DEF PageFits, Keeps
<1> QED
  BY <1>1, <1>3, <1>4, <1>5, PersistInv DEF BoardTypes, world

LEMMA StateFacts ==
    ASSUME BoardInv, NEW t \in Tabs
    PROVE  /\ state[t] \in Board /\ GoodBoard(state[t], made, stray) /\ PageFits(t)
           /\ made \in Nat /\ MaxIds \in Nat /\ steps \in Nat
           /\ \A n \in Nat : n # 0 /\ n <= MaxIds => n \in Ids
  BY BoardAssumption DEF BoardInv, BoardTypes, Ids

LEMMA SubmitInv ==
    ASSUME BoardInv, NEW t \in Tabs, NEW l \in Launches, Submit(t, l)
    PROVE  BoardInv'
<1> DEFINE b == state[t]
           nb == SetLaunch(b, l, Draft)
<1>1. b \in Board /\ GoodBoard(b, made, stray) /\ made \in Nat /\ steps \in Nat
  BY StateFacts
<1>2. Draft \in LaunchRec /\ Draft.progress = 0
  BY BoardAssumption DEF Draft, LaunchRec, Ids
<1>3. l \notin DOMAIN b.launches
  BY DEF Submit
<1>4. /\ nb \in Board
      /\ DOMAIN nb.launches = DOMAIN b.launches \cup {l}
      /\ nb.launches[l] = Draft
      /\ \A x \in DOMAIN b.launches \ {l} : nb.launches[x] = b.launches[x]
      /\ nb.projects = b.projects
      /\ nb.tasks = b.tasks
  BY <1>1, <1>2, SetLaunchFacts
<1>p. Persist(t, nb)
  BY DEF Submit
<1>q. made' = made /\ stray' = stray /\ steps' \in Nat /\ made' \in Ids \cup {0}
      /\ UNCHANGED <<pages, world>>
  BY <1>1 DEF Submit, Change, BoardInv, BoardTypes
<1> HIDE DEF nb
<1>5. GoodBoard(nb, made, stray)
  BY <1>1, <1>2, <1>3, <1>4, LaunchesOnly
<1>6. Keeps(b, nb)
  BY <1>3, <1>4 DEF Keeps
<1>7. changing' \in [Tabs -> {"no", "import", "reset"}] /\ made <= made'
  BY <1>1, <1>q DEF BoardInv, BoardTypes, pages
<1> QED
  BY <1>p, <1>q, <1>4, <1>5, <1>6, <1>7, PersistPages DEF pages

LEMMA TouchInv ==
    ASSUME BoardInv, NEW t \in Tabs, Persist(t, state[t]), made' = made, stray' = stray,
           steps' \in Nat, changing' \in [Tabs -> {"no", "import", "reset"}],
           UNCHANGED <<editor, sending, world>>
    PROVE  BoardInv'
<1>1. /\ GoodBoard(state[t], made, stray)
      /\ made' \in Ids \cup {0} /\ made <= made'
  BY StateFacts DEF BoardInv, BoardTypes
<1> QED
  BY <1>1, KeepsItself, PersistPages

LEMMA StartInv ==
    ASSUME BoardInv, NEW t \in Tabs, NEW l \in Launches, Start(t, l)
    PROVE  BoardInv'
<1> DEFINE b == state[t]
           own == b.launches[l].project
           p == IF own = 0 THEN made + 1 ELSE own
           k == IF own = 0 THEN made + 2 ELSE made + 1
           y == [id |-> k, project |-> p, of |-> l, kind |-> "start"]
           P == IF own = 0 THEN b.projects \cup {p} ELSE b.projects
           T == b.tasks \cup {y}
           next == [b EXCEPT !.projects = P, !.tasks = T]
           r == [b.launches[l] EXCEPT !.project = p, !.tasks = k]
           nb == SetLaunch(next, l, r)
<1>1. /\ b \in Board /\ GoodBoard(b, made, stray) /\ made \in Nat /\ steps \in Nat
      /\ MaxIds \in Nat
      /\ \A n \in Nat : n # 0 /\ n <= MaxIds => n \in Ids
  BY StateFacts
<1>2. l \in DOMAIN b.launches /\ b.launches[l].tasks = 0 /\ k <= MaxIds
  BY DEF Start
<1>3. b.launches[l] \in LaunchRec /\ b.projects \in SUBSET Ids /\ b.tasks \in SUBSET Task
      /\ own \in Ids \cup {0}
  BY <1>1, <1>2, BoardFacts DEF LaunchRec
<1>4. p \in Ids /\ k \in Ids /\ made < k /\ k \in Nat
  BY <1>1, <1>2, <1>3
<1>5. Persist(t, nb)
  BY DEF Start
<1>6. made' = k /\ stray' = stray /\ steps' \in Nat /\ UNCHANGED <<pages, world>>
  BY <1>1 DEF Start, Change
<1>7. own \in {0, p}
  OBVIOUS
<1>8. b.projects \subseteq P /\ (own = 0 => p \in P)
  OBVIOUS
<1> HIDE DEF p, k, P
<1>9. y \in Task /\ y.id = k /\ y.project = p /\ y.of = l /\ y.kind = "start"
  BY <1>4 DEF Task, Kinds
<1> HIDE DEF y
<1>10. P \in SUBSET Ids /\ T \in SUBSET Task
  BY <1>3, <1>4, <1>9 DEF P
<1>11. r \in LaunchRec /\ r.project = p /\ r.tasks = k
       /\ r.progress = b.launches[l].progress /\ r.sent = b.launches[l].sent
  BY <1>3, <1>4 DEF LaunchRec
<1> HIDE DEF r
<1>12. next \in Board /\ next.launches = b.launches /\ next.projects = P /\ next.tasks = T
  <2>1. \A X \in SUBSET Ids, Y \in SUBSET Task :
          LET c == [b EXCEPT !.projects = X, !.tasks = Y] IN
            c \in Board /\ c.launches = b.launches /\ c.projects = X /\ c.tasks = Y
    <3> HIDE DEF b
    <3> QED
      BY <1>1 DEF Board
  <2> HIDE DEF T
  <2> QED
    BY <2>1, <1>10
<1> HIDE DEF next
<1>13. /\ nb \in Board
       /\ DOMAIN nb.launches = DOMAIN b.launches
       /\ nb.launches[l] = r
       /\ \A x \in DOMAIN b.launches \ {l} : nb.launches[x] = b.launches[x]
       /\ nb.projects = P
       /\ nb.tasks = T
  <2>1. /\ SetLaunch(next, l, r) \in Board
        /\ DOMAIN SetLaunch(next, l, r).launches = DOMAIN next.launches \cup {l}
        /\ SetLaunch(next, l, r).launches[l] = r
        /\ \A x \in DOMAIN next.launches \ {l} :
             SetLaunch(next, l, r).launches[x] = next.launches[x]
        /\ SetLaunch(next, l, r).projects = next.projects
        /\ SetLaunch(next, l, r).tasks = next.tasks
    BY <1>11, <1>12, SetLaunchFacts
  <2> QED
    BY <2>1, <1>2, <1>12
<1> HIDE DEF nb
<1>14. \A x \in DOMAIN b.launches :
         /\ b.launches[x].project \in {0, nb.launches[x].project}
         /\ b.launches[x].tasks \in {0, nb.launches[x].tasks}
         /\ nb.launches[x].progress = b.launches[x].progress
         /\ nb.launches[x].sent = b.launches[x].sent
  BY <1>2, <1>7, <1>11, <1>13
<1>15. GoodBoard(nb, k, stray)
  BY <1>1, <1>2, <1>4, <1>8, <1>9, <1>11, <1>13, <1>14, TaskAdded
<1>16. Keeps(b, nb)
  BY <1>13, <1>14 DEF Keeps
<1>17. changing' \in [Tabs -> {"no", "import", "reset"}] /\ made' \in Ids \cup {0}
       /\ made <= made'
  BY <1>1, <1>4, <1>6 DEF BoardInv, BoardTypes, pages
<1> QED
  BY <1>5, <1>6, <1>8, <1>13, <1>15, <1>16, <1>17, PersistPages DEF pages

LEMMA ConfirmInv ==
    ASSUME BoardInv, NEW t \in Tabs, NEW l \in Launches, ConfirmTaskStatus(t, l)
    PROVE  BoardInv'
<1> DEFINE b == state[t]
           own == b.launches[l].project
           p == IF own = 0 THEN made + 1 ELSE own
           m == IF own = 0 THEN made + 1 ELSE made
           found == FollowUps(b, l)
           P == b.projects \cup {p}
<1>1. /\ b \in Board /\ GoodBoard(b, made, stray) /\ made \in Nat /\ steps \in Nat
      /\ MaxIds \in Nat
      /\ \A n \in Nat : n # 0 /\ n <= MaxIds => n \in Ids
  BY StateFacts
<1>2. l \in DOMAIN b.launches
  BY DEF ConfirmTaskStatus
<1>3. b.launches[l] \in LaunchRec /\ b.projects \in SUBSET Ids /\ b.tasks \in SUBSET Task
      /\ own \in Ids \cup {0}
  BY <1>1, <1>2, BoardFacts DEF LaunchRec
<1>4. PICK x \in IF found = {} THEN [id : {m + 1}, project : {p}, of : {l}, kind : {"progress"}]
                 ELSE found :
        LET y == [x EXCEPT !.project = p, !.of = l, !.kind = "progress"]
            next == [b EXCEPT !.projects = P, !.tasks = (@ \ {x}) \cup {y}]
        IN  /\ made' = IF found = {} THEN m + 1 ELSE m
            /\ made' <= MaxIds
            /\ Persist(t, SetLaunch(next, l, [b.launches[l] EXCEPT !.project = p,
                                                                   !.progress = x.id]))
  BY DEF ConfirmTaskStatus
<1> DEFINE y == [x EXCEPT !.project = p, !.of = l, !.kind = "progress"]
           T == (b.tasks \ {x}) \cup {y}
           next == [b EXCEPT !.projects = P, !.tasks = T]
           r == [b.launches[l] EXCEPT !.project = p, !.progress = x.id]
           nb == SetLaunch(next, l, r)
<1>5. /\ made' = IF found = {} THEN m + 1 ELSE m
      /\ made' <= MaxIds
      /\ Persist(t, nb)
  BY <1>4
<1>6. stray' = stray /\ steps' \in Nat /\ UNCHANGED <<pages, world>>
  BY <1>1 DEF ConfirmTaskStatus, Change
<1>7. own \in {0, p}
  OBVIOUS
<1>8. /\ made' \in Nat /\ made <= made' /\ made' \in Ids \cup {0}
      /\ p \in Ids
      /\ found = {} => m + 1 \in Ids /\ made < m + 1
      /\ m \in Nat
  BY <1>1, <1>3, <1>5
<1>9. \A z \in found : z \in b.tasks
  BY DEF FollowUps, WithId
<1> HIDE DEF p, m
<1>10. /\ x \in Task /\ x.id <= made'
       /\ \/ made < x.id /\ found = {}
          \/ \E z \in found : z.id = x.id
       /\ b.tasks \ {x} = b.tasks \ WithId(b, x.id)
  <2>1. \A z \in b.tasks : z.id <= made /\ z.id \in Nat
    BY <1>1, <1>3, BoardAssumption DEF Task, Ids, GoodBoard, SoundBoard
  <2>2. CASE found = {}
    <3>1. x \in [id : {m + 1}, project : {p}, of : {l}, kind : {"progress"}]
      BY <1>4, <2>2
    <3>2. x.id = m + 1 /\ x \in Task
      BY <3>1, <2>2, <1>8 DEF Task, Kinds
    <3>3. made < x.id /\ x.id <= made'
      BY <3>2, <2>2, <1>5, <1>8
    <3>4. b.tasks \ {x} = b.tasks \ WithId(b, x.id)
      BY <2>1, <3>3, <3>2, <1>1, <1>8 DEF WithId
    <3> QED
      BY <2>2, <3>2, <3>3, <3>4
  <2>3. CASE found # {}
    <3>1. x \in found /\ x \in b.tasks
      BY <1>4, <1>9, <2>3
    <3>2. x \in Task /\ x.id <= made'
      BY <3>1, <2>1, <1>1, <1>3, <1>8
    <3>3. WithId(b, x.id) = {x}
      BY <3>1, <1>1 DEF WithId, GoodBoard, SoundBoard
    <3> QED
      BY <3>1, <3>2, <3>3
  <2> QED
    BY <2>2, <2>3
<1>11. y \in Task /\ y.id = x.id /\ y.project = p /\ y.of = l /\ y.kind = "progress"
  BY <1>8, <1>10 DEF Task, Kinds
<1> HIDE DEF y, found
<1>12. P \in SUBSET Ids /\ T \in SUBSET Task
  BY <1>3, <1>8, <1>11
<1>13. r \in LaunchRec /\ r.project = p /\ r.tasks = b.launches[l].tasks
       /\ r.progress = x.id /\ r.sent = b.launches[l].sent
  BY <1>3, <1>8, <1>10 DEF LaunchRec, Task
<1> HIDE DEF r
<1>14. next \in Board /\ next.launches = b.launches /\ next.projects = P /\ next.tasks = T
  <2>1. \A X \in SUBSET Ids, Y \in SUBSET Task :
          LET c == [b EXCEPT !.projects = X, !.tasks = Y] IN
            c \in Board /\ c.launches = b.launches /\ c.projects = X /\ c.tasks = Y
    <3> HIDE DEF b
    <3> QED
      BY <1>1 DEF Board
  <2> HIDE DEF T
  <2> QED
    BY <2>1, <1>12
<1> HIDE DEF next
<1>15. /\ nb \in Board
       /\ DOMAIN nb.launches = DOMAIN b.launches
       /\ nb.launches[l] = r
       /\ \A z \in DOMAIN b.launches \ {l} : nb.launches[z] = b.launches[z]
       /\ nb.projects = P
       /\ nb.tasks = T
  <2>1. /\ SetLaunch(next, l, r) \in Board
        /\ DOMAIN SetLaunch(next, l, r).launches = DOMAIN next.launches \cup {l}
        /\ SetLaunch(next, l, r).launches[l] = r
        /\ \A z \in DOMAIN next.launches \ {l} :
             SetLaunch(next, l, r).launches[z] = next.launches[z]
        /\ SetLaunch(next, l, r).projects = next.projects
        /\ SetLaunch(next, l, r).tasks = next.tasks
    BY <1>13, <1>14, SetLaunchFacts
  <2> QED
    BY <2>1, <1>2, <1>14
<1> HIDE DEF nb
<1>16. /\ \A z \in DOMAIN b.launches :
            /\ b.launches[z].project \in {0, nb.launches[z].project}
            /\ nb.launches[z].tasks = b.launches[z].tasks
            /\ nb.launches[z].sent = b.launches[z].sent
       /\ \A z \in DOMAIN b.launches \ {l} :
            nb.launches[z].progress = b.launches[z].progress
       /\ nb.launches[l].progress = y.id
  BY <1>2, <1>7, <1>11, <1>13, <1>15
<1>17. GoodBoard(nb, made', stray)
  <2>1. nb.tasks = (b.tasks \ WithId(b, y.id)) \cup {y} /\ y.id <= made'
    BY <1>10, <1>11, <1>15
  <2>2. \/ made < y.id /\ FollowUps(b, l) = {}
        \/ \E z \in FollowUps(b, l) : z.id = y.id
    BY <1>10, <1>11 DEF found
  <2>3. y.project \in nb.projects /\ b.projects \subseteq nb.projects
    BY <1>11, <1>15
  <2> QED
    BY <2>1, <2>2, <2>3, <1>1, <1>2, <1>8, <1>11, <1>15, <1>16, FollowUpSet
<1>18. Keeps(b, nb)
  BY <1>15, <1>16 DEF Keeps
<1>19. changing' \in [Tabs -> {"no", "import", "reset"}] /\ state[t].projects \subseteq nb.projects
  BY <1>6, <1>15 DEF BoardInv, BoardTypes, pages
<1> QED
  BY <1>5, <1>6, <1>8, <1>17, <1>18, <1>19, PersistPages DEF pages

LEMMA SaveInv ==
    ASSUME BoardInv, NEW t \in Tabs, NEW p \in Ids \cup {0}, SaveEditor(t, p)
    PROVE  BoardInv'
<1> DEFINE b == state[t]
           found == WithId(b, editor[t].id)
           k == IF found = {} THEN made + 1 ELSE editor[t].id
           y == [id |-> k, project |-> p, of |-> None, kind |-> "own"]
           saved == IF found = {} THEN {y} ELSE {[x EXCEPT !.project = p] : x \in found}
           T == (b.tasks \ found) \cup saved
           nb == [b EXCEPT !.tasks = T]
<1>1. /\ b \in Board /\ GoodBoard(b, made, stray) /\ made \in Nat /\ steps \in Nat
      /\ MaxIds \in Nat /\ PageFits(t)
      /\ \A n \in Nat : n # 0 /\ n <= MaxIds => n \in Ids
  BY StateFacts
<1>2. editor[t].open /\ p \in editor[t].projects \cup {0} /\ k <= MaxIds
  BY DEF SaveEditor
<1>3. Persist(t, nb)
  BY DEF SaveEditor
<1>4. /\ made' = IF found = {} THEN k ELSE made
      /\ editor' = [editor EXCEPT ![t] = NoEdit]
      /\ stray' = IF editor[t].stale THEN stray \cup {k} ELSE stray
      /\ steps' \in Nat /\ UNCHANGED <<sending, changing, world>>
  BY <1>1 DEF SaveEditor
<1>5. b.tasks \in SUBSET Task /\ editor[t].id \in Ids \cup {0} /\ editor[t].stale \in BOOLEAN
      /\ made \in Ids \cup {0} /\ stray \subseteq Ids
  BY <1>1, BoardFacts DEF BoardInv, BoardTypes, Edits
<1>6. \A x \in found : x \in b.tasks /\ x.id = editor[t].id
  BY DEF WithId
<1>7. k \in Ids /\ k \in Nat
  <2>1. CASE found = {}
    BY <2>1, <1>1, <1>2
  <2>2. CASE found # {}
    <3>1. PICK x \in found : TRUE
      BY <2>2
    <3>2. editor[t].id \in Ids
      BY <3>1, <1>6, <1>5 DEF Task
    <3> QED
      BY <3>2, <2>2, BoardAssumption DEF Ids
  <2> QED
    BY <2>1, <2>2
<1>8. y \in Task /\ y.id = k /\ y.project = p /\ y.kind = "own"
  <2> HIDE DEF k
  <2> QED
    BY <1>7 DEF Task, Kinds
<1>9. \A x \in Task : /\ [x EXCEPT !.project = p] \in Task
                      /\ [x EXCEPT !.project = p].id = x.id
                      /\ [x EXCEPT !.project = p].of = x.of
                      /\ [x EXCEPT !.project = p].kind = x.kind
                      /\ [x EXCEPT !.project = p].project = p
  BY DEF Task
<1>10. T \in SUBSET Task
  <2> HIDE DEF y
  <2> QED
    BY <1>5, <1>6, <1>8, <1>9
<1>11. \/ p \in b.projects \cup {0}
       \/ k \in stray'
  BY <1>1, <1>2, <1>4 DEF PageFits
<1>12. /\ made' \in Ids \cup {0} /\ made' \in Nat /\ made <= made'
       /\ stray \subseteq stray' /\ stray' \subseteq Ids
  BY <1>1, <1>4, <1>5, <1>7
<1>13. nb \in Board /\ nb.launches = b.launches /\ nb.projects = b.projects /\ nb.tasks = T
  <2> HIDE DEF b, T
  <2> QED
    BY <1>1, <1>10 DEF Board
<1> HIDE DEF nb
<1>14. GoodBoard(nb, made', stray')
  <2>1. CASE found = {}
    <3>1. nb.tasks = b.tasks \cup {y}
      BY <2>1, <1>13
    <3>2. made < y.id /\ y.id <= made'
      BY <2>1, <1>1, <1>4, <1>8
    <3>3. GoodBoard(b, made, stray')
      BY <1>1, <1>12 DEF GoodBoard, Resolved
    <3>4. \/ y.project \in nb.projects \cup {0}
          \/ y.id \in stray'
      BY <1>8, <1>11, <1>13
    <3> HIDE DEF y, k
    <3> QED
      BY <3>1, <3>2, <3>3, <3>4, <1>1, <1>8, <1>12, <1>13, TaskAdded
  <2>2. CASE found # {}
    <3> DEFINE f == [x \in b.tasks |-> IF x \in found THEN [x EXCEPT !.project = p] ELSE x]
    <3>1. f \in [b.tasks -> Task]
      BY <1>5, <1>9
    <3>2. \A x \in b.tasks : f[x].id = x.id /\ f[x].kind = x.kind /\ f[x].of = x.of
      BY <1>5, <1>9
    <3>3. T \subseteq {f[x] : x \in b.tasks}
      <4>1. \A x \in b.tasks \ found : x = f[x]
        OBVIOUS
      <4>2. \A x \in found : x \in b.tasks /\ [x EXCEPT !.project = p] = f[x]
        BY <1>6
      <4>3. \A z \in T : \E x \in b.tasks : z = f[x]
        <5> HIDE DEF f
        <5> QED
          BY <4>1, <4>2, <2>2
      <4> QED
        BY <4>3
    <3>4. k = editor[t].id
      BY <2>2
    <3>5. ASSUME NEW x \in b.tasks
          PROVE  \/ f[x].project \in b.projects \cup {0}
                 \/ f[x].id \in stray'
                 \/ f[x].project = x.project /\ x.project \notin b.projects
      <4>1. CASE x \in found
        <5>1. f[x].project = p /\ f[x].id = k
          BY <4>1, <3>4, <1>5, <1>6, <1>9
        <5> QED
          BY <5>1, <1>11
      <4>2. CASE x \notin found
        BY <4>2
      <4> QED
        BY <4>1, <4>2
    <3>6. GoodBoard(b, made', stray')
      <4> HIDE DEF b
      <4> QED
        BY <1>1, <1>12, GoodGrows
    <3> HIDE DEF f, T
    <3> QED
      BY <3>1, <3>2, <3>3, <3>5, <3>6, <1>1, <1>12, <1>13, TasksMoved
  <2> QED
    BY <2>1, <2>2
<1>15. Keeps(b, nb)
  BY <1>13 DEF Keeps
<1> QED
  BY <1>3, <1>4, <1>12, <1>14, <1>15, PersistClosed

LEMMA NewProjectInv ==
    ASSUME BoardInv, NEW t \in Tabs, NewProject(t)
    PROVE  BoardInv'
<1> DEFINE b == state[t]
           P == b.projects \cup {made + 1}
           nb == [b EXCEPT !.projects = P]
           f == [x \in b.tasks |-> x]
<1>1. /\ b \in Board /\ GoodBoard(b, made, stray) /\ made \in Nat /\ steps \in Nat
      /\ MaxIds \in Nat
      /\ \A n \in Nat : n # 0 /\ n <= MaxIds => n \in Ids
  BY StateFacts
<1>2. Persist(t, nb)
  BY DEF NewProject
<1>3. /\ made' = made + 1 /\ made' \in Ids /\ made <= made' /\ made' \in Nat
      /\ stray' = stray /\ stray \subseteq Ids /\ steps' \in Nat
      /\ editor' = [editor EXCEPT ![t] = NoEdit]
      /\ UNCHANGED <<sending, changing, world>>
  BY <1>1, BoardAssumption DEF NewProject, Change, BoardInv, BoardTypes
<1>4. P \in SUBSET Ids /\ b.tasks \in SUBSET Task
  BY <1>1, <1>3, BoardFacts
<1>5. nb \in Board /\ nb.launches = b.launches /\ nb.projects = P /\ nb.tasks = b.tasks
  <2> HIDE DEF b, P
  <2> QED
    BY <1>1, <1>4 DEF Board
<1> HIDE DEF nb
<1>6. /\ f \in [b.tasks -> Task]
      /\ \A x \in b.tasks : f[x].id = x.id /\ f[x].kind = x.kind /\ f[x].of = x.of
      /\ nb.tasks \subseteq {f[x] : x \in b.tasks}
      /\ \A x \in b.tasks : \/ f[x].project \in nb.projects
                            \/ f[x].project = x.project /\ x.project \notin b.projects
  BY <1>4, <1>5
<1>7. GoodBoard(b, made', stray)
  BY <1>1, <1>3, GoodGrows
<1>8. GoodBoard(nb, made', stray')
  <2> HIDE DEF f
  <2> QED
    BY <1>1, <1>3, <1>5, <1>6, <1>7, TasksMoved
<1>9. Keeps(b, nb)
  BY <1>5 DEF Keeps
<1> QED
  BY <1>2, <1>3, <1>8, <1>9, PersistClosed

LEMMA AcceptInv ==
    ASSUME BoardInv, NEW t \in Tabs, AcceptTask(t)
    PROVE  BoardInv'
<1> DEFINE b == state[t]
           y == [id |-> made + 1, project |-> 0, of |-> None, kind |-> "own"]
           T == b.tasks \cup {y}
           nb == [b EXCEPT !.tasks = T]
<1>1. /\ b \in Board /\ GoodBoard(b, made, stray) /\ made \in Nat /\ steps \in Nat
      /\ MaxIds \in Nat
      /\ \A n \in Nat : n # 0 /\ n <= MaxIds => n \in Ids
  BY StateFacts
<1>2. Persist(t, nb)
  BY DEF AcceptTask
<1>3. /\ made' = made + 1 /\ made' \in Ids /\ made < made' /\ made' \in Nat
      /\ stray' = stray /\ steps' \in Nat
      /\ UNCHANGED <<pages, world>>
  BY <1>1, BoardAssumption DEF AcceptTask, Change
<1>4. y \in Task /\ y.id = made' /\ y.project = 0 /\ y.kind = "own"
  BY <1>3 DEF Task, Kinds
<1> HIDE DEF y
<1>5. T \in SUBSET Task
  BY <1>1, <1>4, BoardFacts
<1>6. nb \in Board /\ nb.launches = b.launches /\ nb.projects = b.projects /\ nb.tasks = T
  <2> HIDE DEF b, T
  <2> QED
    BY <1>1, <1>5 DEF Board
<1> HIDE DEF nb
<1>7. GoodBoard(nb, made', stray')
  <2>1. \A x \in DOMAIN b.launches : nb.launches[x] = b.launches[x]
    BY <1>6
  <2>2. made <= made' /\ y.id <= made'
    BY <1>1, <1>3, <1>4
  <2> QED
    BY <2>1, <2>2, <1>1, <1>3, <1>4, <1>6, TaskAdded
<1>8. Keeps(b, nb)
  BY <1>6 DEF Keeps
<1>9. changing' \in [Tabs -> {"no", "import", "reset"}] /\ b.projects \subseteq nb.projects
      /\ made <= made'
  BY <1>1, <1>3, <1>6 DEF BoardInv, BoardTypes, pages
<1> QED
  BY <1>2, <1>3, <1>7, <1>8, <1>9, PersistPages DEF pages

LEMMA DeleteProjectInv ==
    ASSUME BoardInv, NEW t \in Tabs, NEW p \in Ids, DeleteProject(t, p)
    PROVE  BoardInv'
<1> DEFINE b == state[t]
           P == b.projects \ {p}
           g(x) == IF x.project = p THEN [x EXCEPT !.project = 0] ELSE x
           T == {g(x) : x \in b.tasks}
           nb == [b EXCEPT !.projects = P, !.tasks = T]
           f == [x \in b.tasks |-> g(x)]
<1>1. /\ b \in Board /\ GoodBoard(b, made, stray) /\ made \in Nat /\ steps \in Nat
  BY StateFacts
<1>2. Persist(t, nb)
  BY DEF DeleteProject
<1>3. /\ made' = made /\ made' \in Ids \cup {0} /\ made <= made'
      /\ stray' = stray /\ stray \subseteq Ids /\ steps' \in Nat
      /\ editor' = [editor EXCEPT ![t] = NoEdit]
      /\ UNCHANGED <<sending, changing, world>>
  BY <1>1 DEF DeleteProject, Change, BoardInv, BoardTypes
<1>4. \A x \in Task : /\ [x EXCEPT !.project = 0] \in Task
                      /\ [x EXCEPT !.project = 0].id = x.id
                      /\ [x EXCEPT !.project = 0].of = x.of
                      /\ [x EXCEPT !.project = 0].kind = x.kind
                      /\ [x EXCEPT !.project = 0].project = 0
  BY DEF Task
<1>5. b.tasks \subseteq Task /\ P \in SUBSET Ids
  BY <1>1, BoardFacts
<1>6. \A x \in b.tasks : /\ g(x) \in Task /\ g(x).id = x.id /\ g(x).of = x.of
                         /\ g(x).kind = x.kind
                         /\ g(x).project \in {0, x.project} /\ g(x).project # p
  <2> SUFFICES ASSUME NEW x \in b.tasks
               PROVE  /\ g(x) \in Task /\ g(x).id = x.id /\ g(x).of = x.of
                      /\ g(x).kind = x.kind
                      /\ g(x).project \in {0, x.project} /\ g(x).project # p
    OBVIOUS
  <2>1. x \in Task /\ p # 0
    BY <1>5, BoardAssumption DEF Ids
  <2>2. CASE x.project = p
    <3>1. g(x) = [x EXCEPT !.project = 0]
      BY <2>2
    <3> HIDE DEF g
    <3> QED
      BY <3>1, <2>1, <1>4
  <2>3. CASE x.project # p
    <3>1. g(x) = x
      BY <2>3
    <3> QED
      BY <3>1, <2>1, <2>3
  <2> QED
    BY <2>2, <2>3
<1> HIDE DEF g
<1>7. T \in SUBSET Task
  BY <1>6
<1>8. nb \in Board /\ nb.launches = b.launches /\ nb.projects = P /\ nb.tasks = T
  <2> HIDE DEF b, P, T
  <2> QED
    BY <1>1, <1>5, <1>7 DEF Board
<1> HIDE DEF nb
<1>9. /\ f \in [b.tasks -> Task]
      /\ \A x \in b.tasks : f[x].id = x.id /\ f[x].kind = x.kind /\ f[x].of = x.of
      /\ nb.tasks \subseteq {f[x] : x \in b.tasks}
      /\ \A x \in b.tasks : \/ f[x].project \in nb.projects \cup {0}
                            \/ f[x].project = x.project /\ x.project \notin b.projects
  BY <1>6, <1>8
<1> HIDE DEF f
<1>10. GoodBoard(nb, made', stray')
  BY <1>1, <1>3, <1>8, <1>9, TasksMoved
<1>11. Keeps(b, nb)
  BY <1>8 DEF Keeps
<1> QED
  BY <1>2, <1>3, <1>10, <1>11, PersistClosed

LEMMA DeleteTaskInv ==
    ASSUME BoardInv, NEW t \in Tabs, NEW k \in Ids, DeleteTask(t, k)
    PROVE  BoardInv'
<1> DEFINE b == state[t]
           T == b.tasks \ WithId(b, k)
           nb == [b EXCEPT !.tasks = T]
           f == [x \in b.tasks |-> x]
<1>1. /\ b \in Board /\ GoodBoard(b, made, stray) /\ made \in Nat /\ steps \in Nat
  BY StateFacts
<1>2. Persist(t, nb)
  BY DEF DeleteTask
<1>3. /\ made' = made /\ made' \in Ids \cup {0} /\ made <= made'
      /\ stray' = stray /\ stray \subseteq Ids /\ steps' \in Nat
      /\ editor' = [editor EXCEPT ![t] = NoEdit]
      /\ UNCHANGED <<sending, changing, world>>
  BY <1>1 DEF DeleteTask, Change, BoardInv, BoardTypes
<1>4. b.tasks \subseteq Task /\ T \in SUBSET Task
  BY <1>1, BoardFacts
<1>5. nb \in Board /\ nb.launches = b.launches /\ nb.projects = b.projects /\ nb.tasks = T
  <2> HIDE DEF b, T
  <2> QED
    BY <1>1, <1>4 DEF Board
<1> HIDE DEF nb
<1>6. /\ f \in [b.tasks -> Task]
      /\ \A x \in b.tasks : f[x].id = x.id /\ f[x].kind = x.kind /\ f[x].of = x.of
      /\ nb.tasks \subseteq {f[x] : x \in b.tasks}
      /\ \A x \in b.tasks : \/ f[x].project \in nb.projects \cup {0}
                            \/ f[x].project = x.project /\ x.project \notin b.projects
  BY <1>4, <1>5
<1> HIDE DEF f
<1>7. GoodBoard(nb, made', stray')
  BY <1>1, <1>3, <1>5, <1>6, TasksMoved
<1>8. Keeps(b, nb)
  BY <1>5 DEF Keeps
<1> QED
  BY <1>2, <1>3, <1>7, <1>8, PersistClosed

-----------------------------------------------------------------------------
(* The steps that write nothing, and the ones that come back to a page.      *)
LEMMA SeedGood ==
    ASSUME NEW m \in Nat, NEW s
    PROVE  GoodBoard(Seed, m, s)
<1> DEFINE f == [l \in {} |-> Draft]
<1>1. f \in [{} -> LaunchRec] /\ {} \in SUBSET Launches /\ DOMAIN f = {}
  OBVIOUS
<1>2. f \in UNION {[D -> LaunchRec] : D \in SUBSET Launches}
  BY <1>1
<1>3. Seed = [launches |-> f, projects |-> {}, tasks |-> {}]
  BY DEF Seed
<1> HIDE DEF f
<1>4. /\ Seed \in Board /\ Seed.launches = f /\ Seed.projects = {} /\ Seed.tasks = {}
  BY <1>2, <1>3 DEF Board
<1> QED
  BY <1>1, <1>4 DEF GoodBoard, SoundBoard, Resolved

LEMMA LoadInv ==
    ASSUME BoardInv, NEW t \in Tabs, Load(t)
    PROVE  BoardInv'
<1>1. BoardTypes /\ GoodBoard(store, made, stray) /\ GoodBoard(Seed, made, stray)
  BY SeedGood, StateFacts DEF BoardInv
<1>2. store \in Board /\ Seed \in Board
  BY <1>1 DEF GoodBoard, SoundBoard
<1>3. NoEdit \in Edits /\ NoEdit.open = FALSE /\ NoSend \in Sends /\ NoSend.attached = FALSE
  BY BoardAssumption DEF NoEdit, Edits, Ids, NoSend, Sends
<1>4. PICK b \in {store, Seed} :
      /\ UNCHANGED <<store, file, made, stray, steps>>
      /\ faults' \in Nat
      /\ current' \subseteq current \cup {t} /\ (t \in current' => b = store)
      /\ state' = [state EXCEPT ![t] = b]
      /\ editor' = [editor EXCEPT ![t] = NoEdit]
      /\ sending' = [sending EXCEPT ![t] = NoSend]
      /\ changing' = [changing EXCEPT ![t] = "no"]
  BY <1>1 DEF Load, BoardTypes
<1>5. held' \subseteq Launches
  <2>1. PageFits(t)
    BY DEF BoardInv
  <2> QED
    BY <1>1, <2>1 DEF Load, Vanish, PageFits, BoardTypes
<1>6. BoardTypes'
  BY <1>1, <1>2, <1>3, <1>4, <1>5 DEF BoardTypes
<1>7. /\ state'[t] = b /\ editor'[t] = NoEdit /\ sending'[t] = NoSend
      /\ \A u \in Tabs \ {t} : /\ state'[u] = state[u] /\ editor'[u] = editor[u]
                               /\ sending'[u] = sending[u]
  BY <1>1, <1>4 DEF BoardTypes
<1>8. ASSUME NEW u \in Tabs PROVE GoodBoard(state'[u], made', stray') /\ PageFits(u)'
  <2>1. CASE u = t
    BY <1>1, <1>3, <1>4, <1>7, <2>1 DEF PageFits, NoSend
  <2>2. CASE u # t
    <3>1. GoodBoard(state[u], made, stray) /\ PageFits(u)
      BY DEF BoardInv
    <3> QED
      BY <1>4, <1>7, <2>2, <3>1 DEF PageFits, NoSend
  <2> QED
    BY <2>1, <2>2
<1>9. ASSUME NEW u \in current' PROVE Keeps(store', state'[u])
  <2>1. CASE u = t
    BY <1>4, <1>7, <2>1, KeepsItself
  <2>2. CASE u # t
    <3>1. u \in current /\ u \in Tabs
      BY <1>1, <1>4, <1>9, <2>2 DEF BoardTypes
    <3> QED
      BY <1>4, <1>7, <2>2, <3>1 DEF BoardInv
  <2> QED
    BY <2>1, <2>2
<1> QED
  BY <1>1, <1>4, <1>6, <1>8, <1>9 DEF BoardInv

(* Neither the boards nor what is known of them changes.                     *)
LEMMA PagesInv ==
    ASSUME BoardInv, BoardTypes',
           UNCHANGED <<store, state, file, made, stray, current>>,
           \A u \in Tabs : PageFits(u)'
    PROVE  BoardInv'
  BY DEF BoardInv

LEMMA OpenEditorInv ==
    ASSUME BoardInv, NEW t \in Tabs, NEW k \in Ids \cup {0}, OpenEditor(t, k)
    PROVE  BoardInv'
<1> DEFINE e == [open |-> TRUE, id |-> k, stale |-> FALSE, projects |-> state[t].projects]
<1>1. BoardTypes /\ steps \in Nat /\ state[t].projects \subseteq Ids
  BY StateFacts, BoardFacts DEF BoardInv
<1>2. e \in Edits /\ e.projects = state[t].projects
  BY <1>1 DEF Edits
<1>3. /\ editor' = [editor EXCEPT ![t] = e] /\ steps' \in Nat
      /\ UNCHANGED <<store, state, sending, changing, world, made, stray, current, faults>>
  BY <1>1 DEF OpenEditor, Change
<1> HIDE DEF e
<1>4. BoardTypes'
  BY <1>1, <1>2, <1>3 DEF BoardTypes, world
<1>5. ASSUME NEW u \in Tabs PROVE PageFits(u)'
  <2>1. PageFits(u)
    BY DEF BoardInv
  <2>2. CASE u = t
    <3>1. editor'[u] = e
      BY <1>1, <1>3, <2>2 DEF BoardTypes
    <3> QED
      BY <1>2, <1>3, <2>1, <2>2, <3>1 DEF PageFits, NoSend
  <2>3. CASE u # t
    <3>1. editor'[u] = editor[u]
      BY <1>1, <1>3, <2>3 DEF BoardTypes
    <3> QED
      BY <1>3, <2>1, <3>1 DEF PageFits, NoSend
  <2> QED
    BY <2>2, <2>3
<1> QED
  BY <1>3, <1>4, <1>5, PagesInv DEF world

LEMMA SendInv ==
    ASSUME BoardInv, NEW t \in Tabs, NEW l \in Launches, Send(t, l)
    PROVE  BoardInv'
<1> DEFINE s == [launch |-> l, attached |-> TRUE]
<1>1. BoardTypes /\ steps \in Nat /\ l \in DOMAIN state[t].launches
  BY StateFacts DEF BoardInv, Send
<1>2. s \in Sends /\ s.launch = l /\ s.attached = TRUE
  BY DEF Sends
<1>3. /\ sending' = [sending EXCEPT ![t] = s] /\ steps' \in Nat
      /\ UNCHANGED <<store, state, editor, changing, world, made, stray, current, faults>>
  BY <1>1 DEF Send, Change
<1> HIDE DEF s
<1>4. BoardTypes'
  BY <1>1, <1>2, <1>3 DEF BoardTypes, world
<1>5. ASSUME NEW u \in Tabs PROVE PageFits(u)'
  <2>1. PageFits(u)
    BY DEF BoardInv
  <2>2. CASE u = t
    <3>1. sending'[u] = s
      BY <1>1, <1>3, <2>2 DEF BoardTypes
    <3> QED
      BY <1>1, <1>2, <1>3, <2>1, <2>2, <3>1 DEF PageFits
  <2>3. CASE u # t
    <3>1. sending'[u] = sending[u]
      BY <1>1, <1>3, <2>3 DEF BoardTypes
    <3> QED
      BY <1>3, <2>1, <3>1 DEF PageFits, NoSend
  <2> QED
    BY <2>2, <2>3
<1> QED
  BY <1>3, <1>4, <1>5, PagesInv DEF world

LEMMA NotSending ==
    ASSUME BoardInv, NEW t \in Tabs, sending' = [sending EXCEPT ![t] = NoSend]
    PROVE  /\ sending' \in [Tabs -> Sends] /\ sending'[t] = NoSend
           /\ sending'[t].attached = FALSE
           /\ \A u \in Tabs \ {t} : sending'[u] = sending[u]
<1>1. NoSend \in Sends /\ NoSend.attached = FALSE
  BY DEF NoSend, Sends
<1> QED
  BY <1>1 DEF BoardInv, BoardTypes

LEMMA AnsweredInv ==
    ASSUME BoardInv, NEW t \in Tabs, Answered(t)
    PROVE  BoardInv'
<1> DEFINE b == state[t]
           l == sending[t].launch
           r == [b.launches[l] EXCEPT !.sent = TRUE]
           nb == Marked(t)
<1>1. /\ b \in Board /\ GoodBoard(b, made, stray) /\ PageFits(t) /\ made \in Nat
      /\ steps \in Nat /\ BoardTypes
  BY StateFacts DEF BoardInv
<1>2. /\ Persist(t, nb) /\ held' \subseteq Launches
      /\ sending' = [sending EXCEPT ![t] = NoSend]
      /\ UNCHANGED <<editor, changing, file, made, stray, steps>>
  BY <1>1 DEF Answered, PageFits, BoardTypes
<1>3. GoodBoard(nb, made, stray) /\ Keeps(b, nb) /\ nb.projects = b.projects
  <2>1. CASE ~sending[t].attached
    BY <1>1, <2>1, KeepsItself DEF Marked
  <2>2. CASE sending[t].attached
    <3>1. l \in DOMAIN b.launches /\ l \in Launches
      BY <1>1, <2>2, BoardFacts DEF PageFits
    <3>2. b.launches[l] \in LaunchRec
      BY <1>1, <3>1, BoardFacts
    <3>3. /\ r \in LaunchRec /\ r.sent = TRUE /\ r.project = b.launches[l].project
          /\ r.tasks = b.launches[l].tasks /\ r.progress = b.launches[l].progress
      BY <3>2 DEF LaunchRec
    <3>4. nb = SetLaunch(b, l, r)
      BY <2>2 DEF Marked
    <3> HIDE DEF r, nb
    <3>5. /\ nb \in Board
          /\ DOMAIN nb.launches = DOMAIN b.launches \cup {l}
          /\ nb.launches[l] = r
          /\ \A x \in DOMAIN b.launches \ {l} : nb.launches[x] = b.launches[x]
          /\ nb.projects = b.projects
          /\ nb.tasks = b.tasks
      BY <1>1, <3>1, <3>3, <3>4, SetLaunchFacts
    <3>6. /\ DOMAIN nb.launches = DOMAIN b.launches
          /\ \A x \in DOMAIN b.launches :
               /\ nb.launches[x].project = b.launches[x].project
               /\ nb.launches[x].tasks = b.launches[x].tasks
               /\ nb.launches[x].progress = b.launches[x].progress
               /\ b.launches[x].sent => nb.launches[x].sent
      BY <3>1, <3>3, <3>5
    <3>7. GoodBoard(nb, made, stray)
      BY <1>1, <3>5, <3>6, LaunchesOnly
    <3>8. Keeps(b, nb)
      BY <3>6 DEF Keeps
    <3> QED
      BY <3>5, <3>7, <3>8
  <2> QED
    BY <2>1, <2>2
<1> HIDE DEF nb
<1>4. /\ sending' \in [Tabs -> Sends] /\ sending'[t] = NoSend /\ sending'[t].attached = FALSE
      /\ \A u \in Tabs \ {t} : sending'[u] = sending[u]
  BY <1>2, NotSending
<1>5. editor'[t].open /\ ~editor'[t].stale => editor'[t].projects \subseteq nb.projects
  BY <1>1, <1>2, <1>3 DEF PageFits
<1>6. /\ made' \in Ids \cup {0} /\ made <= made' /\ stray \subseteq stray' /\ stray' \subseteq Ids
      /\ steps' \in Nat /\ editor' \in [Tabs -> Edits]
      /\ changing' \in [Tabs -> {"no", "import", "reset"}]
      /\ \A u \in Tabs \ {t} : editor'[u] = editor[u]
  BY <1>1, <1>2 DEF BoardTypes
<1>7. GoodBoard(nb, made', stray') /\ file' = file
  BY <1>2, <1>3
<1> QED
  BY <1>2, <1>3, <1>4, <1>5, <1>6, <1>7, PersistInv

LEMMA SendFailsInv ==
    ASSUME BoardInv, NEW t \in Tabs, SendFails(t)
    PROVE  BoardInv'
<1>1. BoardTypes /\ PageFits(t)
  BY DEF BoardInv
<1>2. /\ sending' = [sending EXCEPT ![t] = NoSend]
      /\ held' \subseteq Launches /\ faults' \in Nat
      /\ UNCHANGED <<store, state, editor, changing, file, made, stray, current, steps>>
  BY <1>1 DEF SendFails, PageFits, BoardTypes
<1>3. /\ sending' \in [Tabs -> Sends] /\ sending'[t] = NoSend /\ sending'[t].attached = FALSE
      /\ \A u \in Tabs \ {t} : sending'[u] = sending[u]
  BY <1>2, NotSending
<1>4. BoardTypes'
  BY <1>1, <1>2, <1>3 DEF BoardTypes
<1>5. ASSUME NEW u \in Tabs PROVE PageFits(u)'
  <2>1. PageFits(u)
    BY DEF BoardInv
  <2>2. CASE u = t
    BY <1>2, <1>3, <2>1, <2>2 DEF PageFits, NoSend
  <2>3. CASE u # t
    BY <1>2, <1>3, <2>1, <2>3 DEF PageFits, NoSend
  <2> QED
    BY <2>2, <2>3
<1> QED
  BY <1>2, <1>4, <1>5, PagesInv

LEMMA ReplaceInv ==
    ASSUME BoardInv, NEW t \in Tabs, NEW b, NEW how \in {"import", "reset"},
           GoodBoard(b, made, stray), Replace(t, b, how)
    PROVE  BoardInv'
<1>1. BoardTypes /\ b \in Board /\ steps \in Nat
  BY DEF BoardInv, BoardTypes, GoodBoard, SoundBoard
<1>2. /\ state' = [state EXCEPT ![t] = b]
      /\ changing' = [changing EXCEPT ![t] = how]
      /\ sending' = [sending EXCEPT ![t].attached = FALSE]
      /\ editor' = [editor EXCEPT ![t].stale = editor[t].open]
      /\ current' = current \ {t} /\ steps' \in Nat
      /\ UNCHANGED <<store, world, made, stray, faults>>
  BY <1>1 DEF Replace, Change
<1>3. /\ sending' \in [Tabs -> Sends]
      /\ sending'[t].attached = FALSE /\ sending'[t].launch = sending[t].launch
      /\ \A u \in Tabs \ {t} : sending'[u] = sending[u]
  <2>1. sending[t] \in Sends
    BY <1>1 DEF BoardTypes
  <2>2. /\ [sending[t] EXCEPT !.attached = FALSE] \in Sends
        /\ [sending[t] EXCEPT !.attached = FALSE].attached = FALSE
        /\ [sending[t] EXCEPT !.attached = FALSE].launch = sending[t].launch
    BY <2>1 DEF Sends
  <2> QED
    BY <1>1, <1>2, <2>2 DEF BoardTypes
<1>4. /\ editor' \in [Tabs -> Edits]
      /\ editor'[t].open => editor'[t].stale
      /\ \A u \in Tabs \ {t} : editor'[u] = editor[u]
  <2>1. editor[t] \in Edits
    BY <1>1 DEF BoardTypes
  <2>2. /\ [editor[t] EXCEPT !.stale = editor[t].open] \in Edits
        /\ [editor[t] EXCEPT !.stale = editor[t].open].stale = editor[t].open
        /\ [editor[t] EXCEPT !.stale = editor[t].open].open = editor[t].open
    BY <2>1 DEF Edits
  <2> QED
    BY <1>1, <1>2, <2>2 DEF BoardTypes
<1>5. /\ state' \in [Tabs -> Board] /\ state'[t] = b
      /\ \A u \in Tabs \ {t} : state'[u] = state[u]
  BY <1>1, <1>2 DEF BoardTypes
<1>6. BoardTypes'
  BY <1>1, <1>2, <1>3, <1>4, <1>5 DEF BoardTypes, world
<1>7. ASSUME NEW u \in Tabs PROVE GoodBoard(state'[u], made', stray') /\ PageFits(u)'
  <2>1. PageFits(u) /\ GoodBoard(state[u], made, stray)
    BY DEF BoardInv
  <2>2. CASE u = t
    <3>1. sending'[t] # NoSend => sending'[t].launch \in Launches
      <4>1. CASE sending[t] = NoSend
        <5>1. sending[t] \in Sends /\ sending[t].launch = None /\ sending[t].attached = FALSE
          <6>1. sending[t] \in Sends
            BY <1>1 DEF BoardTypes
          <6> QED
            BY <4>1, <6>1 DEF NoSend
        <5>2. sending'[t] = NoSend
          BY <1>3, <5>1 DEF Sends, NoSend
        <5> QED
          BY <5>2
      <4>2. CASE sending[t] # NoSend
        BY <1>3, <2>1, <2>2, <4>2 DEF PageFits
      <4> QED
        BY <4>1, <4>2
    <3> QED
      BY <1>2, <1>3, <1>4, <1>5, <2>2, <3>1 DEF PageFits, NoSend
  <2>3. CASE u # t
    BY <1>2, <1>3, <1>4, <1>5, <2>1, <2>3 DEF PageFits, NoSend
  <2> QED
    BY <2>2, <2>3
<1>8. ASSUME NEW u \in current' PROVE Keeps(store', state'[u])
  <2>1. u \in current /\ u \in Tabs /\ u # t
    BY <1>1, <1>2, <1>8 DEF BoardTypes
  <2> QED
    BY <1>2, <1>5, <2>1 DEF BoardInv
<1>9. GoodBoard(store', made', stray') /\ GoodBoard(file', made', stray')
  BY <1>2 DEF BoardInv, world
<1> QED
  BY <1>6, <1>7, <1>8, <1>9 DEF BoardInv

-----------------------------------------------------------------------------
LEMMA BoardInitInv == BoardInit => BoardInv
<1> SUFFICES ASSUME BoardInit PROVE BoardInv
  OBVIOUS
<1>1. GoodBoard(Seed, 0, {})
  BY SeedGood
<1>2. Seed \in Board
  BY <1>1 DEF GoodBoard, SoundBoard
<1>3. NoEdit \in Edits /\ NoEdit.open = FALSE /\ NoSend \in Sends /\ NoSend.attached = FALSE
  BY BoardAssumption DEF NoEdit, Edits, Ids, NoSend, Sends
<1>4. BoardTypes
  BY <1>2, <1>3 DEF BoardInit, BoardTypes
<1>5. \A t \in Tabs : GoodBoard(state[t], made, stray) /\ PageFits(t)
  BY <1>1, <1>3 DEF BoardInit, PageFits
<1>6. \A t \in current : Keeps(store, state[t])
  BY KeepsItself DEF BoardInit
<1> QED
  BY <1>1, <1>4, <1>5, <1>6 DEF BoardInit, BoardInv

LEMMA BoardNextInv == BoardInv /\ [BoardNext]_vars => BoardInv'
<1> SUFFICES ASSUME BoardInv, [BoardNext]_vars PROVE BoardInv'
  OBVIOUS
<1>1. CASE UNCHANGED vars
  BY <1>1 DEF vars, pages, world, BoardInv, BoardTypes, PageFits
<1>2. ASSUME NEW t \in Tabs, Operate(t) PROVE BoardInv'
  <2>1. CASE Load(t)
    BY <2>1, LoadInv
  <2>2. CASE Touch(t)
    <3>1. /\ Persist(t, state[t]) /\ made' = made /\ stray' = stray /\ steps' \in Nat
          /\ changing' \in [Tabs -> {"no", "import", "reset"}]
          /\ UNCHANGED <<editor, sending, world>>
      BY <2>2 DEF Touch, BoardInv, BoardTypes, pages
    <3> QED
      BY <3>1, TouchInv
  <2>3. ASSUME NEW l \in Launches,
               Submit(t, l) \/ Start(t, l) \/ ConfirmTaskStatus(t, l) \/ Send(t, l)
        PROVE  BoardInv'
    BY <2>3, SubmitInv, StartInv, ConfirmInv, SendInv
  <2>4. ASSUME NEW k \in Ids \cup {0}, OpenEditor(t, k) \/ SaveEditor(t, k)
        PROVE  BoardInv'
    BY <2>4, OpenEditorInv, SaveInv
  <2>5. CASE NewProject(t) \/ AcceptTask(t)
    BY <2>5, NewProjectInv, AcceptInv
  <2>6. ASSUME NEW k \in Ids, DeleteProject(t, k) \/ DeleteTask(t, k)
        PROVE  BoardInv'
    BY <2>6, DeleteProjectInv, DeleteTaskInv
  <2>7. CASE Export(t)
    <3>1. /\ steps' \in Nat /\ file' = state[t]
          /\ UNCHANGED <<store, state, pages, held, made, stray, current, faults>>
      BY <2>7, StateFacts DEF Export, Change
    <3>2. BoardTypes /\ GoodBoard(state[t], made, stray)
      BY DEF BoardInv
    <3> QED
      BY <3>1, <3>2 DEF pages, BoardInv, BoardTypes, PageFits
  <2>8. CASE Import(t)
    BY <2>8, ReplaceInv DEF Import, BoardInv
  <2>9. CASE Reset(t)
    <3>1. GoodBoard(Seed, made, stray)
      BY SeedGood, StateFacts
    <3> QED
      BY <2>9, <3>1, ReplaceInv DEF Reset
  <2> QED
    BY <1>2, <2>1, <2>2, <2>3, <2>4, <2>5, <2>6, <2>7, <2>8, <2>9 DEF Operate
<1>3. ASSUME NEW t \in Tabs, Answered(t) \/ SendFails(t) PROVE BoardInv'
  BY <1>3, AnsweredInv, SendFailsInv
<1>4. ASSUME NEW t \in Tabs, Replaced(t) PROVE BoardInv'
  <2>1. /\ Persist(t, state[t]) /\ made' = made /\ stray' = stray /\ steps' \in Nat
        /\ changing' \in [Tabs -> {"no", "import", "reset"}]
        /\ UNCHANGED <<editor, sending, world>>
    BY <1>4 DEF Replaced, BoardInv, BoardTypes
  <2> QED
    BY <2>1, TouchInv
<1>5. ASSUME NEW t \in Tabs, ImportFails(t) PROVE BoardInv'
  <2>1. /\ changing' \in [Tabs -> {"no", "import", "reset"}]
        /\ UNCHANGED <<store, state, editor, sending, world, made, stray, current, steps, faults>>
    BY <1>5 DEF ImportFails, BoardInv, BoardTypes
  <2> QED
    BY <2>1 DEF BoardInv, BoardTypes, PageFits, world
<1> QED
  BY <1>1, <1>2, <1>3, <1>4, <1>5 DEF BoardNext

(* In every state the application keeps, and in the exported file, ids are   *)
(* given once, a start task or follow-up is the one that its launch names,   *)
(* and a page that no other one has overtaken has all that is stored.        *)
THEOREM BoardInvariant == BoardSpec => []BoardInv
<1> QED
  BY BoardInitInv, BoardNextInv, PTL DEF BoardSpec

(* A launch has its start tasks and its follow-up once in every state,       *)
(* however often it is started and confirmed and whatever pages, files and   *)
(* inspectors write between (startLaunchLocally, ensureLaunchProgressTask).  *)
THEOREM BoardOneOfEach == BoardSpec => []OneOfEach
<1>1. BoardInv => OneOfEach
  <2> SUFFICES ASSUME BoardInv, NEW b \in Boards, NEW k \in {"start", "progress"},
                      NEW x \in {z \in b.tasks : z.kind = k},
                      NEW y \in {z \in b.tasks : z.kind = k}, x.of = y.of
               PROVE  x = y
    BY DEF OneOfEach
  <2>1. GoodBoard(b, made, stray)
    BY DEF Boards, BoardInv
  <2>2. x.id = y.id
    BY <2>1 DEF GoodBoard, SoundBoard
  <2> QED
    BY <2>1, <2>2 DEF GoodBoard, SoundBoard
<1> QED
  BY <1>1, BoardInvariant, PTL

(* The project of a task is there, or is the deleted one of a launch, or the *)
(* task came from an inspector that an import or a reset had left open       *)
(* (deleteItem, saveEditor, syncLaunchProgressToBoards).                     *)
THEOREM BoardLinksResolve == BoardSpec => []LinksResolve
<1>1. BoardInv => LinksResolve
  BY DEF BoardInv, GoodBoard, Resolved, LinksResolve, Boards
<1> QED
  BY <1>1, BoardInvariant, PTL

(* Only a page that another one has overtaken, or that imports or resets,    *)
(* can drop a launch or its mark from what is stored (persist, which writes  *)
(* the whole state of the page).                                             *)
THEOREM BoardCurrentPageHasAll == BoardSpec => []CurrentPageHasAll
<1>1. BoardInv => CurrentPageHasAll
  BY DEF BoardInv, Keeps, CurrentPageHasAll
<1> QED
  BY <1>1, BoardInvariant, PTL

-----------------------------------------------------------------------------
(* What captures can say: a record with a title of its own, from anything    *)
(* but a live transcript, is always called the same.                         *)
From == {Name[s] : s \in Sources} \cup Phone

Body == Records \cup Payloads \cup {Synthetic}

Own(n, r) ==
    \E s \in Sources : /\ n = Name[s] /\ r \in Records \ Unnamed
                       /\ ~(s \in Transcripts /\ IsLive(s))

Said == {c \in [from : From, body : Body, title : Nat] : Own(c.from, c.body) => c.title = 0}

(* What an adapter stores is not from the phone.                             *)
Imported == {c \in Said : c.from \notin Phone}

Capture == [what : Said, sealed : BOOLEAN]

Batch == [kind : {"none", "files", "live"}, pos : Nat, step : {"next", "store", "register"},
          todo : Seq(Imported)]

AdaptersTypes ==
    /\ export \in [Sources -> Seq(Records)]
    /\ inbox \in Seq(Capture)
    /\ known \in SUBSET Said
    /\ batch \in Batch
    /\ cut \in Seq(Imported)
    /\ plan \in Plan
    /\ batch.kind # "none" => batch.pos # 0
    /\ batch.step = "register" => batch.todo # << >>

Rows(q, c) == {k \in DOMAIN q : q[k].what = c}

Places(q, c) == {k \in DOMAIN q : q[k] = c}

Claimed(c) == batch.step = "register" /\ Head(batch.todo) = c

(* A content that an adapter stores has one row for its fingerprint or for   *)
(* the import that is about to register it, and one for each import that     *)
(* ended before that.                                                        *)
CopiesAccounted ==
    \A c \in Imported :
        Cardinality(Rows(inbox, c))
          <= (IF c \in known \/ Claimed(c) THEN 1 ELSE 0) + Cardinality(Places(cut, c))

(* The scripts that look at the phone's captures.                            *)
Session == [step : {"idle", "waiting", "counted", "gate", "audit", "audited", "verified",
                    "not_detected"},
            base : Nat, count : Nat, post : BOOLEAN, gate : BOOLEAN,
            before : SUBSET Said, seen : SUBSET Said, deletes : Nat]

Cover == [step : {"idle", "send", "done"}, todo : SUBSET Phone, before : SUBSET Phone,
          after : SUBSET Phone, failed : SUBSET Phone, stale : SUBSET Phone,
          base : Nat, deletes : Nat]

Evidence == [passed : BOOLEAN, gate : BOOLEAN, setup : BOOLEAN, probe : BOOLEAN,
             handoff : BOOLEAN, count : Nat, covered : BOOLEAN]

Audit == [no : Nat, step : {"idle", "inbox", "gate", "setup", "probe", "handoff", "recent",
                            "coverage"},
          ev : Evidence, failed : BOOLEAN, fresh : BOOLEAN,
          verdict : {"none", "not_ready", "ready_owner_action_required", "ready"}]

Written == [made : BOOLEAN, count : Nat, missing : SUBSET Phone, of : Nat]

ScriptTypes ==
    /\ session \in Session
    /\ cover \in Cover
    /\ audit \in Audit
    /\ recentFile \in Written /\ coverFile \in Written

(* While nothing has been deleted, the inbox still starts with what a        *)
(* session saw when it began and when it counted.                            *)
Seen(n) == {inbox[k].what : k \in 1..n}

SessionKnows ==
    session.step \in {"waiting", "counted"} =>
        /\ plan.deletes <= session.deletes
        /\ plan.deletes = session.deletes =>
             /\ session.base <= Len(inbox) /\ session.before = Seen(session.base)
             /\ session.step = "counted" =>
                  /\ session.base <= session.count /\ session.count <= Len(inbox)
                  /\ session.seen = Seen(session.count)

(* A payload that has not been known is stored by its rehearsal, behind what *)
(* there was when the script began.                                          *)
RehearsalKnows ==
    cover.step = "send" =>
        /\ plan.deletes <= cover.deletes
        /\ \A p \in cover.todo \ cover.stale : Content(p, Synthetic, 0) \notin known
        /\ plan.deletes = cover.deletes =>
             /\ cover.base <= Len(inbox)
             /\ \A p \in cover.before \ (cover.todo \cup cover.stale \cup cover.failed) :
                  \E k \in DOMAIN inbox : k > cover.base /\ inbox[k].what.from = p

(* Checks that have passed have been recorded as such, and evidence that is  *)
(* not of this audit was taken because a command failed.                     *)
AuditKnows ==
    /\ audit.step \notin {"idle", "inbox", "gate"} /\ audit.ev.passed => audit.ev.gate
    /\ audit.step \in {"probe", "handoff", "recent", "coverage"} /\ audit.ev.passed =>
         audit.ev.setup
    /\ audit.step \in {"handoff", "recent", "coverage"} /\ audit.ev.passed => audit.ev.probe
    /\ audit.fresh \/ audit.failed
    /\ audit.verdict # "ready_owner_action_required"

PhoneInv ==
    /\ AdaptersTypes /\ CopiesAccounted
    /\ ScriptTypes /\ SessionKnows /\ RehearsalKnows /\ AuditKnows

-----------------------------------------------------------------------------
(* Rows that say c, and how often c was cut off, as sequences grow and lose  *)
(* an element.                                                               *)
LEMMA RowsFinite ==
    ASSUME NEW q \in Seq(Capture), NEW c
    PROVE  IsFiniteSet(Rows(q, c)) /\ Cardinality(Rows(q, c)) \in Nat
<1>1. IsFiniteSet(1..Len(q))
  BY FS_Interval
<1>2. Rows(q, c) \subseteq 1..Len(q)
  BY DEF Rows
<1> QED
  BY <1>1, <1>2, FS_Subset, FS_CardinalityType

LEMMA PlacesFinite ==
    ASSUME NEW q \in Seq(Imported), NEW c
    PROVE  IsFiniteSet(Places(q, c)) /\ Cardinality(Places(q, c)) \in Nat
<1>1. IsFiniteSet(1..Len(q))
  BY FS_Interval
<1>2. Places(q, c) \subseteq 1..Len(q)
  BY DEF Places
<1> QED
  BY <1>1, <1>2, FS_Subset, FS_CardinalityType

LEMMA RowsOfAppend ==
    ASSUME NEW q \in Seq(Capture), NEW x \in Capture, NEW c
    PROVE  Cardinality(Rows(Append(q, x), c))
             = Cardinality(Rows(q, c)) + (IF x.what = c THEN 1 ELSE 0)
<1> DEFINE n == Len(q) + 1
           r == Append(q, x)
<1>1. /\ r \in Seq(Capture) /\ Len(r) = n /\ r[n] = x
      /\ \A k \in 1..Len(q) : r[k] = q[k]
  OBVIOUS
<1>2. Rows(r, c) = Rows(q, c) \cup (IF x.what = c THEN {n} ELSE {})
  <2> HIDE DEF r
  <2> QED
    BY <1>1 DEF Rows
<1>3. n \notin Rows(q, c)
  BY DEF Rows
<1>4. IsFiniteSet(Rows(q, c)) /\ Cardinality(Rows(q, c)) \in Nat
  BY RowsFinite
<1>5. CASE x.what = c
  <2>1. Rows(r, c) = Rows(q, c) \cup {n}
    BY <1>2, <1>5
  <2> QED
    BY <1>3, <1>4, <1>5, <2>1, FS_AddElement
<1>6. CASE x.what # c
  BY <1>2, <1>4, <1>6
<1> QED
  BY <1>5, <1>6

LEMMA PlacesOfAppend ==
    ASSUME NEW q \in Seq(Imported), NEW x \in Imported, NEW c
    PROVE  Cardinality(Places(Append(q, x), c))
             = Cardinality(Places(q, c)) + (IF x = c THEN 1 ELSE 0)
<1> DEFINE n == Len(q) + 1
           r == Append(q, x)
<1>1. /\ r \in Seq(Imported) /\ Len(r) = n /\ r[n] = x
      /\ \A k \in 1..Len(q) : r[k] = q[k]
  OBVIOUS
<1>2. Places(r, c) = Places(q, c) \cup (IF x = c THEN {n} ELSE {})
  <2> HIDE DEF r
  <2> QED
    BY <1>1 DEF Places
<1>3. n \notin Places(q, c)
  BY DEF Places
<1>4. IsFiniteSet(Places(q, c)) /\ Cardinality(Places(q, c)) \in Nat
  BY PlacesFinite
<1>5. CASE x = c
  <2>1. Places(r, c) = Places(q, c) \cup {n}
    BY <1>2, <1>5
  <2> QED
    BY <1>3, <1>4, <1>5, <2>1, FS_AddElement
<1>6. CASE x # c
  BY <1>2, <1>4, <1>6
<1> QED
  BY <1>5, <1>6

LEMMA WithoutOne ==
    ASSUME NEW q \in Seq(Capture), NEW k \in DOMAIN q
    PROVE  LET r == SubSeq(q, 1, k - 1) \o SubSeq(q, k + 1, Len(q)) IN
             /\ r \in Seq(Capture) /\ Len(r) = Len(q) - 1
             /\ \A j \in 1..Len(r) : r[j] = IF j < k THEN q[j] ELSE q[j + 1]
<1> DEFINE a == SubSeq(q, 1, k - 1)
           b == SubSeq(q, k + 1, Len(q))
<1>1. k \in 1..Len(q) /\ Len(q) \in Nat /\ \A j \in 1..Len(q) : q[j] \in Capture
  OBVIOUS
<1>2. a \in Seq(Capture) /\ Len(a) = k - 1 /\ \A j \in 1..(k - 1) : a[j] = q[j]
  <2>1. \A j \in 1..(k - 1) : q[j] \in Capture
    BY <1>1
  <2>2. /\ SubSeq(q, 1, k - 1) \in Seq(Capture)
        /\ Len(SubSeq(q, 1, k - 1)) = IF 1 <= k - 1 THEN k - 1 - 1 + 1 ELSE 0
        /\ \A i \in 1..(k - 1 - 1 + 1) : SubSeq(q, 1, k - 1)[i] = q[1 + i - 1]
    BY <1>1, <2>1, SubSeqProperties
  <2> HIDE DEF a
  <2>3. a \in Seq(Capture) /\ Len(a) = k - 1
    BY <1>1, <2>2 DEF a
  <2>4. ASSUME NEW j \in 1..(k - 1) PROVE a[j] = q[j]
    <3>1. 1 + j - 1 = j /\ j \in 1..(k - 1 - 1 + 1)
      BY <1>1
    <3> QED
      BY <2>2, <3>1 DEF a
  <2> QED
    BY <2>3, <2>4
<1>3. b \in Seq(Capture) /\ Len(b) = Len(q) - k /\ \A j \in 1..(Len(q) - k) : b[j] = q[k + j]
  <2>1. \A j \in (k + 1)..Len(q) : q[j] \in Capture
    BY <1>1
  <2>2. /\ SubSeq(q, k + 1, Len(q)) \in Seq(Capture)
        /\ Len(SubSeq(q, k + 1, Len(q)))
             = IF k + 1 <= Len(q) THEN Len(q) - (k + 1) + 1 ELSE 0
        /\ \A i \in 1..(Len(q) - (k + 1) + 1) : SubSeq(q, k + 1, Len(q))[i] = q[k + 1 + i - 1]
    BY <1>1, <2>1, SubSeqProperties
  <2> HIDE DEF b
  <2>3. b \in Seq(Capture) /\ Len(b) = Len(q) - k
    BY <1>1, <2>2 DEF b
  <2>4. ASSUME NEW j \in 1..(Len(q) - k) PROVE b[j] = q[k + j]
    <3>1. k + 1 + j - 1 = k + j /\ j \in 1..(Len(q) - (k + 1) + 1)
      BY <1>1
    <3> QED
      BY <2>2, <3>1 DEF b
  <2> QED
    BY <2>3, <2>4
<1> DEFINE r == a \o b
<1> HIDE DEF a, b
<1>4. /\ r \in Seq(Capture) /\ Len(r) = Len(q) - 1
      /\ \A i \in 1..(Len(q) - 1) : r[i] = IF i <= k - 1 THEN a[i] ELSE b[i - (k - 1)]
  <2>1. /\ a \o b \in Seq(Capture)
        /\ Len(a \o b) = Len(a) + Len(b)
        /\ \A i \in 1..(Len(a) + Len(b)) :
             (a \o b)[i] = IF i <= Len(a) THEN a[i] ELSE b[i - Len(a)]
    BY <1>2, <1>3, ConcatProperties
  <2>2. Len(a) + Len(b) = Len(q) - 1
    BY <1>1, <1>2, <1>3
  <2> QED
    BY <2>1, <2>2, <1>2
<1> HIDE DEF r
<1>5. ASSUME NEW j \in 1..Len(r) PROVE r[j] = IF j < k THEN q[j] ELSE q[j + 1]
  <2>1. CASE j < k
    <3>1. j \in 1..(k - 1) /\ j \in 1..(Len(q) - 1) /\ j <= k - 1
      BY <1>1, <1>4, <2>1
    <3> QED
      BY <1>2, <1>4, <2>1, <3>1
  <2>2. CASE ~(j < k)
    <3>1. /\ j \in 1..(Len(q) - 1) /\ ~(j <= k - 1)
          /\ j - (k - 1) \in 1..(Len(q) - k) /\ k + (j - (k - 1)) = j + 1
      BY <1>1, <1>4, <2>2
    <3> QED
      BY <1>3, <1>4, <2>2, <3>1
  <2> QED
    BY <2>1, <2>2
<1> QED
  BY <1>4, <1>5 DEF r, a, b

LEMMA RowsOfDelete ==
    ASSUME NEW q \in Seq(Capture), NEW k \in DOMAIN q, NEW c
    PROVE  LET r == SubSeq(q, 1, k - 1) \o SubSeq(q, k + 1, Len(q)) IN
             Cardinality(Rows(r, c)) <= Cardinality(Rows(q, c))
<1> DEFINE r == SubSeq(q, 1, k - 1) \o SubSeq(q, k + 1, Len(q))
           f == [j \in Rows(r, c) |-> IF j < k THEN j ELSE j + 1]
<1>1. /\ r \in Seq(Capture) /\ Len(r) = Len(q) - 1
      /\ \A j \in 1..Len(r) : r[j] = IF j < k THEN q[j] ELSE q[j + 1]
  BY WithoutOne
<1> HIDE DEF r
<1>2. k \in 1..Len(q) /\ Len(q) \in Nat /\ DOMAIN q = 1..Len(q) /\ DOMAIN r = 1..Len(r)
  BY <1>1
<1>3. ASSUME NEW j \in Rows(r, c) PROVE j \in Int /\ f[j] \in Rows(q, c)
  <2>1. j \in 1..Len(r) /\ r[j].what = c
    BY <1>2 DEF Rows
  <2>2. (IF j < k THEN j ELSE j + 1) \in 1..Len(q)
    BY <1>1, <1>2, <2>1
  <2>3. q[IF j < k THEN j ELSE j + 1] = r[j]
    BY <1>1, <2>1
  <2> QED
    BY <1>2, <2>1, <2>2, <2>3 DEF Rows
<1>4. f \in [Rows(r, c) -> Rows(q, c)]
  BY <1>3
<1>5. \A i, j \in Rows(r, c) : f[i] = f[j] => i = j
  <2> SUFFICES ASSUME NEW i \in Rows(r, c), NEW j \in Rows(r, c), f[i] = f[j]
               PROVE  i = j
    OBVIOUS
  <2>1. i \in Int /\ j \in Int /\ k \in Int
    BY <1>2, <1>3
  <2>2. (IF i < k THEN i ELSE i + 1) = (IF j < k THEN j ELSE j + 1)
    OBVIOUS
  <2> QED
    BY <2>1, <2>2
<1> HIDE DEF f
<1>6. f \in Injection(Rows(r, c), Rows(q, c))
  BY <1>4, <1>5 DEF Injection, IsInjective
<1>7. IsFiniteSet(Rows(q, c))
  BY RowsFinite
<1>8. Cardinality(Rows(r, c)) <= Cardinality(Rows(q, c))
  BY <1>6, <1>7, FS_Injection
<1> QED
  BY <1>8 DEF r

-----------------------------------------------------------------------------
(* The adapters.                                                             *)
LEMMA ContentFields ==
    ASSUME NEW n, NEW r, NEW t
    PROVE  /\ Content(n, r, t).from = n /\ Content(n, r, t).body = r
           /\ Content(n, r, t).title = t
  BY DEF Content

LEMMA ImportedIsSaid ==
    /\ Imported \subseteq Said
    /\ \A q : q \in Seq(Imported) => \A k \in 1..Len(q) : q[k] \in Imported
  BY DEF Imported

(* A row that is stored for c.                                               *)
LEMMA StoredIsCapture ==
    ASSUME NEW c \in Said, NEW vault \in BOOLEAN
    PROVE  Stored(c, vault) \in Capture /\ Stored(c, vault).what = c
  BY DEF Stored, Capture

LEMMA ParsedImported ==
    ASSUME export \in [Sources -> Seq(Records)], NEW s \in Sources, NEW temp \in TempNames
    PROVE  Parsed(s, temp) \in Seq(Imported)
<1> DEFINE n == IF Len(export[s]) > Limit THEN Limit ELSE Len(export[s])
           title(k) == IF s \in Transcripts THEN (IF IsLive(s) THEN temp ELSE 0)
                       ELSE IF export[s][k] \in Unnamed THEN k ELSE 0
           e(k) == Content(Name[s], export[s][k], title(k))
<1>1. export[s] \in Seq(Records) /\ Limit \in Nat /\ temp \in Nat
  BY AdaptersAssumption
<1>2. n \in Nat /\ Taken(s) = 1..n /\ \A k \in 1..n : export[s][k] \in Records
  BY <1>1 DEF Taken
<1>3. Name[s] \notin Phone /\ Name[s] \in From
  BY PhoneAssumption DEF From
<1>4. ASSUME NEW k \in 1..n PROVE e(k) \in Imported
  <2>1. export[s][k] \in Records /\ k \in Nat
    BY <1>2
  <2>2. title(k) \in Nat
    BY <1>1, <2>1
  <2>3. Own(Name[s], export[s][k]) => title(k) = 0
    <3> SUFFICES ASSUME NEW u \in Sources, Name[s] = Name[u],
                        export[s][k] \in Records \ Unnamed,
                        ~(u \in Transcripts /\ IsLive(u))
                 PROVE  title(k) = 0
      BY DEF Own
    <3>1. CASE s \in Transcripts
      <4>1. s = u
        BY <3>1, AdaptersAssumption
      <4> QED
        BY <3>1, <4>1
    <3>2. CASE s \notin Transcripts
      BY <3>2
    <3> QED
      BY <3>1, <3>2
  <2> HIDE DEF title
  <2>4. e(k) \in [from : From, body : Body, title : Nat]
    BY <1>3, <2>1, <2>2 DEF Content, Body
  <2>5. e(k).from = Name[s] /\ e(k).body = export[s][k] /\ e(k).title = title(k)
    BY ContentFields
  <2> HIDE DEF e
  <2> QED
    BY <1>3, <2>3, <2>4, <2>5 DEF Said, Imported
<1>5. Parsed(s, temp) = [k \in 1..n |-> e(k)]
  BY <1>2 DEF Parsed
<1> HIDE DEF e, n
<1>6. [k \in 1..n |-> e(k)] \in [1..n -> Imported]
  BY <1>4
<1> QED
  BY <1>2, <1>5, <1>6, SeqDef

(* Rows and cuts stay, and what was claimed or registered still is.          *)
LEMMA AccountsStay ==
    ASSUME CopiesAccounted, inbox \in Seq(Capture), cut \in Seq(Imported),
           inbox' = inbox, cut' = cut,
           \A c \in Imported : c \in known \/ Claimed(c) => c \in known' \/ Claimed(c)'
    PROVE  CopiesAccounted'
<1> SUFFICES ASSUME NEW c \in Imported
             PROVE  Cardinality(Rows(inbox, c))
                      <= (IF c \in known' \/ Claimed(c)' THEN 1 ELSE 0)
                         + Cardinality(Places(cut, c))
  BY DEF CopiesAccounted
<1>1. Cardinality(Rows(inbox, c)) \in Nat /\ Cardinality(Places(cut, c)) \in Nat
  BY RowsFinite, PlacesFinite
<1>2. Cardinality(Rows(inbox, c))
        <= (IF c \in known \/ Claimed(c) THEN 1 ELSE 0) + Cardinality(Places(cut, c))
  BY DEF CopiesAccounted
<1>3. c \in known \/ Claimed(c) => c \in known' \/ Claimed(c)'
  OBVIOUS
<1> QED
  BY <1>1, <1>2, <1>3

LEMMA NoBatchFacts ==
    /\ NoBatch \in Batch /\ NoBatch.kind = "none" /\ NoBatch.step = "next"
    /\ \A b \in Batch : /\ b.kind \in {"none", "files", "live"} /\ b.pos \in Nat
                        /\ b.step \in {"next", "store", "register"} /\ b.todo \in Seq(Imported)
<1>1. << >> \in Seq(Imported)
  BY EmptySeq
<1> QED
  BY <1>1 DEF NoBatch, Batch

LEMMA NextSourceFacts ==
    ASSUME batch \in Batch, batch.kind # "none" => batch.pos # 0
    PROVE  /\ NextSource \in Batch /\ NextSource.step = "next" /\ NextSource.pos # 0
<1>1. << >> \in Seq(Imported)
  BY EmptySeq
<1>2. batch.pos \in Nat
  BY NoBatchFacts
<1>3. batch.pos + 1 \in Nat /\ batch.pos + 1 # 0
  BY <1>2
<1> DEFINE p == batch.pos + 1
<1>4. NextSource = [batch EXCEPT !.pos = p, !.step = "next", !.todo = << >>]
  BY DEF NextSource
<1> HIDE DEF p
<1> QED
  BY <1>1, <1>3, <1>4 DEF Batch, p

LEMMA SpendFacts ==
    ASSUME plan \in Plan
    PROVE  /\ Spend("deletes") => plan' \in Plan /\ plan'.deletes < plan.deletes
           /\ \A what \in {"edits", "faults", "sends", "sessions", "covers", "audits",
                           "summaries"} :
                Spend(what) => plan' \in Plan /\ plan'.deletes = plan.deletes
<1>1. \A what \in {"edits", "deletes", "faults", "sends", "sessions", "covers", "audits",
                   "summaries"} : plan[what] \in Nat
  BY DEF Plan
<1>2. \A what \in {"edits", "deletes", "faults", "sends", "sessions", "covers", "audits",
                   "summaries"} :
        plan[what] > 0 => plan[what] - 1 \in Nat /\ plan[what] - 1 < plan[what]
  BY <1>1
<1>3. \A what \in {"edits", "deletes", "faults", "sends", "sessions", "covers", "audits",
                   "summaries"}, n \in Nat :
        /\ [plan EXCEPT ![what] = n] \in Plan
        /\ [plan EXCEPT ![what] = n]["deletes"] = IF what = "deletes" THEN n ELSE plan["deletes"]
  BY DEF Plan
<1>4. ASSUME NEW what \in {"edits", "deletes", "faults", "sends", "sessions", "covers",
                           "audits", "summaries"}, Spend(what)
      PROVE  /\ plan' \in Plan
             /\ what = "deletes" => plan'["deletes"] < plan["deletes"]
             /\ what # "deletes" => plan'["deletes"] = plan["deletes"]
  <2> DEFINE n == plan[what] - 1
  <2>1. plan[what] > 0 /\ plan' = [plan EXCEPT ![what] = n]
    BY <1>4 DEF Spend
  <2>2. n \in Nat /\ n < plan[what]
    BY <1>2, <2>1
  <2> HIDE DEF n
  <2> QED
    BY <1>3, <2>1, <2>2
<1>5. Spend("deletes") => plan' \in Plan /\ plan'["deletes"] < plan["deletes"]
  BY <1>4
<1>6. ASSUME NEW what \in {"edits", "faults", "sends", "sessions", "covers", "audits",
                           "summaries"}, Spend(what)
      PROVE  plan' \in Plan /\ plan'["deletes"] = plan["deletes"]
  BY <1>4, <1>6
<1> QED
  BY <1>5, <1>6

(* The inbox stays or grows, unless something is deleted.                    *)
Grown ==
    \/ plan'.deletes < plan.deletes
    \/ /\ plan'.deletes = plan.deletes
       /\ \/ inbox' = inbox
          \/ \E x \in Capture : inbox' = Append(inbox, x)

AdaptersSound ==
    /\ AdaptersTypes' /\ CopiesAccounted'
    /\ Grown /\ known' \subseteq known \cup Imported

(* A step of a batch that stores and registers nothing.                      *)
LEMMA BatchMoves ==
    ASSUME AdaptersTypes, CopiesAccounted, batch' \in Batch,
           batch'.kind # "none" => batch'.pos # 0, batch'.step # "register",
           batch.step # "register",
           UNCHANGED <<export, inbox, known, cut, plan>>
    PROVE  AdaptersSound
<1>1. AdaptersTypes'
  BY DEF AdaptersTypes
<1>2. CopiesAccounted'
  BY AccountsStay DEF AdaptersTypes, Claimed
<1> QED
  BY <1>1, <1>2 DEF AdaptersSound, Grown

LEMMA EditSound ==
    ASSUME AdaptersTypes, CopiesAccounted, NEW s \in Sources, NEW x \in Exports, Edit(s, x)
    PROVE  AdaptersSound
<1>1. x \in Seq(Records)
  BY AdaptersAssumption
<1>2. plan' \in Plan /\ plan'.deletes = plan.deletes
  BY SpendFacts DEF Edit, AdaptersTypes
<1>3. AdaptersTypes'
  BY <1>1, <1>2 DEF AdaptersTypes, Edit
<1>4. CopiesAccounted'
  BY AccountsStay DEF AdaptersTypes, Claimed, Edit
<1> QED
  BY <1>2, <1>3, <1>4 DEF AdaptersSound, Grown, Edit

LEMMA DeleteSound ==
    ASSUME AdaptersTypes, CopiesAccounted, NEW k \in DOMAIN inbox, Delete(k)
    PROVE  AdaptersSound
<1> DEFINE r == SubSeq(inbox, 1, k - 1) \o SubSeq(inbox, k + 1, Len(inbox))
<1>1. inbox \in Seq(Capture) /\ cut \in Seq(Imported)
  BY DEF AdaptersTypes
<1>2. r \in Seq(Capture) /\ \A c : Cardinality(Rows(r, c)) <= Cardinality(Rows(inbox, c))
  BY <1>1, WithoutOne, RowsOfDelete
<1>3. inbox' = r
  BY DEF Delete
<1>4. plan' \in Plan /\ plan'.deletes < plan.deletes
  BY SpendFacts DEF Delete, AdaptersTypes
<1> HIDE DEF r
<1>5. AdaptersTypes'
  BY <1>2, <1>3, <1>4 DEF AdaptersTypes, Delete
<1>6. CopiesAccounted'
  <2> SUFFICES ASSUME NEW c \in Imported
               PROVE  Cardinality(Rows(r, c))
                        <= (IF c \in known \/ Claimed(c) THEN 1 ELSE 0)
                           + Cardinality(Places(cut, c))
    BY <1>3 DEF CopiesAccounted, Delete, Claimed
  <2>1. /\ Cardinality(Rows(r, c)) \in Nat /\ Cardinality(Rows(inbox, c)) \in Nat
        /\ Cardinality(Places(cut, c)) \in Nat
    BY <1>1, <1>2, RowsFinite, PlacesFinite
  <2>2. Cardinality(Rows(inbox, c))
          <= (IF c \in known \/ Claimed(c) THEN 1 ELSE 0) + Cardinality(Places(cut, c))
    BY DEF CopiesAccounted
  <2> QED
    BY <1>2, <2>1, <2>2
<1> QED
  BY <1>4, <1>5, <1>6 DEF AdaptersSound, Grown, Delete

LEMMA StartBatchSound ==
    ASSUME AdaptersTypes, CopiesAccounted, NEW kind \in {"files", "live"}, StartBatch(kind)
    PROVE  AdaptersSound
<1>1. batch' = [NoBatch EXCEPT !.kind = kind, !.pos = 1] /\ batch.step = "next"
  BY NoBatchFacts DEF StartBatch
<1>2. batch' \in Batch /\ batch'.pos # 0 /\ batch'.step = "next"
  <2>1. batch' = [kind |-> kind, pos |-> 1, step |-> "next", todo |-> << >>]
    BY <1>1 DEF NoBatch
  <2>2. << >> \in Seq(Imported)
    BY EmptySeq
  <2> QED
    BY <2>1, <2>2 DEF Batch
<1> QED
  BY <1>1, <1>2, BatchMoves DEF StartBatch

(* The source a batch is at.                                                 *)
LEMMA SourceFacts ==
    ASSUME AdaptersTypes, batch.kind # "none", batch.pos <= Len(Order(batch))
    PROVE  Source \in Sources
<1>1. batch.pos \in Nat /\ batch.pos # 0
  BY NoBatchFacts DEF AdaptersTypes
<1>2. Order(batch) \in Seq(Sources)
  BY AdaptersAssumption DEF Order
<1> QED
  BY <1>1, <1>2 DEF Source

LEMMA AfterFailureFacts ==
    ASSUME AdaptersTypes
    PROVE  /\ AfterFailure \in Batch /\ AfterFailure.step = "next"
           /\ AfterFailure.kind # "none" => AfterFailure.pos # 0
  BY NoBatchFacts, NextSourceFacts DEF AdaptersTypes, AfterFailure

LEMMA StoreRowSound ==
    ASSUME AdaptersTypes, CopiesAccounted, StoreRow
    PROVE  AdaptersSound
<1> DEFINE c == Head(batch.todo)
           x == Stored(c, TRUE)
<1>1. /\ batch \in Batch /\ inbox \in Seq(Capture) /\ cut \in Seq(Imported)
      /\ batch.todo \in Seq(Imported)
  BY NoBatchFacts DEF AdaptersTypes
<1>2. /\ batch.step = "store" /\ batch.todo # << >> /\ c \notin known
      /\ inbox' = Append(inbox, x) /\ batch' = [batch EXCEPT !.step = "register"]
      /\ UNCHANGED <<export, known, cut, plan>>
  BY DEF StoreRow, NextFits
<1>3. c \in Imported
  BY <1>1, <1>2
<1> HIDE DEF c
<1>4. x \in Capture /\ x.what = c
  BY <1>3, ImportedIsSaid, StoredIsCapture
<1> HIDE DEF x
<1>5. /\ batch' \in Batch /\ batch'.step = "register" /\ batch'.todo = batch.todo
      /\ batch'.kind = batch.kind /\ batch'.pos = batch.pos
  BY <1>1, <1>2 DEF Batch
<1>6. inbox' \in Seq(Capture)
  BY <1>1, <1>2, <1>4
<1>7. AdaptersTypes'
  BY <1>2, <1>5, <1>6 DEF AdaptersTypes
<1>8. CopiesAccounted'
  <2> SUFFICES ASSUME NEW d \in Imported
               PROVE  Cardinality(Rows(inbox', d))
                        <= (IF d \in known \/ d = c THEN 1 ELSE 0) + Cardinality(Places(cut, d))
    BY <1>2, <1>5 DEF CopiesAccounted, Claimed, c
  <2>1. Cardinality(Rows(inbox', d))
          = Cardinality(Rows(inbox, d)) + (IF x.what = d THEN 1 ELSE 0)
    BY <1>1, <1>2, <1>4, RowsOfAppend
  <2>2. /\ Cardinality(Rows(inbox, d)) \in Nat
        /\ Cardinality(Places(cut, d)) \in Nat
    BY <1>1, RowsFinite, PlacesFinite
  <2>3. Cardinality(Rows(inbox, d)) <= (IF d \in known THEN 1 ELSE 0) + Cardinality(Places(cut, d))
    BY <1>2 DEF CopiesAccounted, Claimed
  <2> QED
    BY <1>2, <1>4, <2>1, <2>2, <2>3
<1> QED
  BY <1>2, <1>4, <1>7, <1>8 DEF AdaptersSound, Grown

LEMMA RegisterRowSound ==
    ASSUME AdaptersTypes, CopiesAccounted, RegisterRow
    PROVE  AdaptersSound
<1> DEFINE c == Head(batch.todo)
<1>1. /\ batch \in Batch /\ inbox \in Seq(Capture) /\ cut \in Seq(Imported)
      /\ batch.todo \in Seq(Imported)
  BY NoBatchFacts DEF AdaptersTypes
<1>2. /\ batch.step = "register" /\ batch.todo # << >>
      /\ known' = known \cup {c}
      /\ batch' = [batch EXCEPT !.step = "store", !.todo = Tail(@)]
      /\ UNCHANGED <<export, inbox, cut, plan>>
  BY DEF RegisterRow, AdaptersTypes
<1>3. c \in Imported /\ Tail(batch.todo) \in Seq(Imported)
  BY <1>1, <1>2
<1>4. /\ batch' \in Batch /\ batch'.step = "store"
      /\ batch'.kind = batch.kind /\ batch'.pos = batch.pos
  <2> DEFINE rest == Tail(batch.todo)
  <2>1. batch' = [batch EXCEPT !.step = "store", !.todo = rest]
    BY <1>2
  <2> HIDE DEF rest
  <2>2. rest \in Seq(Imported)
    BY <1>3 DEF rest
  <2> QED
    BY <1>1, <2>1, <2>2 DEF Batch
<1> HIDE DEF c
<1>5. AdaptersTypes'
  BY <1>2, <1>3, <1>4, ImportedIsSaid DEF AdaptersTypes
<1>6. \A d \in Imported : d \in known \/ Claimed(d) => d \in known'
  BY <1>2 DEF Claimed, c
<1>7. CopiesAccounted'
  BY <1>1, <1>2, <1>6, AccountsStay
<1> QED
  BY <1>2, <1>3, <1>5, <1>7 DEF AdaptersSound, Grown

LEMMA ImportEndsSound ==
    ASSUME AdaptersTypes, CopiesAccounted, NEW timeUp \in BOOLEAN, ImportEnds(timeUp)
    PROVE  AdaptersSound
<1>1. /\ batch \in Batch /\ inbox \in Seq(Capture) /\ cut \in Seq(Imported)
      /\ batch.todo \in Seq(Imported)
  BY NoBatchFacts DEF AdaptersTypes
<1>2. plan' \in Plan /\ plan'.deletes = plan.deletes
  BY SpendFacts DEF ImportEnds, AdaptersTypes
<1>3. /\ batch' \in Batch /\ batch'.step = "next"
      /\ batch'.kind # "none" => batch'.pos # 0
  BY AfterFailureFacts, NoBatchFacts DEF ImportEnds
<1>4. UNCHANGED <<export, inbox, known>>
  BY DEF ImportEnds
<1>5. CASE batch.step # "register"
  <2>1. cut' = cut
    BY <1>5 DEF ImportEnds
  <2>2. AdaptersTypes'
    BY <1>2, <1>3, <1>4, <2>1 DEF AdaptersTypes
  <2>3. CopiesAccounted'
    BY <1>1, <1>4, <1>5, <2>1, AccountsStay DEF Claimed
  <2> QED
    BY <1>2, <1>4, <2>2, <2>3 DEF AdaptersSound, Grown
<1>6. CASE batch.step = "register"
  <2> DEFINE c == Head(batch.todo)
  <2>1. cut' = Append(cut, c) /\ batch.todo # << >>
    BY <1>6 DEF ImportEnds, AdaptersTypes
  <2>2. c \in Imported
    BY <1>1, <2>1
  <2> HIDE DEF c
  <2>3. cut' \in Seq(Imported)
    BY <1>1, <2>1, <2>2
  <2>4. AdaptersTypes'
    BY <1>2, <1>3, <1>4, <2>3 DEF AdaptersTypes
  <2>5. CopiesAccounted'
    <3> SUFFICES ASSUME NEW d \in Imported
                 PROVE  Cardinality(Rows(inbox, d))
                          <= (IF d \in known THEN 1 ELSE 0) + Cardinality(Places(cut', d))
      BY <1>3, <1>4 DEF CopiesAccounted, Claimed
    <3>1. Cardinality(Places(cut', d)) = Cardinality(Places(cut, d)) + (IF c = d THEN 1 ELSE 0)
      BY <1>1, <2>1, <2>2, PlacesOfAppend
    <3>2. /\ Cardinality(Rows(inbox, d)) \in Nat
          /\ Cardinality(Places(cut, d)) \in Nat
      BY <1>1, RowsFinite, PlacesFinite
    <3>3. Cardinality(Rows(inbox, d))
            <= (IF d \in known \/ d = c THEN 1 ELSE 0) + Cardinality(Places(cut, d))
      BY <1>6 DEF CopiesAccounted, Claimed, c
    <3> QED
      BY <3>1, <3>2, <3>3
  <2> QED
    BY <1>2, <1>4, <2>4, <2>5 DEF AdaptersSound, Grown
<1> QED
  BY <1>5, <1>6

LEMMA AdaptersNextSound ==
    ASSUME AdaptersTypes, CopiesAccounted, AdaptersNext
    PROVE  AdaptersSound
<1>1. ASSUME NEW temp \in TempNames, Open(temp) PROVE AdaptersSound
  <2>1. Parsed(Source, temp) \in Seq(Imported)
    BY <1>1, SourceFacts, ParsedImported DEF Open, AdaptersTypes
  <2> DEFINE q == Parsed(Source, temp)
  <2>2. batch' = [batch EXCEPT !.step = "store", !.todo = q] /\ batch \in Batch
    BY <1>1 DEF Open, AdaptersTypes
  <2> HIDE DEF q
  <2>3. /\ batch' \in Batch /\ batch'.step = "store" /\ batch'.pos = batch.pos
        /\ batch'.kind = batch.kind
    <3>1. q \in Seq(Imported)
      BY <2>1 DEF q
    <3> QED
      BY <2>2, <3>1 DEF Batch
  <2> QED
    BY <1>1, <2>3, BatchMoves DEF Open, AdaptersTypes
<1>2. CASE Unreadable
  BY <1>2, AfterFailureFacts, BatchMoves DEF Unreadable
<1>3. CASE SkipRecord
  <2> DEFINE rest == Tail(batch.todo)
  <2>1. batch' = [batch EXCEPT !.todo = rest] /\ batch \in Batch /\ batch.step = "store"
    BY <1>3 DEF SkipRecord, NextFits, AdaptersTypes
  <2>2. rest \in Seq(Imported)
    BY <1>3, NoBatchFacts DEF SkipRecord, NextFits, AdaptersTypes
  <2> HIDE DEF rest
  <2>3. /\ batch' \in Batch /\ batch'.step = "store" /\ batch'.pos = batch.pos
        /\ batch'.kind = batch.kind
    BY <2>1, <2>2 DEF Batch
  <2> QED
    BY <1>3, <2>1, <2>3, BatchMoves DEF SkipRecord, AdaptersTypes
<1>4. CASE CloseSource
  BY <1>4, NextSourceFacts, BatchMoves DEF CloseSource, AdaptersTypes
<1>5. CASE EndBatch
  BY <1>5, NoBatchFacts, BatchMoves DEF EndBatch
<1>6. CASE RejectRecord
  BY <1>6, AfterFailureFacts, BatchMoves DEF RejectRecord
<1>7. CASE BatchStep
  BY <1>1, <1>2, <1>3, <1>4, <1>5, <1>6, <1>7, StoreRowSound, RegisterRowSound DEF BatchStep
<1> QED
  BY <1>7, EditSound, DeleteSound, StartBatchSound, ImportEndsSound DEF AdaptersNext

(* What the phone and its rehearsals send goes straight to the companion.    *)
LEMMA AcceptSound ==
    ASSUME AdaptersTypes, CopiesAccounted, NEW c \in Said, c.from \in Phone,
           NEW vault \in BOOLEAN, Accept(c, vault), plan' \in Plan,
           plan'.deletes = plan.deletes, UNCHANGED <<export, batch, cut>>
    PROVE  /\ AdaptersTypes' /\ CopiesAccounted' /\ Grown
           /\ known' = known \cup {c}
           /\ c \notin known => inbox' = Append(inbox, Stored(c, vault))
           /\ c \in known => inbox' = inbox
<1>1. inbox \in Seq(Capture) /\ cut \in Seq(Imported)
  BY DEF AdaptersTypes
<1>2. CASE c \in known
  <2>1. inbox' = inbox /\ known' = known
    BY <1>2 DEF Accept
  <2>2. AdaptersTypes'
    BY <2>1 DEF AdaptersTypes
  <2>3. CopiesAccounted'
    BY <1>1, <2>1, AccountsStay DEF Claimed
  <2> QED
    BY <1>2, <2>1, <2>2, <2>3 DEF Grown
<1>3. CASE c \notin known
  <2> DEFINE x == Stored(c, vault)
  <2>1. inbox' = Append(inbox, x) /\ known' = known \cup {c}
    BY <1>3 DEF Accept
  <2>2. x \in Capture /\ x.what = c
    BY StoredIsCapture
  <2> HIDE DEF x
  <2>3. inbox' \in Seq(Capture)
    BY <1>1, <2>1, <2>2
  <2>4. AdaptersTypes'
    BY <2>1, <2>3 DEF AdaptersTypes
  <2>5. CopiesAccounted'
    <3> SUFFICES ASSUME NEW d \in Imported
                 PROVE  Cardinality(Rows(inbox', d))
                          <= (IF d \in known' \/ Claimed(d) THEN 1 ELSE 0)
                             + Cardinality(Places(cut, d))
      BY DEF CopiesAccounted, Claimed
    <3>1. d # c
      BY DEF Imported
    <3>2. Cardinality(Rows(inbox', d)) = Cardinality(Rows(inbox, d)) + 0
      BY <1>1, <2>1, <2>2, <3>1, RowsOfAppend
    <3>3. Cardinality(Rows(inbox, d)) \in Nat
      BY <1>1, RowsFinite
    <3>4. Cardinality(Rows(inbox, d))
            <= (IF d \in known \/ Claimed(d) THEN 1 ELSE 0) + Cardinality(Places(cut, d))
      BY DEF CopiesAccounted
    <3>5. d \in known' <=> d \in known
      BY <2>1, <3>1
    <3> QED
      BY <3>2, <3>3, <3>4, <3>5
  <2> QED
    BY <1>3, <2>1, <2>2, <2>4, <2>5 DEF Grown, x
<1> QED
  BY <1>2, <1>3

-----------------------------------------------------------------------------
(* The scripts that look at the phone's captures.                            *)

(* Nothing happens to the inbox.                                             *)
Quiet ==
    /\ UNCHANGED <<export, inbox, known, batch, cut>>
    /\ plan' \in Plan /\ plan'.deletes = plan.deletes

(* What a step must keep for the scripts that take no part in it.            *)
Steady ==
    /\ AdaptersTypes' /\ CopiesAccounted' /\ Grown
    /\ \A p \in Phone : Content(p, Synthetic, 0) \notin known =>
                          Content(p, Synthetic, 0) \notin known'

LEMMA PlanFacts ==
    ASSUME AdaptersTypes
    PROVE  plan \in Plan /\ plan.deletes \in Nat /\ Len(inbox) \in Nat
           /\ \A k \in 1..Len(inbox) : inbox[k] \in Capture /\ inbox[k].what \in Said
<1>1. plan \in Plan /\ inbox \in Seq(Capture)
  BY DEF AdaptersTypes
<1>2. \A x \in Capture : x.what \in Said
  BY DEF Capture
<1> QED
  BY <1>1, <1>2 DEF Plan

LEMMA QuietIsSteady ==
    ASSUME AdaptersTypes, CopiesAccounted, Quiet
    PROVE  Steady
<1>1. AdaptersTypes'
  BY DEF AdaptersTypes, Quiet
<1>2. CopiesAccounted'
  BY AccountsStay DEF AdaptersTypes, Claimed, Quiet
<1> QED
  BY <1>1, <1>2 DEF Steady, Grown, Quiet

LEMMA SoundIsSteady ==
    ASSUME AdaptersSound
    PROVE  Steady
  BY ContentFields DEF AdaptersSound, Steady, Imported

(* How the inbox looks after a step in which nothing is deleted.             *)
LEMMA GrownFacts ==
    ASSUME AdaptersTypes, Grown, plan'.deletes = plan.deletes
    PROVE  /\ Len(inbox) <= Len(inbox')
           /\ DOMAIN inbox \subseteq DOMAIN inbox'
           /\ \A k \in DOMAIN inbox : inbox'[k] = inbox[k]
           /\ \A n \in Nat : n <= Len(inbox) => Seen(n)' = Seen(n)
<1>1. inbox \in Seq(Capture) /\ plan.deletes \in Nat
  BY PlanFacts DEF AdaptersTypes
<1>2. ~(plan'.deletes < plan.deletes)
  BY <1>1
<1>3. inbox' = inbox \/ \E x \in Capture : inbox' = Append(inbox, x)
  BY <1>2 DEF Grown
<1>4. /\ Len(inbox) <= Len(inbox')
      /\ DOMAIN inbox \subseteq DOMAIN inbox'
      /\ \A k \in DOMAIN inbox : inbox'[k] = inbox[k]
  BY <1>1, <1>3
<1>5. ASSUME NEW n \in Nat, n <= Len(inbox) PROVE Seen(n)' = Seen(n)
  <2>1. \A k \in 1..n : inbox'[k].what = inbox[k].what
    BY <1>1, <1>4, <1>5
  <2> QED
    BY <2>1 DEF Seen
<1> QED
  BY <1>4, <1>5

LEMMA GrownCounts ==
    ASSUME AdaptersTypes, Grown, AdaptersTypes'
    PROVE  /\ plan'.deletes \in Nat /\ plan.deletes \in Nat /\ plan'.deletes <= plan.deletes
           /\ \A d \in Nat : plan.deletes <= d /\ plan'.deletes = d => plan.deletes = d
<1>1. plan.deletes \in Nat
  BY PlanFacts
<1>2. plan' \in Plan
  BY DEF AdaptersTypes
<1>3. plan'.deletes \in Nat
  BY <1>2 DEF Plan
<1> QED
  BY <1>1, <1>3 DEF Grown

LEMMA SessionStays ==
    ASSUME AdaptersTypes, AdaptersTypes', Grown, session \in Session, SessionKnows, session' = session
    PROVE  SessionKnows'
<1> SUFFICES ASSUME session.step \in {"waiting", "counted"}
             PROVE  /\ plan'.deletes <= session.deletes
                    /\ plan'.deletes = session.deletes =>
                         /\ session.base <= Len(inbox')
                         /\ session.before = Seen(session.base)'
                         /\ session.step = "counted" =>
                              /\ session.base <= session.count /\ session.count <= Len(inbox')
                              /\ session.seen = Seen(session.count)'
  BY DEF SessionKnows, Seen
<1>1. /\ session.base \in Nat /\ session.count \in Nat /\ session.deletes \in Nat
  BY DEF Session
<1>2. /\ plan'.deletes \in Nat /\ plan.deletes \in Nat /\ plan'.deletes <= plan.deletes
      /\ plan.deletes <= session.deletes
  BY GrownCounts DEF SessionKnows
<1>3. plan'.deletes <= session.deletes
  BY <1>1, <1>2
<1>4. ASSUME plan'.deletes = session.deletes
      PROVE  /\ session.base <= Len(inbox')
             /\ session.before = Seen(session.base)'
             /\ session.step = "counted" =>
                  /\ session.base <= session.count /\ session.count <= Len(inbox')
                  /\ session.seen = Seen(session.count)'
  <2>1. plan.deletes = session.deletes /\ plan'.deletes = plan.deletes
    BY <1>1, <1>2, <1>4
  <2>2. /\ session.base <= Len(inbox) /\ session.before = Seen(session.base)
        /\ session.step = "counted" =>
             /\ session.base <= session.count /\ session.count <= Len(inbox)
             /\ session.seen = Seen(session.count)
    BY <2>1 DEF SessionKnows
  <2>3. /\ Len(inbox) <= Len(inbox')
        /\ \A n \in Nat : n <= Len(inbox) => Seen(n)' = Seen(n)
    BY <2>1, GrownFacts
  <2>4. Len(inbox) \in Nat /\ Len(inbox') \in Nat
    BY PlanFacts DEF AdaptersTypes
  <2> QED
    BY <1>1, <2>2, <2>3, <2>4
<1> QED
  BY <1>3, <1>4

LEMMA CoverStays ==
    ASSUME AdaptersTypes, Steady, cover \in Cover, RehearsalKnows, cover' = cover
    PROVE  RehearsalKnows'
<1> SUFFICES ASSUME cover.step = "send"
             PROVE  /\ plan'.deletes <= cover.deletes
                    /\ \A p \in cover.todo \ cover.stale : Content(p, Synthetic, 0) \notin known'
                    /\ plan'.deletes = cover.deletes =>
                         /\ cover.base <= Len(inbox')
                         /\ \A p \in cover.before \ (cover.todo \cup cover.stale \cup cover.failed) :
                              \E k \in DOMAIN inbox' : k > cover.base /\ inbox'[k].what.from = p
  BY DEF RehearsalKnows
<1>1. cover.base \in Nat /\ cover.deletes \in Nat /\ cover.todo \subseteq Phone
  BY DEF Cover
<1>2. /\ plan'.deletes \in Nat /\ plan.deletes \in Nat /\ plan'.deletes <= plan.deletes
      /\ plan.deletes <= cover.deletes
  BY GrownCounts DEF Steady, RehearsalKnows
<1>3. plan'.deletes <= cover.deletes
  BY <1>1, <1>2
<1>4. \A p \in cover.todo \ cover.stale : Content(p, Synthetic, 0) \notin known'
  BY <1>1 DEF Steady, RehearsalKnows
<1>5. ASSUME plan'.deletes = cover.deletes
      PROVE  /\ cover.base <= Len(inbox')
             /\ \A p \in cover.before \ (cover.todo \cup cover.stale \cup cover.failed) :
                  \E k \in DOMAIN inbox' : k > cover.base /\ inbox'[k].what.from = p
  <2>1. plan.deletes = cover.deletes /\ plan'.deletes = plan.deletes
    BY <1>1, <1>2, <1>5
  <2>2. /\ cover.base <= Len(inbox)
        /\ \A p \in cover.before \ (cover.todo \cup cover.stale \cup cover.failed) :
             \E k \in DOMAIN inbox : k > cover.base /\ inbox[k].what.from = p
    BY <2>1 DEF RehearsalKnows
  <2>3. /\ Len(inbox) <= Len(inbox') /\ DOMAIN inbox \subseteq DOMAIN inbox'
        /\ \A k \in DOMAIN inbox : inbox'[k] = inbox[k]
    BY <2>1, GrownFacts DEF Steady
  <2>4. Len(inbox) \in Nat /\ Len(inbox') \in Nat
    BY PlanFacts DEF Steady, AdaptersTypes
  <2> QED
    BY <1>1, <2>2, <2>3, <2>4
<1> QED
  BY <1>3, <1>4, <1>5

LEMMA AuditStays ==
    ASSUME AuditKnows, audit' = audit
    PROVE  AuditKnows'
  BY DEF AuditKnows

LEMMA SessionDone ==
    ASSUME session' \in Session, session'.step \notin {"waiting", "counted"}
    PROVE  SessionKnows'
  BY DEF SessionKnows

LEMMA ContentsAreSeen ==
    ASSUME AdaptersTypes
    PROVE  Contents = Seen(Len(inbox)) /\ Contents \in SUBSET Said
<1>1. inbox \in Seq(Capture)
  BY DEF AdaptersTypes
<1>2. DOMAIN inbox = 1..Len(inbox)
  BY <1>1
<1> QED
  BY <1>2, PlanFacts DEF Contents, Seen

LEMMA PhoneCountType ==
    ASSUME AdaptersTypes
    PROVE  PhoneCount \in Nat
<1>1. inbox \in Seq(Capture)
  BY DEF AdaptersTypes
<1>2. {k \in Recent : IsPhone(k)} \subseteq 1..Len(inbox)
  BY <1>1 DEF Recent
<1>3. IsFiniteSet(1..Len(inbox))
  BY <1>1, FS_Interval
<1> QED
  BY <1>2, <1>3, FS_Subset, FS_CardinalityType DEF PhoneCount

(* A step of the session script alone.                                       *)
LEMMA SessionMoves ==
    ASSUME PhoneInv, Quiet, session' \in Session, SessionKnows',
           UNCHANGED <<cover, audit, recentFile, coverFile>>
    PROVE  PhoneInv'
<1>1. Steady
  BY QuietIsSteady DEF PhoneInv
<1>2. RehearsalKnows'
  BY <1>1, CoverStays DEF PhoneInv, ScriptTypes
<1>3. AuditKnows'
  BY AuditStays DEF PhoneInv
<1> QED
  BY <1>1, <1>2, <1>3 DEF PhoneInv, Steady, ScriptTypes

LEMMA StepIsQuiet ==
    ASSUME AdaptersTypes, UNCHANGED adapterVars
    PROVE  Quiet
  BY DEF AdaptersTypes, adapterVars, Quiet

LEMMA StartSessionInv ==
    ASSUME PhoneInv, NEW post \in BOOLEAN, StartSession(post)
    PROVE  PhoneInv'
<1> DEFINE b == Len(inbox)
           d == plan.deletes
           C == Contents
<1>1. AdaptersTypes /\ b \in Nat /\ d \in Nat /\ C \in SUBSET Said /\ C = Seen(b)
  BY PlanFacts, ContentsAreSeen DEF PhoneInv
<1>2. Quiet
  BY <1>1, SpendFacts DEF Quiet, StartSession, AdaptersTypes
<1>3. session' = [step |-> "waiting", base |-> b, count |-> 0, post |-> post, gate |-> FALSE,
                  before |-> C, seen |-> {}, deletes |-> d]
  BY DEF StartSession, NoSession
<1>4. UNCHANGED <<inbox, cover, audit, recentFile, coverFile>>
  BY DEF StartSession
<1> HIDE DEF b, C, d
<1>5. /\ session' \in Session /\ session'.step = "waiting" /\ session'.base = b
      /\ session'.before = C /\ session'.deletes = d
  BY <1>1, <1>3 DEF Session
<1>6. SessionKnows'
  <2>1. Seen(b)' = Seen(b)
    BY <1>4 DEF Seen, b
  <2>2. plan'.deletes = d /\ Len(inbox') = b
    BY <1>2, <1>4 DEF Quiet, b, d
  <2> QED
    BY <1>1, <1>5, <2>1, <2>2, <1>4 DEF SessionKnows, Seen
<1> QED
  BY <1>2, <1>4, <1>5, <1>6, SessionMoves

LEMMA CountInv ==
    ASSUME PhoneInv, Count
    PROVE  PhoneInv'
<1> DEFINE n == Len(inbox)
           C == Contents
<1>1. /\ AdaptersTypes /\ n \in Nat /\ C \in SUBSET Said /\ C = Seen(n)
      /\ session \in Session
  BY PlanFacts, ContentsAreSeen DEF PhoneInv, ScriptTypes
<1>2. /\ session.step = "waiting"
      /\ session' = [session EXCEPT !.step = "counted", !.count = n, !.seen = C]
      /\ UNCHANGED <<adapterVars, cover, audit, recentFile, coverFile>>
  BY DEF Count, SessionStep
<1>3. Quiet /\ inbox' = inbox /\ plan' = plan
  BY <1>1, <1>2, StepIsQuiet DEF adapterVars
<1>4. /\ plan.deletes <= session.deletes
      /\ plan.deletes = session.deletes =>
           n >= session.base /\ session.before = Seen(session.base)
  BY <1>1, <1>2 DEF PhoneInv, SessionKnows, Session
<1> HIDE DEF n, C
<1>5. /\ session' \in Session /\ session'.step = "counted" /\ session'.base = session.base
      /\ session'.count = n /\ session'.seen = C
      /\ session'.before = session.before /\ session'.deletes = session.deletes
  BY <1>1, <1>2 DEF Session
<1>6. session.base \in Nat /\ \A k : Seen(k)' = Seen(k)
  BY <1>1, <1>3 DEF Session, Seen
<1>7. SessionKnows'
  BY <1>1, <1>3, <1>4, <1>5, <1>6 DEF SessionKnows, Seen, n
<1> QED
  BY <1>2, <1>3, <1>5, <1>7, SessionMoves

LEMMA PollInv ==
    ASSUME PhoneInv, Poll
    PROVE  PhoneInv'
<1>1. AdaptersTypes /\ session \in Session
  BY DEF PhoneInv, ScriptTypes
<1>2. /\ session.step = "counted"
      /\ session' = [session EXCEPT !.step = "waiting", !.count = 0, !.seen = {}]
      /\ UNCHANGED <<adapterVars, cover, audit, recentFile, coverFile>>
  BY DEF Poll, SessionStep
<1>3. Quiet /\ inbox' = inbox /\ plan' = plan
  BY <1>1, <1>2, StepIsQuiet DEF adapterVars
<1>4. /\ session' \in Session /\ session'.step = "waiting" /\ session'.base = session.base
      /\ session'.before = session.before /\ session'.deletes = session.deletes
  BY <1>1, <1>2 DEF Session
<1>5. SessionKnows'
  BY <1>2, <1>3, <1>4 DEF PhoneInv, SessionKnows, Seen
<1> QED
  BY <1>2, <1>3, <1>4, <1>5, SessionMoves

(* The session leaves the loop.                                              *)
LEMMA SessionGoesOn ==
    ASSUME PhoneInv, NEW s, session' = [session EXCEPT !.step = s],
           s \in {"gate", "verified", "not_detected", "audited"},
           UNCHANGED <<adapterVars, cover, audit, recentFile, coverFile>>
    PROVE  PhoneInv'
<1>1. AdaptersTypes /\ session \in Session
  BY DEF PhoneInv, ScriptTypes
<1>2. session' \in Session /\ session'.step = s
  BY <1>1 DEF Session
<1> QED
  BY <1>1, <1>2, StepIsQuiet, SessionDone, SessionMoves

LEMMA SessionGateInv ==
    ASSUME PhoneInv, NEW outside \in BOOLEAN, SessionGate(outside)
    PROVE  PhoneInv'
<1> DEFINE g == GateReady(outside)
<1>1. AdaptersTypes /\ session \in Session
  BY DEF PhoneInv, ScriptTypes
<1>2. /\ session' = [session EXCEPT !.step = "audit", !.gate = g] /\ g \in BOOLEAN
      /\ UNCHANGED <<adapterVars, cover, audit, recentFile, coverFile>>
  BY DEF SessionGate, SessionStep, GateReady, SealedInbox
<1> HIDE DEF g
<1>3. session' \in Session /\ session'.step = "audit"
  BY <1>1, <1>2 DEF Session
<1> QED
  BY <1>1, <1>2, <1>3, StepIsQuiet, SessionDone, SessionMoves

-----------------------------------------------------------------------------
(* The rehearsal of missing sources.                                         *)
LEMMA SyntheticFacts ==
    ASSUME NEW p \in Phone
    PROVE  /\ Content(p, Synthetic, 0) \in Said /\ Content(p, Synthetic, 0).from = p
           /\ Content(p, Synthetic, 0).from \in Phone
           /\ \A q : Content(p, Synthetic, 0) = Content(q, Synthetic, 0) => p = q
  BY DEF Content, Said, From, Body

LEMMA SentFacts ==
    ASSUME NEW p \in Phone, NEW m \in Payloads
    PROVE  /\ Content(p, m, 0) \in Said /\ Content(p, m, 0).from \in Phone
           /\ \A q \in Phone : Content(p, m, 0) # Content(q, Synthetic, 0)
  BY PhoneAssumption DEF Content, Said, From, Body

(* A step of the coverage script.                                            *)
LEMMA CoverMoves ==
    ASSUME PhoneInv, AdaptersTypes', CopiesAccounted', Grown, cover' \in Cover, RehearsalKnows',
           UNCHANGED <<session, audit, recentFile, coverFile>>
    PROVE  PhoneInv'
<1>1. SessionKnows'
  BY SessionStays DEF PhoneInv, ScriptTypes
<1>2. AuditKnows'
  BY AuditStays DEF PhoneInv
<1> QED
  BY <1>1, <1>2 DEF PhoneInv, ScriptTypes

LEMMA MissingPhones == Missing \in SUBSET Phone
  BY DEF Missing

LEMMA StartCoverInv ==
    ASSUME PhoneInv, StartCover
    PROVE  PhoneInv'
<1> DEFINE b == Len(inbox)
           d == plan.deletes
           M == Missing
           S == {p \in Phone : Content(p, Synthetic, 0) \in known}
<1>1. AdaptersTypes /\ CopiesAccounted /\ b \in Nat /\ d \in Nat
      /\ M \in SUBSET Phone /\ S \in SUBSET Phone
  BY PlanFacts, MissingPhones DEF PhoneInv
<1>2. Quiet
  BY <1>1, SpendFacts DEF Quiet, StartCover, AdaptersTypes
<1>3. cover' = [step |-> "send", todo |-> M, before |-> M, failed |-> {}, after |-> {},
                base |-> b, deletes |-> d, stale |-> S]
  BY DEF StartCover
<1>4. UNCHANGED <<session, audit, recentFile, coverFile>>
  BY DEF StartCover
<1>5. known' = known /\ inbox' = inbox /\ plan'.deletes = d
  BY <1>2 DEF Quiet
<1> HIDE DEF M, S, b, d
<1>6. /\ cover' \in Cover /\ cover'.todo = M /\ cover'.before = M /\ cover'.stale = S
      /\ cover'.base = b /\ cover'.deletes = d
  BY <1>1, <1>3 DEF Cover
<1>7. \A p \in M \ S : Content(p, Synthetic, 0) \notin known
  BY <1>1 DEF S
<1>8. RehearsalKnows'
  BY <1>1, <1>5, <1>6, <1>7 DEF RehearsalKnows, b
<1>9. AdaptersTypes' /\ CopiesAccounted' /\ Grown
  BY <1>1, <1>2, QuietIsSteady DEF Steady
<1> QED
  BY <1>4, <1>6, <1>8, <1>9, CoverMoves

(* A payload is sent, and its source is done or has failed.                  *)
LEMMA Rehearsed ==
    ASSUME PhoneInv, NEW p \in Phone, NEW vault \in BOOLEAN,
           cover.step = "send", p \in cover.todo,
           Accept(Content(p, Synthetic, 0), vault) \/ UNCHANGED <<inbox, known>>,
           NEW F, cover.failed \subseteq F, F \subseteq cover.failed \cup {p},
           p \in F \/ Accept(Content(p, Synthetic, 0), vault),
           cover' = [cover EXCEPT !.todo = @ \ {p}, !.failed = F],
           plan' \in Plan, plan'.deletes = plan.deletes,
           UNCHANGED <<export, batch, cut, session, audit, recentFile, coverFile>>
    PROVE  PhoneInv'
<1> DEFINE c == Content(p, Synthetic, 0)
           T == cover.todo \ {p}
<1>1. AdaptersTypes /\ CopiesAccounted /\ cover \in Cover
  BY DEF PhoneInv, ScriptTypes
<1>2. c \in Said /\ c.from \in Phone /\ c.from = p
  BY SyntheticFacts
<1>3. cover.todo \in SUBSET Phone /\ cover.failed \in SUBSET Phone /\ cover.base \in Nat
  BY <1>1 DEF Cover
<1>4. cover' = [cover EXCEPT !.todo = T, !.failed = F]
  BY <1>1 DEF Cover
<1> HIDE DEF c
<1>5. /\ AdaptersTypes' /\ CopiesAccounted' /\ Grown
      /\ known' \in {known, known \cup {c}}
      /\ Accept(c, vault) /\ c \notin known => inbox' = Append(inbox, Stored(c, vault))
  <2>1. CASE Accept(c, vault)
    BY <1>1, <1>2, <2>1, AcceptSound
  <2>2. CASE UNCHANGED <<inbox, known>>
    <3>1. Steady
      BY <1>1, <2>2, QuietIsSteady DEF Quiet
    <3>2. Accept(c, vault) => c \in known
      BY <2>2 DEF Accept
    <3> QED
      BY <2>2, <3>1, <3>2 DEF Steady
  <2> QED
    BY <2>1, <2>2 DEF c
<1>6. T \in SUBSET Phone /\ F \in SUBSET Phone
  BY <1>3
<1> HIDE DEF T
<1>7. /\ cover' \in Cover /\ cover'.todo = T /\ cover'.failed = F /\ cover'.step = "send"
      /\ cover'.before = cover.before /\ cover'.stale = cover.stale
      /\ cover'.base = cover.base /\ cover'.deletes = cover.deletes
  BY <1>1, <1>4, <1>6 DEF Cover
<1>8. plan.deletes <= cover.deletes
  BY DEF PhoneInv, RehearsalKnows
<1>9. \A q \in T \ cover.stale : Content(q, Synthetic, 0) \notin known'
  <2> SUFFICES ASSUME NEW q \in T \ cover.stale
               PROVE  Content(q, Synthetic, 0) \notin known'
    OBVIOUS
  <2>1. q \in cover.todo \ cover.stale /\ q # p
    BY DEF T
  <2>2. Content(q, Synthetic, 0) \notin known
    BY <2>1 DEF PhoneInv, RehearsalKnows
  <2>3. Content(q, Synthetic, 0) # c
    BY <2>1, SyntheticFacts DEF c
  <2> QED
    BY <1>5, <2>2, <2>3
<1>10. ASSUME plan.deletes = cover.deletes
       PROVE  /\ cover.base <= Len(inbox')
              /\ \A q \in cover.before \ (T \cup cover.stale \cup F) :
                   \E k \in DOMAIN inbox' : k > cover.base /\ inbox'[k].what.from = q
  <2>1. /\ cover.base <= Len(inbox)
        /\ \A q \in cover.before \ (cover.todo \cup cover.stale \cup cover.failed) :
             \E k \in DOMAIN inbox : k > cover.base /\ inbox[k].what.from = q
    BY <1>10 DEF PhoneInv, RehearsalKnows
  <2>2. /\ Len(inbox) <= Len(inbox') /\ DOMAIN inbox \subseteq DOMAIN inbox'
        /\ \A k \in DOMAIN inbox : inbox'[k] = inbox[k]
    BY <1>1, <1>5, GrownFacts
  <2>3. Len(inbox) \in Nat /\ Len(inbox') \in Nat /\ inbox \in Seq(Capture)
    BY <1>1, <1>5, PlanFacts DEF AdaptersTypes
  <2>4. ASSUME NEW q \in cover.before \ (T \cup cover.stale \cup F)
        PROVE  \E k \in DOMAIN inbox' : k > cover.base /\ inbox'[k].what.from = q
    <3>1. CASE q = p
      <4>1. p \notin F /\ p \notin cover.stale
        BY <3>1, <2>4
      <4>2. c \notin known /\ Accept(c, vault)
        BY <4>1 DEF PhoneInv, RehearsalKnows, c
      <4>3. inbox' = Append(inbox, Stored(c, vault))
        BY <1>5, <4>2
      <4>4. Stored(c, vault).what.from = p
        BY <1>2, StoredIsCapture
      <4>5. Stored(c, vault) \in Capture
        BY <1>2, StoredIsCapture
      <4> DEFINE x == Stored(c, vault)
      <4> HIDE DEF x
      <4>6. Len(inbox) + 1 \in DOMAIN inbox' /\ inbox'[Len(inbox) + 1] = x
        BY <2>3, <4>3, <4>5 DEF x
      <4> QED
        BY <1>3, <2>1, <2>3, <3>1, <4>4, <4>6 DEF x
    <3>2. CASE q # p
      <4>1. q \in cover.before \ (cover.todo \cup cover.stale \cup cover.failed)
        BY <3>2, <2>4 DEF T
      <4> QED
        BY <4>1, <2>1, <2>2
    <3> QED
      BY <3>1, <3>2
  <2> QED
    BY <1>3, <2>1, <2>2, <2>3, <2>4
<1>11. RehearsalKnows'
  BY <1>7, <1>8, <1>9, <1>10 DEF RehearsalKnows
<1> QED
  BY <1>5, <1>7, <1>11, CoverMoves

LEMMA RehearseInv ==
    ASSUME PhoneInv, NEW p \in Phone, NEW vault \in BOOLEAN,
           Rehearse(p, vault) \/ RehearsalFails(p, vault)
    PROVE  PhoneInv'
<1>1. cover \in Cover /\ plan \in Plan
  BY DEF PhoneInv, ScriptTypes, AdaptersTypes
<1>2. CASE Rehearse(p, vault)
  <2> DEFINE F == cover.failed
  <2>1. cover' = [cover EXCEPT !.todo = @ \ {p}, !.failed = F]
    BY <1>1, <1>2 DEF Rehearse, Cover
  <2>2. cover.failed \subseteq F /\ F \subseteq cover.failed \cup {p}
    OBVIOUS
  <2>3. /\ cover.step = "send" /\ p \in cover.todo
        /\ Accept(Content(p, Synthetic, 0), vault)
        /\ plan' \in Plan /\ plan'.deletes = plan.deletes
        /\ UNCHANGED <<export, batch, cut, session, audit, recentFile, coverFile>>
    BY <1>1, <1>2 DEF Rehearse
  <2> HIDE DEF F
  <2> QED
    BY <2>1, <2>2, <2>3, Rehearsed
<1>3. CASE RehearsalFails(p, vault)
  <2> DEFINE F == cover.failed \cup {p}
  <2>1. cover' = [cover EXCEPT !.todo = @ \ {p}, !.failed = F]
    BY <1>1, <1>3 DEF RehearsalFails, Cover
  <2>2. plan' \in Plan /\ plan'.deletes = plan.deletes
    BY <1>1, <1>3, SpendFacts DEF RehearsalFails
  <2>3. cover.failed \subseteq F /\ F \subseteq cover.failed \cup {p} /\ p \in F
    OBVIOUS
  <2>4. /\ cover.step = "send" /\ p \in cover.todo
        /\ Accept(Content(p, Synthetic, 0), vault) \/ UNCHANGED <<inbox, known>>
        /\ UNCHANGED <<export, batch, cut, session, audit, recentFile, coverFile>>
    BY <1>3 DEF RehearsalFails
  <2> HIDE DEF F
  <2> QED
    BY <2>1, <2>2, <2>3, <2>4, Rehearsed
<1> QED
  BY <1>2, <1>3

LEMMA PhoneSendsInv ==
    ASSUME PhoneInv, NEW p \in Phone, NEW m \in Payloads, NEW vault \in BOOLEAN,
           PhoneSends(p, m, vault)
    PROVE  PhoneInv'
<1> DEFINE c == Content(p, m, 0)
<1>1. AdaptersTypes /\ CopiesAccounted /\ plan \in Plan
  BY DEF PhoneInv, AdaptersTypes
<1>2. /\ c \in Said /\ c.from \in Phone
      /\ \A q \in Phone : c # Content(q, Synthetic, 0)
  BY SentFacts
<1>3. /\ Accept(c, vault) /\ plan' \in Plan /\ plan'.deletes = plan.deletes
      /\ UNCHANGED <<export, batch, cut, scripts>>
  BY <1>1, SpendFacts DEF PhoneSends
<1> HIDE DEF c
<1>4. AdaptersTypes' /\ CopiesAccounted' /\ Grown /\ known' = known \cup {c}
  BY <1>1, <1>2, <1>3, AcceptSound
<1>5. Steady
  BY <1>2, <1>4 DEF Steady
<1>6. RehearsalKnows'
  BY <1>1, <1>3, <1>5, CoverStays DEF PhoneInv, ScriptTypes, scripts
<1> QED
  BY <1>1, <1>3, <1>4, <1>6, CoverMoves DEF PhoneInv, ScriptTypes, scripts

LEMMA AdaptersInv ==
    ASSUME PhoneInv, AdaptersNext, UNCHANGED scripts
    PROVE  PhoneInv'
<1>1. AdaptersTypes /\ CopiesAccounted
  BY DEF PhoneInv
<1>2. Steady
  BY <1>1, AdaptersNextSound, SoundIsSteady
<1>3. RehearsalKnows'
  BY <1>1, <1>2, CoverStays DEF PhoneInv, ScriptTypes, scripts
<1> QED
  BY <1>2, <1>3, CoverMoves DEF PhoneInv, ScriptTypes, scripts, Steady

LEMMA CoverEndsInv ==
    ASSUME PhoneInv, CoverCutOff \/ EndCover
    PROVE  PhoneInv'
<1>1. AdaptersTypes /\ CopiesAccounted /\ cover \in Cover /\ plan \in Plan
  BY DEF PhoneInv, ScriptTypes, AdaptersTypes
<1>2. Quiet /\ UNCHANGED <<session, audit, recentFile, coverFile>>
  BY <1>1, SpendFacts, StepIsQuiet DEF CoverCutOff, EndCover, Quiet
<1>3. cover' \in Cover /\ cover'.step # "send"
  <2>1. CASE CoverCutOff
    BY <2>1 DEF CoverCutOff, NoCover, Cover
  <2>2. CASE EndCover
    <3> DEFINE M == Missing
    <3>1. cover' = [cover EXCEPT !.step = "done", !.after = M] /\ M \in SUBSET Phone
      BY <2>2, MissingPhones DEF EndCover
    <3> HIDE DEF M
    <3> QED
      BY <1>1, <3>1 DEF Cover
  <2> QED
    BY <2>1, <2>2
<1>4. RehearsalKnows'
  BY <1>3 DEF RehearsalKnows
<1> QED
  BY <1>1, <1>2, <1>3, <1>4, QuietIsSteady, CoverMoves DEF Steady

-----------------------------------------------------------------------------
(* The audit.                                                                *)
LEMMA AuditMoves ==
    ASSUME PhoneInv, Quiet, audit' \in Audit, AuditKnows', recentFile' \in Written,
           coverFile' \in Written, session' \in Session, SessionKnows', cover' = cover
    PROVE  PhoneInv'
<1>1. Steady
  BY QuietIsSteady DEF PhoneInv
<1>2. RehearsalKnows'
  BY <1>1, CoverStays DEF PhoneInv, ScriptTypes
<1> QED
  BY <1>1, <1>2 DEF PhoneInv, Steady, ScriptTypes

LEMMA NoAuditFacts ==
    /\ NoEvidence \in Evidence
    /\ \A n \in Nat :
         LET a == [NoAudit EXCEPT !.no = n, !.step = "inbox"]
             b == [NoAudit EXCEPT !.no = n, !.verdict = "not_ready"]
         IN  /\ a \in Audit /\ a.step = "inbox" /\ a.fresh /\ a.verdict = "none"
             /\ b \in Audit /\ b.step = "idle" /\ b.fresh /\ b.verdict = "not_ready"
<1>1. NoEvidence \in Evidence
  BY DEF NoEvidence, Evidence
<1> QED
  BY <1>1 DEF NoAudit, Audit

LEMMA AuditFacts ==
    ASSUME PhoneInv
    PROVE  /\ audit \in Audit /\ audit.no \in Nat /\ audit.ev \in Evidence
           /\ audit.failed \in BOOLEAN /\ audit.fresh \in BOOLEAN
           /\ recentFile \in Written /\ coverFile \in Written /\ session \in Session
           /\ cover \in Cover /\ AdaptersTypes /\ plan \in Plan
  BY DEF PhoneInv, ScriptTypes, Audit, AdaptersTypes

LEMMA SessionQuiet ==
    ASSUME PhoneInv, Quiet, session' = session
    PROVE  session' \in Session /\ SessionKnows'
<1>1. Steady
  BY QuietIsSteady DEF PhoneInv
<1> QED
  BY <1>1, SessionStays DEF PhoneInv, ScriptTypes, Steady

LEMMA BeginAuditInv ==
    ASSUME PhoneInv, RunAudit \/ SessionAudit
    PROVE  PhoneInv'
<1> DEFINE n == audit.no + 1
<1>1. n \in Nat /\ AdaptersTypes /\ session \in Session /\ plan \in Plan
      /\ recentFile \in Written /\ coverFile \in Written
  BY AuditFacts
<1>2. /\ audit' = [NoAudit EXCEPT !.no = n, !.step = "inbox"]
      /\ UNCHANGED <<cover, recentFile, coverFile>>
  BY DEF RunAudit, SessionAudit, BeginAudit
<1> HIDE DEF n
<1>3. audit' \in Audit /\ AuditKnows'
  BY <1>1, <1>2, NoAuditFacts DEF AuditKnows
<1>4. Quiet
  BY <1>1, SpendFacts, StepIsQuiet DEF RunAudit, SessionAudit, Quiet
<1>5. session' \in Session /\ SessionKnows'
  <2>1. CASE RunAudit
    BY <1>4, <2>1, SessionQuiet DEF RunAudit
  <2>2. CASE SessionAudit
    <3>1. session' \in Session /\ session'.step = "audited"
      BY <1>1, <2>2 DEF SessionAudit, Session
    <3> QED
      BY <3>1, SessionDone
  <2> QED
    BY <2>1, <2>2
<1> QED
  BY <1>1, <1>2, <1>3, <1>4, <1>5, AuditMoves

LEMMA AuditCutOffInv ==
    ASSUME PhoneInv, AuditCutOff
    PROVE  PhoneInv'
<1> DEFINE n == audit.no
<1>1. n \in Nat /\ AdaptersTypes /\ session \in Session /\ plan \in Plan
      /\ recentFile \in Written /\ coverFile \in Written
  BY AuditFacts
<1>2. /\ audit' = [NoAudit EXCEPT !.no = n, !.verdict = "not_ready"]
      /\ UNCHANGED <<session, cover, recentFile, coverFile>>
  BY DEF AuditCutOff
<1> HIDE DEF n
<1>3. audit' \in Audit /\ AuditKnows'
  BY <1>1, <1>2, NoAuditFacts DEF AuditKnows
<1>4. Quiet
  BY <1>1, SpendFacts DEF AuditCutOff, Quiet
<1> QED
  BY <1>1, <1>2, <1>3, <1>4, SessionQuiet, AuditMoves

(* A check that learns something before the files are taken.                 *)
LEMMA LearnMoves ==
    ASSUME PhoneInv, NEW step, NEW next, NEW ev \in Evidence, Learn(step, next, ev),
           next \in {"gate", "setup", "probe", "handoff", "recent"},
           AuditKnows'
    PROVE  PhoneInv'
<1>1. /\ audit \in Audit /\ AdaptersTypes
      /\ recentFile \in Written /\ coverFile \in Written
  BY AuditFacts
<1>2. /\ audit' = [audit EXCEPT !.step = next, !.ev = ev]
      /\ UNCHANGED <<adapterVars, session, cover, recentFile, coverFile>>
  BY DEF Learn
<1>3. audit' \in Audit
  BY <1>1, <1>2 DEF Audit
<1> QED
  BY <1>1, <1>2, <1>3, StepIsQuiet, SessionQuiet, AuditMoves

(* What an audit that has learnt ev at a step must know.                     *)
LEMMA LearnKnows ==
    ASSUME PhoneInv, NEW step, NEW next, NEW ev \in Evidence, Learn(step, next, ev)
    PROVE  /\ audit.step = step
           /\ audit'.step = next /\ audit'.ev = ev
           /\ audit'.fresh \/ audit'.failed
           /\ audit'.verdict # "ready_owner_action_required"
           /\ step \notin {"idle", "inbox", "gate"} /\ audit.ev.passed => audit.ev.gate
           /\ step \in {"probe", "handoff", "recent", "coverage"} /\ audit.ev.passed =>
                audit.ev.setup
           /\ step \in {"handoff", "recent", "coverage"} /\ audit.ev.passed => audit.ev.probe
<1>1. audit \in Audit /\ AuditKnows
  BY AuditFacts DEF PhoneInv
<1>2. audit' = [audit EXCEPT !.step = next, !.ev = ev] /\ audit.step = step
  BY DEF Learn
<1>3. /\ audit'.step = next /\ audit'.ev = ev /\ audit'.fresh = audit.fresh
      /\ audit'.failed = audit.failed /\ audit'.verdict = audit.verdict
  BY <1>1, <1>2 DEF Audit
<1> QED
  BY <1>1, <1>2, <1>3 DEF AuditKnows

LEMMA ProbeType ==
    /\ ProbeFinds \in BOOLEAN /\ SealedInbox \in BOOLEAN
    /\ \A outside \in BOOLEAN : /\ GateReady(outside) \in BOOLEAN
                                /\ SetupReady(outside) \in BOOLEAN
                                /\ HandoffReady(outside) \in BOOLEAN
  BY DEF ProbeFinds, SealedInbox, GateReady, SetupReady, HandoffReady

LEMMA AuditInboxInv ==
    ASSUME PhoneInv, AuditInbox
    PROVE  PhoneInv'
<1> DEFINE r == SealedInbox
           q == audit.ev.passed /\ r
           ev == [audit.ev EXCEPT !.passed = q]
<1>1. audit.ev \in Evidence /\ r \in BOOLEAN
  BY AuditFacts, ProbeType
<1>2. q \in BOOLEAN
  BY <1>1
<1>3. Learn("inbox", "gate", ev)
  BY DEF AuditInbox
<1> HIDE DEF q
<1>4. ev \in Evidence
  BY <1>1, <1>2 DEF Evidence
<1> HIDE DEF ev
<1>5. AuditKnows'
  BY <1>3, <1>4, LearnKnows DEF AuditKnows
<1> QED
  BY <1>3, <1>4, <1>5, LearnMoves

LEMMA AuditGateInv ==
    ASSUME PhoneInv, NEW outside \in BOOLEAN, AuditGate(outside)
    PROVE  PhoneInv'
<1> DEFINE r == GateReady(outside)
           q == audit.ev.passed /\ r
           ev == [audit.ev EXCEPT !.passed = q, !.gate = r]
<1>1. audit.ev \in Evidence /\ r \in BOOLEAN /\ q \in BOOLEAN /\ (q => audit.ev.passed /\ r)
  BY AuditFacts, ProbeType
<1>2. Learn("gate", "setup", ev)
  BY DEF AuditGate
<1> HIDE DEF q, r
<1>3. ev \in Evidence /\ ev.passed = q /\ ev.gate = r
  BY <1>1 DEF Evidence
<1> HIDE DEF ev
<1>4. AuditKnows'
  BY <1>1, <1>2, <1>3, LearnKnows DEF AuditKnows
<1> QED
  BY <1>2, <1>3, <1>4, LearnMoves

LEMMA AuditSetupInv ==
    ASSUME PhoneInv, NEW outside \in BOOLEAN, AuditSetup(outside)
    PROVE  PhoneInv'
<1> DEFINE r == SetupReady(outside)
           q == audit.ev.passed /\ r
           ev == [audit.ev EXCEPT !.passed = q, !.setup = r]
<1>1. audit.ev \in Evidence /\ r \in BOOLEAN /\ q \in BOOLEAN /\ (q => audit.ev.passed /\ r)
  BY AuditFacts, ProbeType
<1>2. Learn("setup", "probe", ev)
  BY DEF AuditSetup
<1> HIDE DEF q, r
<1>3. ev \in Evidence /\ ev.passed = q /\ ev.setup = r /\ ev.gate = audit.ev.gate
  BY <1>1 DEF Evidence
<1> HIDE DEF ev
<1>4. AuditKnows'
  BY <1>1, <1>2, <1>3, LearnKnows DEF AuditKnows
<1> QED
  BY <1>2, <1>3, <1>4, LearnMoves

LEMMA AuditProbeInv ==
    ASSUME PhoneInv, AuditProbe
    PROVE  PhoneInv'
<1> DEFINE r == ProbeFinds
           q == audit.ev.passed /\ r
           ev == [audit.ev EXCEPT !.passed = q, !.probe = r]
<1>1. audit.ev \in Evidence /\ r \in BOOLEAN /\ q \in BOOLEAN /\ (q => audit.ev.passed /\ r)
  BY AuditFacts, ProbeType
<1>2. Learn("probe", "handoff", ev)
  BY DEF AuditProbe
<1> HIDE DEF q, r
<1>3. ev \in Evidence /\ ev.passed = q /\ ev.probe = r /\ ev.gate = audit.ev.gate
      /\ ev.setup = audit.ev.setup
  BY <1>1 DEF Evidence
<1> HIDE DEF ev
<1>4. AuditKnows'
  BY <1>1, <1>2, <1>3, LearnKnows DEF AuditKnows
<1> QED
  BY <1>2, <1>3, <1>4, LearnMoves

LEMMA AuditHandoffInv ==
    ASSUME PhoneInv, NEW outside \in BOOLEAN, AuditHandoff(outside)
    PROVE  PhoneInv'
<1> DEFINE r == HandoffReady(outside)
           q == audit.ev.passed /\ r
           ev == [audit.ev EXCEPT !.passed = q, !.handoff = r]
<1>1. audit.ev \in Evidence /\ r \in BOOLEAN /\ q \in BOOLEAN /\ (q => audit.ev.passed /\ r)
  BY AuditFacts, ProbeType
<1>2. Learn("handoff", "recent", ev)
  BY DEF AuditHandoff
<1> HIDE DEF q, r
<1>3. ev \in Evidence /\ ev.passed = q /\ ev.probe = audit.ev.probe
      /\ ev.gate = audit.ev.gate /\ ev.setup = audit.ev.setup
  BY <1>1 DEF Evidence
<1> HIDE DEF ev
<1>4. AuditKnows'
  BY <1>1, <1>2, <1>3, LearnKnows DEF AuditKnows
<1> QED
  BY <1>2, <1>3, <1>4, LearnMoves

(* The files that are taken: written by this audit if the command ran.       *)
LEMMA OutputFacts ==
    ASSUME PhoneInv, NEW out \in Written, NEW runs \in BOOLEAN
    PROVE  /\ Output(out, runs) \in Written
           /\ runs => Output(out, runs).of = audit.no
<1>1. PhoneCount \in Nat /\ Missing \in SUBSET Phone /\ audit.no \in Nat
  BY PhoneCountType, MissingPhones, AuditFacts
<1> DEFINE n == PhoneCount
           M == Missing
           a == audit.no
           R == [made |-> TRUE, count |-> n, missing |-> M, of |-> a]
<1>2. Report(a) = R
  BY DEF Report
<1> HIDE DEF n, M, a
<1>3. R \in Written /\ R.of = a
  BY <1>1 DEF Written, n, M, a
<1> QED
  BY <1>2, <1>3 DEF Output, a

LEMMA NotedIsQuiet ==
    ASSUME PhoneInv, NEW out, NEW runs \in BOOLEAN, Noted(out, runs)
    PROVE  Quiet /\ UNCHANGED <<session, cover>>
  BY AuditFacts, SpendFacts DEF Noted, Quiet

LEMMA AuditRecentInv ==
    ASSUME PhoneInv, NEW runs \in BOOLEAN, AuditRecent(runs)
    PROVE  PhoneInv'
<1> DEFINE out == Output(recentFile, runs)
           n == out.count
           q == audit.ev.passed /\ n > 0 /\ out.missing = {}
           f == audit.failed \/ ~runs
           g == audit.fresh /\ out.of = audit.no
           ev == [audit.ev EXCEPT !.count = n, !.passed = q]
<1>1. /\ audit \in Audit /\ audit.ev \in Evidence /\ coverFile \in Written
      /\ AdaptersTypes /\ audit.failed \in BOOLEAN /\ audit.fresh \in BOOLEAN
      /\ out \in Written /\ (runs => out.of = audit.no)
  BY AuditFacts, OutputFacts
<1>2. /\ audit.step = "recent" /\ recentFile' = out /\ coverFile' = coverFile
      /\ audit' = [audit EXCEPT !.step = "coverage", !.failed = f, !.fresh = g, !.ev = ev]
  BY <1>1 DEF AuditRecent, Audit, Evidence
<1>3. Quiet /\ session' = session /\ cover' = cover
  <2>1. Noted(out, runs)
    BY DEF AuditRecent
  <2> QED
    BY <2>1, NotedIsQuiet
<1>4. n \in Nat /\ f \in BOOLEAN /\ g \in BOOLEAN /\ q \in BOOLEAN /\ (q => audit.ev.passed)
  BY <1>1 DEF Written, Evidence
<1>5. audit.fresh \/ audit.failed => g \/ f
  BY <1>1
<1>6. audit.verdict # "ready_owner_action_required" /\ (audit.fresh \/ audit.failed)
      /\ (audit.ev.passed => audit.ev.gate /\ audit.ev.setup /\ audit.ev.probe)
  BY <1>2 DEF PhoneInv, AuditKnows
<1> HIDE DEF n, q, f, g
<1>7. ev \in Evidence /\ ev.passed = q /\ ev.gate = audit.ev.gate
      /\ ev.setup = audit.ev.setup /\ ev.probe = audit.ev.probe
  BY <1>1, <1>4 DEF Evidence
<1> HIDE DEF ev
<1>8. /\ audit' \in Audit /\ audit'.step = "coverage" /\ audit'.ev = ev
      /\ audit'.failed = f /\ audit'.fresh = g /\ audit'.verdict = audit.verdict
  BY <1>1, <1>2, <1>4, <1>7 DEF Audit
<1>9. AuditKnows'
  BY <1>4, <1>5, <1>6, <1>7, <1>8 DEF AuditKnows
<1> HIDE DEF out
<1> QED
  BY <1>1, <1>2, <1>3, <1>8, <1>9, SessionQuiet, AuditMoves

(* An audit all of whose checks have passed leaves nothing to do.            *)
LEMMA NothingToDo ==
    ASSUME NEW ev \in Evidence, NEW rest \in BOOLEAN,
           ev.passed => ev.gate /\ ev.setup /\ ev.probe
    PROVE  Verdict(ev, rest) \in {"not_ready", "ready"}
  BY DEF Verdict, UserActions, Evidence

LEMMA AuditCoverageInv ==
    ASSUME PhoneInv, NEW runs \in BOOLEAN, NEW rest \in BOOLEAN, AuditCoverage(runs, rest)
    PROVE  PhoneInv'
<1> DEFINE out == Output(coverFile, runs)
           q == out.made /\ out.missing = {}
           ev == [audit.ev EXCEPT !.covered = q]
           f == audit.failed \/ ~runs
           g == audit.fresh /\ out.of = audit.no
           v == Verdict(ev, rest)
<1>1. /\ audit \in Audit /\ audit.ev \in Evidence /\ recentFile \in Written
      /\ AdaptersTypes /\ audit.failed \in BOOLEAN /\ audit.fresh \in BOOLEAN
      /\ out \in Written /\ (runs => out.of = audit.no)
  BY AuditFacts, OutputFacts
<1>2. /\ audit.step = "coverage" /\ coverFile' = out /\ recentFile' = recentFile
      /\ audit' = [audit EXCEPT !.step = "idle", !.ev = ev, !.failed = f, !.fresh = g,
                                !.verdict = v]
  BY <1>1 DEF AuditCoverage, Audit
<1>3. Quiet /\ session' = session /\ cover' = cover
  <2>1. Noted(out, runs)
    BY DEF AuditCoverage
  <2> QED
    BY <2>1, NotedIsQuiet
<1>4. f \in BOOLEAN /\ g \in BOOLEAN /\ q \in BOOLEAN
  BY <1>1 DEF Written
<1>5. audit.fresh \/ audit.failed => g \/ f
  BY <1>1
<1>6. (audit.fresh \/ audit.failed)
      /\ (audit.ev.passed => audit.ev.gate /\ audit.ev.setup /\ audit.ev.probe)
  BY <1>2 DEF PhoneInv, AuditKnows
<1> HIDE DEF q, f, g
<1>7. ev \in Evidence /\ ev.passed = audit.ev.passed /\ ev.gate = audit.ev.gate
      /\ ev.setup = audit.ev.setup /\ ev.probe = audit.ev.probe
  BY <1>1, <1>4 DEF Evidence
<1> HIDE DEF ev
<1>8. v \in {"not_ready", "ready"}
  BY <1>6, <1>7, NothingToDo
<1> HIDE DEF v
<1>9. /\ audit' \in Audit /\ audit'.step = "idle" /\ audit'.ev = ev
      /\ audit'.failed = f /\ audit'.fresh = g /\ audit'.verdict = v
  BY <1>1, <1>2, <1>4, <1>7, <1>8 DEF Audit
<1>10. AuditKnows'
  BY <1>5, <1>6, <1>8, <1>9 DEF AuditKnows
<1> HIDE DEF out
<1> QED
  BY <1>1, <1>2, <1>3, <1>9, <1>10, SessionQuiet, AuditMoves

LEMMA SummarizeInv ==
    ASSUME PhoneInv, Summarize
    PROVE  PhoneInv'
<1> DEFINE n == PhoneCount
           M == Missing
<1>1. n \in Nat /\ M \in SUBSET Phone
  BY PhoneCountType, MissingPhones, AuditFacts
<1>2. /\ recentFile' = [made |-> TRUE, count |-> n, missing |-> M, of |-> 0]
      /\ UNCHANGED <<session, cover, audit, coverFile>>
  BY DEF Summarize, Report
<1> HIDE DEF n, M
<1>3. recentFile' \in Written
  BY <1>1, <1>2 DEF Written
<1>4. Quiet
  BY AuditFacts, SpendFacts DEF Summarize, Quiet
<1>5. AuditKnows'
  BY <1>2, AuditStays DEF PhoneInv
<1> QED
  BY <1>2, <1>3, <1>4, <1>5, AuditFacts, SessionQuiet, AuditMoves

-----------------------------------------------------------------------------
LEMMA PhoneInitInv == Init => PhoneInv
<1> SUFFICES ASSUME Init PROVE PhoneInv
  OBVIOUS
<1>1. << >> \in Seq(Capture) /\ << >> \in Seq(Imported) /\ Len(<< >>) = 0
      /\ DOMAIN << >> = {}
  BY EmptySeq
<1>2. export \in [Sources -> Seq(Records)] /\ plan \in Plan
  BY AdaptersAssumption DEF Init, AdaptersInit
<1>3. AdaptersTypes
  BY <1>1, <1>2, NoBatchFacts DEF Init, AdaptersInit, AdaptersTypes
<1>4. CopiesAccounted
  <2> SUFFICES ASSUME NEW c \in Imported
               PROVE  Cardinality(Rows(inbox, c))
                        <= (IF c \in known \/ Claimed(c) THEN 1 ELSE 0)
                           + Cardinality(Places(cut, c))
    BY DEF CopiesAccounted
  <2>1. Rows(inbox, c) = {} /\ Cardinality({}) = 0
    BY <1>1, FS_EmptySet DEF Init, AdaptersInit, Rows
  <2>2. Cardinality(Places(cut, c)) \in Nat
    BY PlacesFinite, <1>3 DEF AdaptersTypes
  <2> QED
    BY <2>1, <2>2
<1>5. NoEvidence \in Evidence
  BY NoAuditFacts
<1>6. /\ NoSession \in Session /\ NoSession.step = "idle"
      /\ NoCover \in Cover /\ NoCover.step = "idle"
  BY DEF NoSession, Session, NoCover, Cover
<1>7. /\ NoAudit \in Audit /\ NoAudit.step = "idle" /\ NoAudit.fresh = TRUE
      /\ NoAudit.verdict = "none"
  BY <1>5 DEF NoAudit, Audit
<1>8. NoFile \in Written
  BY DEF NoFile, Written
<1>9. ScriptTypes
  BY <1>6, <1>7, <1>8 DEF Init, ScriptTypes
<1>10. SessionKnows /\ RehearsalKnows /\ AuditKnows
  BY <1>6, <1>7 DEF Init, SessionKnows, RehearsalKnows, AuditKnows
<1> QED
  BY <1>3, <1>4, <1>9, <1>10 DEF PhoneInv

LEMMA PhoneNextInv == PhoneInv /\ [Next]_phoneVars => PhoneInv'
<1> SUFFICES ASSUME PhoneInv, [Next]_phoneVars PROVE PhoneInv'
  OBVIOUS
<1>1. CASE UNCHANGED phoneVars
  BY <1>1 DEF phoneVars, adapterVars, scripts, PhoneInv, AdaptersTypes, CopiesAccounted, Claimed,
              ScriptTypes, SessionKnows, Seen, RehearsalKnows, AuditKnows
<1>2. CASE AdaptersNext /\ UNCHANGED scripts
  BY <1>2, AdaptersInv
<1>3. ASSUME NEW p \in Phone, NEW m \in Payloads, NEW vault \in BOOLEAN, PhoneSends(p, m, vault)
      PROVE  PhoneInv'
  BY <1>3, PhoneSendsInv
<1>4. ASSUME NEW post \in BOOLEAN, StartSession(post) PROVE PhoneInv'
  BY <1>4, StartSessionInv
<1>5. CASE Count \/ Poll
  BY <1>5, CountInv, PollInv
<1>6. CASE Detect
  <2> DEFINE s == IF session.post THEN "gate" ELSE "verified"
  <2>1. /\ session' = [session EXCEPT !.step = s] /\ s \in {"gate", "verified"}
        /\ UNCHANGED <<adapterVars, cover, audit, recentFile, coverFile>>
    BY <1>6 DEF Detect, SessionStep
  <2> HIDE DEF s
  <2> QED
    BY <2>1, SessionGoesOn
<1>7. CASE TimeUp
  BY <1>7, SessionGoesOn DEF TimeUp, SessionStep
<1>8. CASE EndSession
  <2> DEFINE s == IF session.gate /\ audit.verdict # "not_ready" THEN "verified"
                  ELSE "not_detected"
  <2>1. /\ session' = [session EXCEPT !.step = s] /\ s \in {"not_detected", "verified"}
        /\ UNCHANGED <<adapterVars, cover, audit, recentFile, coverFile>>
    BY <1>8 DEF EndSession, SessionStep
  <2> HIDE DEF s
  <2> QED
    BY <2>1, SessionGoesOn
<1>9. ASSUME NEW outside \in BOOLEAN, SessionGate(outside) PROVE PhoneInv'
  BY <1>9, SessionGateInv
<1>10. CASE SessionAudit \/ RunAudit
  BY <1>10, BeginAuditInv
<1>11. CASE StartCover \/ EndCover \/ CoverCutOff
  BY <1>11, StartCoverInv, CoverEndsInv
<1>12. ASSUME NEW p \in Phone, NEW vault \in BOOLEAN, Rehearse(p, vault) \/ RehearsalFails(p, vault)
       PROVE  PhoneInv'
  BY <1>12, RehearseInv
<1>13. CASE AuditStep
  BY <1>13, AuditInboxInv, AuditProbeInv, AuditGateInv, AuditSetupInv, AuditHandoffInv,
     AuditRecentInv, AuditCoverageInv DEF AuditStep
<1>14. CASE AuditCutOff \/ Summarize
  BY <1>14, AuditCutOffInv, SummarizeInv
<1> QED
  BY <1>1, <1>2, <1>3, <1>4, <1>5, <1>6, <1>7, <1>8, <1>9, <1>10, <1>11, <1>12, <1>13, <1>14
     DEF Next

(* Every copy in the inbox is accounted for by a fingerprint or by an import *)
(* that ended too early, and the scripts know what they have seen.           *)
THEOREM PhoneInvariant == EvidenceSpec => []PhoneInv
<1> QED
  BY PhoneInitInv, PhoneNextInv, PTL DEF EvidenceSpec

(* A record that has a title of its own is held once, and once more for each *)
(* import that was cut short between row and fingerprint                     *)
(* (capture_fingerprint, insert_capture).                                    *)
THEOREM PhoneNamedOnce == EvidenceSpec => []NamedOnce
<1>1. ASSUME PhoneInv PROVE NamedOnce
  <2> SUFFICES ASSUME NEW s \in Sources, NEW r \in Records \ Unnamed,
                      ~(s \in Transcripts /\ IsLive(s))
               PROVE  Cardinality({k \in DOMAIN inbox :
                                     inbox[k].what.from = Name[s] /\ inbox[k].what.body = r})
                        <= 1 + Cardinality({k \in DOMAIN cut :
                                              cut[k].from = Name[s] /\ cut[k].body = r})
    BY DEF NamedOnce
  <2> DEFINE c == Content(Name[s], r, 0)
  <2>1. inbox \in Seq(Capture) /\ cut \in Seq(Imported) /\ CopiesAccounted
    BY <1>1 DEF PhoneInv, AdaptersTypes
  <2>2. c = [from |-> Name[s], body |-> r, title |-> 0]
    BY DEF Content
  <2>3. c \in Imported
    BY <2>2, PhoneAssumption DEF Imported, Said, From, Body
  <2>4. \A d \in Said : d.from = Name[s] /\ d.body = r <=> d = c
    <3> SUFFICES ASSUME NEW d \in Said
                 PROVE  d.from = Name[s] /\ d.body = r <=> d = c
      OBVIOUS
    <3>1. /\ d \in [from : From, body : Body, title : Nat]
          /\ Own(d.from, d.body) => d.title = 0
      BY DEF Said
    <3>2. Own(Name[s], r)
      BY DEF Own
    <3>3. d = [from |-> d.from, body |-> d.body, title |-> d.title]
      BY <3>1
    <3> QED
      BY <2>2, <3>1, <3>2, <3>3
  <2> HIDE DEF c
  <2>5. {k \in DOMAIN inbox : inbox[k].what.from = Name[s] /\ inbox[k].what.body = r}
          = Rows(inbox, c)
    <3>1. \A k \in DOMAIN inbox : inbox[k].what \in Said
      BY <1>1, <2>1, PlanFacts DEF PhoneInv
    <3> QED
      BY <2>4, <3>1 DEF Rows
  <2>6. {k \in DOMAIN cut : cut[k].from = Name[s] /\ cut[k].body = r} = Places(cut, c)
    BY <2>1, <2>4 DEF Places, Imported
  <2>7. Cardinality(Rows(inbox, c)) \in Nat /\ Cardinality(Places(cut, c)) \in Nat
    BY <2>1, RowsFinite, PlacesFinite
  <2>8. Cardinality(Rows(inbox, c))
          <= (IF c \in known \/ Claimed(c) THEN 1 ELSE 0) + Cardinality(Places(cut, c))
    BY <2>1, <2>3 DEF CopiesAccounted
  <2>9. Cardinality(Rows(inbox, c)) <= 1 + Cardinality(Places(cut, c))
    BY <2>7, <2>8
  <2> QED
    BY <2>5, <2>6, <2>9
<1> QED
  BY <1>1, PhoneInvariant, PTL

(* An audit that says ready leaves the owner nothing to do, and took no      *)
(* evidence of an earlier run unless one of its commands failed (build_audit,*)
(* run_evidence_commands).                                                   *)
THEOREM PhoneReadyIsCurrent == EvidenceSpec => []ReadyIsCurrent
<1>1. PhoneInv => ReadyIsCurrent
  BY DEF PhoneInv, AuditKnows, ReadyIsCurrent
<1> QED
  BY <1>1, PhoneInvariant, PTL

(* A finite, non-empty set of numbers has a largest one: the set of those     *)
(* above it is the smallest among such sets.                                 *)
LEMMA FiniteMax ==
    ASSUME NEW K \in SUBSET Nat, IsFiniteSet(K), NEW j \in K
    PROVE  \E k \in K : \A l \in K : l <= k
<1> DEFINE Above(k) == {l \in K : l > k}
           T == {Above(k) : k \in K}
<1>1. IsWellFoundedOn(StrictSubsetOrdering(K), SUBSET K)
  BY FS_StrictSubsetOrderingWellFounded, FS_FiniteSubsetsOfFinite
<1>2. T \subseteq SUBSET K /\ T # {}
  OBVIOUS
<1>3. PICK x \in T : \A y \in T : ~(<<y, x>> \in StrictSubsetOrdering(K))
  BY <1>1, <1>2, WFMin
<1>4. PICK k \in K : x = Above(k)
  OBVIOUS
<1>5. ASSUME NEW l \in K, l > k PROVE FALSE
  <2>0. k \in Nat /\ l \in Nat /\ \A i \in K : i \in Nat
    OBVIOUS
  <2>1. Above(l) \subseteq Above(k) /\ l \in Above(k) /\ l \notin Above(l)
    <3>1. \A i \in K : i > l => i > k
      BY <2>0, <1>5
    <3>2. ~(l > l)
      BY <2>0
    <3> QED
      BY <3>1, <3>2, <1>5
  <2>3. Above(l) \in T
    OBVIOUS
  <2>2. <<Above(l), Above(k)>> \in StrictSubsetOrdering(K)
    BY <1>2, <2>1 DEF StrictSubsetOrdering
  <2> QED
    BY <1>3, <1>4, <2>2, <2>3
<1>6. \A l \in K : l <= k
  BY <1>5
<1> QED
  BY <1>6

(* Among the phone's recent captures there is a latest one.                  *)
LEMMA LatestExists ==
    ASSUME AdaptersTypes, NEW j \in Recent, IsPhone(j)
    PROVE  \E k \in Recent : LatestPhone(k)
<1> DEFINE K == {k \in Recent : IsPhone(k)}
<1>1. inbox \in Seq(Capture) /\ Len(inbox) \in Nat
  BY DEF AdaptersTypes
<1>2. K \subseteq 1..Len(inbox) /\ K \in SUBSET Nat /\ j \in K
  BY <1>1 DEF Recent
<1>3. IsFiniteSet(K)
  <2>1. IsFiniteSet(1..Len(inbox))
    BY <1>1, FS_Interval
  <2> QED
    BY <2>1, <1>2, FS_Subset
<1>4. PICK k \in K : \A l \in K : l <= k
  BY <1>2, <1>3, FiniteMax
<1> QED
  BY <1>4 DEF LatestPhone

(* The audit has no part in a session's loop or in the rehearsals.           *)
LEMMA AuditLeavesScripts ==
    ASSUME AuditStep \/ AuditCutOff \/ Summarize \/ RunAudit
    PROVE  UNCHANGED <<session, cover>>
<1>1. CASE AuditStep
  BY <1>1 DEF AuditStep, AuditInbox, AuditProbe, AuditGate, AuditSetup, AuditHandoff, Learn,
              AuditRecent, AuditCoverage, Noted
<1>2. CASE AuditCutOff \/ Summarize \/ RunAudit
  BY <1>2 DEF AuditCutOff, Summarize, RunAudit
<1> QED
  BY <1>1, <1>2

(* Only the time-out turns a count that has been taken into a missed capture.*)
LEMMA MissedByTimeUp ==
    ASSUME session \in Session, session.step = "counted", session'.step = "not_detected",
           [Next]_phoneVars
    PROVE  TimeUp
<1>1. CASE UNCHANGED session
  BY <1>1
<1>2. CASE Detect \/ Poll
  BY <1>2 DEF Detect, Poll, SessionStep, Session
<1>3. CASE TimeUp
  BY <1>3
<1>4. ASSUME session.step # "counted" PROVE FALSE
  BY <1>4
<1> QED
  BY <1>1, <1>2, <1>3, <1>4, AuditLeavesScripts
     DEF Next, phoneVars, scripts, PhoneSends, StartSession, Over, Count, EndSession, SessionGate,
         SessionAudit, StartCover, EndCover, CoverCutOff, Rehearse, RehearsalFails

(* Rehearsals that are done have been done one by one.                       *)
LEMMA DoneByEndCover ==
    ASSUME cover \in Cover, cover.step = "send", cover'.step = "done", [Next]_phoneVars
    PROVE  EndCover
<1>1. CASE UNCHANGED cover
  BY <1>1
<1>2. CASE CoverCutOff \/ StartCover
  BY <1>2 DEF CoverCutOff, StartCover, NoCover
<1>3. ASSUME NEW p \in Phone, NEW vault \in BOOLEAN, Rehearse(p, vault) \/ RehearsalFails(p, vault)
      PROVE  FALSE
  BY <1>3 DEF Rehearse, RehearsalFails, Cover
<1> QED
  BY <1>1, <1>2, <1>3, AuditLeavesScripts
     DEF Next, phoneVars, scripts, PhoneSends, StartSession, Count, Detect, Poll, TimeUp,
         EndSession, SessionGate, SessionAudit, SessionStep

(* A session that gives up has overlooked nothing: what the phone stored     *)
(* before the last count is not among the recent captures, was there before, *)
(* lies in plain, or something was deleted meanwhile (run_session, observe). *)
THEOREM PhoneMissedMeansGone == EvidenceSpec => MissedMeansGone
<1> DEFINE A == session.step = "counted" /\ session'.step = "not_detected" =>
                  \/ plan.deletes < session.deletes
                  \/ \E k \in Recent : LatestPhone(k) /\ ~inbox[k].sealed
                  \/ \A k \in Recent : IsPhone(k) /\ inbox[k].what \in session.seen =>
                                        inbox[k].what \in session.before
<1>1. ASSUME PhoneInv, [Next]_phoneVars PROVE A
  <2> SUFFICES ASSUME session.step = "counted", session'.step = "not_detected",
                      ~(plan.deletes < session.deletes),
                      \A k \in Recent : LatestPhone(k) => inbox[k].sealed,
                      NEW k \in Recent, IsPhone(k), inbox[k].what \in session.seen
               PROVE  inbox[k].what \in session.before
    OBVIOUS
  <2>1. /\ AdaptersTypes /\ session \in Session /\ plan.deletes \in Nat
    BY <1>1, PlanFacts DEF PhoneInv, ScriptTypes
  <2>2. TimeUp
    BY <1>1, <2>1, MissedByTimeUp
  <2>3. ~NewCaptureFound(session.base, session.count)
    BY <2>2 DEF TimeUp
  <2>4. ProbeFinds
    BY <2>1, LatestExists DEF ProbeFinds
  <2>5. ~(session.count > session.base)
    BY <2>3, <2>4 DEF NewCaptureFound
  <2>6. plan.deletes = session.deletes
    BY <1>1, <2>1 DEF PhoneInv, SessionKnows, Session
  <2>7. /\ session.before = Seen(session.base)
        /\ session.base <= session.count /\ session.seen = Seen(session.count)
    BY <1>1, <2>6 DEF PhoneInv, SessionKnows
  <2>8. session.count = session.base
    BY <2>1, <2>5, <2>7 DEF Session
  <2> QED
    BY <2>7, <2>8
<1>2. PhoneInv /\ [Next]_phoneVars => [A]_phoneVars
  BY <1>1
<1> QED
  BY <1>2, PhoneInvariant, PTL DEF EvidenceSpec, MissedMeansGone

(* A source that is still missing after its rehearsal had a payload that was *)
(* stored at an earlier time, a rehearsal that failed, was deleted, or was   *)
(* pushed out by as many other captures (run_session with rehearse_missing). *)
THEOREM PhoneRehearsalCovers == EvidenceSpec => RehearsalCovers
<1> DEFINE A == cover.step = "send" /\ cover'.step = "done" =>
                  \A p \in cover.before \cap cover'.after :
                     \/ p \in cover.stale \cup cover.failed
                     \/ plan.deletes < cover.deletes
                     \/ Len(inbox) >= cover.base + Window
<1>1. ASSUME PhoneInv, [Next]_phoneVars PROVE A
  <2> SUFFICES ASSUME cover.step = "send", cover'.step = "done",
                      NEW p \in cover.before \cap cover'.after,
                      p \notin cover.stale \cup cover.failed,
                      ~(plan.deletes < cover.deletes)
               PROVE  Len(inbox) >= cover.base + Window
    OBVIOUS
  <2>1. /\ AdaptersTypes /\ cover \in Cover /\ plan.deletes \in Nat /\ inbox \in Seq(Capture)
    BY <1>1, PlanFacts DEF PhoneInv, ScriptTypes, AdaptersTypes
  <2>2. EndCover
    BY <1>1, <2>1, DoneByEndCover
  <2>3. cover.todo = {} /\ cover'.after = Missing
    BY <2>1, <2>2 DEF EndCover, Cover
  <2>4. plan.deletes = cover.deletes
    BY <1>1, <2>1 DEF PhoneInv, RehearsalKnows, Cover
  <2>5. PICK k \in DOMAIN inbox : k > cover.base /\ inbox[k].what.from = p
    BY <1>1, <2>3, <2>4 DEF PhoneInv, RehearsalKnows
  <2>6. k \notin Recent
    BY <2>3, <2>5 DEF Missing
  <2>7. ~(k + Window > Len(inbox))
    BY <2>6 DEF Recent
  <2>8. cover.base \in Nat /\ Window \in Nat /\ k \in Nat /\ Len(inbox) \in Nat
    BY <2>1, PhoneAssumption DEF Cover
  <2> QED
    BY <2>5, <2>7, <2>8
<1>2. PhoneInv /\ [Next]_phoneVars => [A]_phoneVars
  BY <1>1
<1> QED
  BY <1>2, PhoneInvariant, PTL DEF EvidenceSpec, RehearsalCovers

=============================================================================
