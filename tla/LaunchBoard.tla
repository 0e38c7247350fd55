----------------------------- MODULE LaunchBoard -----------------------------
(***************************************************************************)
(* Launches, projects and tasks in the browser: the part of                *)
(* assets/js/app.js that keeps them in localStorage.                       *)
(*                                                                         *)
(* Every page has the whole state in a variable, read once when it is      *)
(* loaded, and every change writes all of it.  A page does not notice what *)
(* another one writes.  Sending a launch and importing a file wait for     *)
(* answers, and the owner may go on meanwhile; a launch that is being sent *)
(* is an object of the state the page had when it was sent.                *)
(***************************************************************************)
EXTENDS Naturals

CONSTANTS
    Tabs,       \* pages that show the application
    Launches,   \* launches, by id
    None,
    MaxIds,     \* bound: projects and tasks made
    MaxSteps,   \* bound: changes the owner makes
    MaxFaults   \* bound: reads and writes that fail, and answers lost

ASSUME BoardAssumption ==
    /\ None \notin Launches
    /\ MaxIds \in Nat /\ MaxSteps \in Nat /\ MaxFaults \in Nat

VARIABLES
    store,      \* localStorage
    state,      \* tab -> its copy
    editor,     \* tab -> the task the inspector shows, and the projects it offers
    sending,    \* tab -> the launch being sent, and whether it is still part of
                \* the state
    changing,   \* tab -> the import or reset under way
    file,       \* the file exported
    held,       \* the launches the companion has
    made,       \* how many ids have been given
    stray,      \* history: tasks saved from an inspector that an import or a
                \* reset had left open
    current,    \* history: the pages that could read what was stored, have seen
                \* all writes of others, and have neither imported nor reset since
    steps, faults

pages == <<editor, sending, changing>>
world == <<file, held>>
vars == <<store, state, pages, world, made, stray, current, steps, faults>>

-----------------------------------------------------------------------------
(* Ids start at 1; 0 stands for the empty string.  The five tasks of a start *)
(* are made together and are one here.                                       *)
Ids == 1..MaxIds

(* A launch has ids of its project, its start tasks and its follow-up, and   *)
(* whether it was sent; a task has an id, a project, the launch it is of, and*)
(* a kind: "own", "start" or "progress".                                     *)
Draft == [project |-> 0, tasks |-> 0, progress |-> 0, sent |-> FALSE]

Seed == [launches |-> [l \in {} |-> Draft], projects |-> {}, tasks |-> {}]

NoEdit == [open |-> FALSE, id |-> 0, projects |-> {}, stale |-> FALSE]
NoSend == [launch |-> None, attached |-> FALSE]

BoardInit ==
    /\ store = Seed /\ file = Seed
    /\ state = [t \in Tabs |-> Seed]
    /\ editor = [t \in Tabs |-> NoEdit]
    /\ sending = [t \in Tabs |-> NoSend]
    /\ changing = [t \in Tabs |-> "no"]
    /\ held = {} /\ made = 0 /\ stray = {} /\ current = Tabs
    /\ steps = 0 /\ faults = 0

-----------------------------------------------------------------------------
SetLaunch(b, l, r) ==
    [b EXCEPT !.launches = [x \in DOMAIN b.launches \cup {l} |->
                              IF x = l THEN r ELSE b.launches[x]]]

WithId(b, k) == {x \in b.tasks : x.id = k}

(* persist: the state becomes b and is written, unless the write fails.      *)
Persist(t, b) ==
    /\ state' = [state EXCEPT ![t] = b]
    /\ \/ /\ store' = b
          /\ current' = IF b = store THEN current ELSE current \cap {t}
          /\ UNCHANGED faults
       \/ /\ faults < MaxFaults
          /\ faults' = faults + 1
          /\ UNCHANGED <<store, current>>

Change == steps < MaxSteps /\ steps' = steps + 1

-----------------------------------------------------------------------------
(* The page is left: a request under way reaches the companion or does not.  *)
Vanish(t) ==
    \/ UNCHANGED held
    \/ sending[t] # NoSend /\ held' = held \cup {sending[t].launch}

(* Mutant: a state from before there were launches is read like any other.   *)
LoadWithoutLaunches(t) ==
    /\ state' = [state EXCEPT ![t] = [store EXCEPT !.launches = Seed.launches]]
    /\ editor' = [editor EXCEPT ![t] = NoEdit]
    /\ sending' = [sending EXCEPT ![t] = NoSend]
    /\ changing' = [changing EXCEPT ![t] = "no"]
    /\ current' = current \cup {t}
    /\ Vanish(t)
    /\ UNCHANGED <<store, file, made, stray, steps, faults>>

(* loadState, when the page is loaded.  If localStorage cannot be read, or   *)
(* not parsed, the page starts with the seed, and its next change writes it. *)
Load(t) ==
    /\ \/ /\ state' = [state EXCEPT ![t] = store]
          /\ current' = current \cup {t}
          /\ UNCHANGED faults
       \/ /\ faults < MaxFaults
          /\ faults' = faults + 1
          /\ state' = [state EXCEPT ![t] = Seed]
          /\ current' = current \ {t}
    /\ editor' = [editor EXCEPT ![t] = NoEdit]
    /\ sending' = [sending EXCEPT ![t] = NoSend]
    /\ changing' = [changing EXCEPT ![t] = "no"]
    /\ Vanish(t)
    /\ UNCHANGED <<store, file, made, stray, steps>>

(* A change that concerns none of this, or a click on a view: all is written.*)
Touch(t) ==
    /\ Persist(t, state[t])
    /\ UNCHANGED <<pages, world, made, stray, steps>>

(* handleLaunchSubmit.                                                       *)
Submit(t, l) ==
    /\ \A b \in {store, file} \cup {state[u] : u \in Tabs} : l \notin DOMAIN b.launches
    /\ l \notin held
    /\ Change
    /\ Persist(t, SetLaunch(state[t], l, Draft))
    /\ UNCHANGED <<pages, world, made, stray>>

(* startLaunchLocally.  A launch that has a project keeps it, without a look *)
(* at whether it is still there.                                             *)
Start(t, l) ==
    LET b == state[t]
        known == b.launches[l].project
        p == IF known = 0 THEN made + 1 ELSE known
        k == IF known = 0 THEN made + 2 ELSE made + 1
        task == [id |-> k, project |-> p, of |-> l, kind |-> "start"]
        next == [b EXCEPT !.projects = IF known = 0 THEN @ \cup {p} ELSE @,
                          !.tasks = @ \cup {task}]
    IN  /\ l \in DOMAIN b.launches
        /\ b.launches[l].tasks = 0 /\ k <= MaxIds
        /\ Change
        /\ made' = k
        /\ Persist(t, SetLaunch(next, l, [b.launches[l] EXCEPT !.project = p, !.tasks = k]))
        /\ UNCHANGED <<pages, world, stray>>

(* Mutant: the task is looked for by its project.                            *)
FollowUpsOfProject(b, l) ==
    {x \in b.tasks : x.of = l /\ x.kind = "progress" /\ x.project = b.launches[l].project}

(* ensureLaunchProgressTask: the task the launch names, or one that names    *)
(* the launch.                                                               *)
FollowUps(b, l) ==
    LET named == WithId(b, b.launches[l].progress) IN
      IF named # {} THEN named ELSE {x \in b.tasks : x.of = l /\ x.kind = "progress"}

(* dispatchRecordForLaunch: the companion reports a record under an id of    *)
(* the launch, once it has the launch.                                       *)
HasRecord(l) == l \in held

(* confirmTaskStatusForLaunch: syncLaunchProgressToBoards with the record of *)
(* a launch the companion has dispatched.  The project is made again, under  *)
(* its old id, if it has been deleted.                                       *)
ConfirmTaskStatus(t, l) ==
    LET b == state[t]
        known == b.launches[l].project
        p == IF known = 0 THEN made + 1 ELSE known
        m == IF known = 0 THEN made + 1 ELSE made
        found == FollowUps(b, l)
    IN  /\ l \in DOMAIN b.launches /\ HasRecord(l)
        /\ Change
        /\ \E x \in IF found = {} THEN [id : {m + 1}, project : {p}, of : {l}, kind : {"progress"}]
                                   ELSE found :
             LET task == [x EXCEPT !.project = p, !.of = l, !.kind = "progress"]
                 next == [b EXCEPT !.projects = @ \cup {p},
                                   !.tasks = (@ \ {x}) \cup {task}]
             IN  /\ made' = IF found = {} THEN m + 1 ELSE m
                 /\ made' <= MaxIds
                 /\ Persist(t, SetLaunch(next, l, [b.launches[l] EXCEPT !.project = p,
                                                                        !.progress = x.id]))
        /\ UNCHANGED <<pages, world, stray>>

(* openEditor on a task, or for a new one.                                   *)
OpenEditor(t, k) ==
    /\ k # 0 => WithId(state[t], k) # {}
    /\ Change
    /\ editor' = [editor EXCEPT ![t] = [open |-> TRUE, id |-> k, stale |-> FALSE,
                                        projects |-> state[t].projects]]
    /\ UNCHANGED <<store, state, sending, changing, world, made, stray, current, faults>>

(* saveEditor: the task is changed, or made if it is not there, perhaps not  *)
(* any more.                                                                 *)
SaveEditor(t, p) ==
    LET b == state[t]
        found == WithId(b, editor[t].id)
        k == IF found = {} THEN made + 1 ELSE editor[t].id
        saved == IF found = {}
                   THEN {[id |-> k, project |-> p, of |-> None, kind |-> "own"]}
                   ELSE {[x EXCEPT !.project = p] : x \in found}
    IN  /\ editor[t].open /\ p \in editor[t].projects \cup {0}
        /\ k <= MaxIds
        /\ made' = IF found = {} THEN k ELSE made
        /\ Persist(t, [b EXCEPT !.tasks = (@ \ found) \cup saved])
        /\ editor' = [editor EXCEPT ![t] = NoEdit]
        /\ stray' = IF editor[t].stale THEN stray \cup {k} ELSE stray
        /\ UNCHANGED <<sending, changing, world, steps>>

(* createQuickItem, or the inspector for a new project.                      *)
NewProject(t) ==
    /\ made < MaxIds /\ Change
    /\ made' = made + 1
    /\ Persist(t, [state[t] EXCEPT !.projects = @ \cup {made + 1}])
    /\ editor' = [editor EXCEPT ![t] = NoEdit]
    /\ UNCHANGED <<sending, changing, world, stray>>

(* acceptAssistantTask: a suggestion becomes a task without project.         *)
AcceptTask(t) ==
    /\ made < MaxIds /\ Change
    /\ made' = made + 1
    /\ Persist(t, [state[t] EXCEPT
                     !.tasks = @ \cup {[id |-> made + 1, project |-> 0, of |-> None, kind |-> "own"]}])
    /\ UNCHANGED <<pages, world, stray>>

(* Mutant: the tasks of a deleted project keep their link.                   *)
DeleteProjectOnly(t, p) ==
    /\ p \in state[t].projects
    /\ Change
    /\ Persist(t, [state[t] EXCEPT !.projects = @ \ {p}])
    /\ editor' = [editor EXCEPT ![t] = NoEdit]
    /\ UNCHANGED <<sending, changing, world, made, stray>>

(* deleteItem.  The launch that has made it still names it.                  *)
DeleteProject(t, p) ==
    /\ p \in state[t].projects
    /\ Change
    /\ Persist(t, [state[t] EXCEPT
                     !.projects = @ \ {p},
                     !.tasks = {IF x.project = p THEN [x EXCEPT !.project = 0] ELSE x : x \in @}])
    /\ editor' = [editor EXCEPT ![t] = NoEdit]
    /\ UNCHANGED <<sending, changing, world, made, stray>>

DeleteTask(t, k) ==
    /\ WithId(state[t], k) # {}
    /\ Change
    /\ Persist(t, [state[t] EXCEPT !.tasks = @ \ WithId(state[t], k)])
    /\ editor' = [editor EXCEPT ![t] = NoEdit]
    /\ UNCHANGED <<sending, changing, world, made, stray>>

-----------------------------------------------------------------------------
(* sendLatestLaunchToCompanion: the request is sent ...                      *)
Send(t, l) ==
    /\ sending[t] = NoSend
    /\ l \in DOMAIN state[t].launches
    /\ Change
    /\ sending' = [sending EXCEPT ![t] = [launch |-> l, attached |-> TRUE]]
    /\ UNCHANGED <<store, state, editor, changing, world, made, stray, current, faults>>

(* ... and answered.  The launch is marked, which the state does not show if *)
(* the launch is not part of it any more.  An id that is taken is refused.   *)
Marked(t) ==
    LET l == sending[t].launch
        b == state[t]
    IN  IF sending[t].attached
          THEN SetLaunch(b, l, [b.launches[l] EXCEPT !.sent = TRUE]) ELSE b

Answered(t) ==
    /\ sending[t] # NoSend /\ sending[t].launch \notin held
    /\ held' = held \cup {sending[t].launch}
    /\ Persist(t, Marked(t))
    /\ sending' = [sending EXCEPT ![t] = NoSend]
    /\ UNCHANGED <<editor, changing, file, made, stray, steps>>

SendFails(t) ==
    /\ sending[t] # NoSend
    /\ \/ UNCHANGED <<held, faults>>
       \/ /\ faults < MaxFaults
          /\ faults' = faults + 1
          /\ held' = held \cup {sending[t].launch}
    /\ sending' = [sending EXCEPT ![t] = NoSend]
    /\ UNCHANGED <<store, state, editor, changing, file, made, stray, current, steps>>

-----------------------------------------------------------------------------
(* exportState; bound: one file is kept.                                     *)
Export(t) ==
    /\ file = Seed /\ Change
    /\ file' = state[t]
    /\ UNCHANGED <<store, state, pages, held, made, stray, current, faults>>

(* The state is replaced; an inspector that is open stays open.  Bound: one  *)
(* import or reset at a time and page.                                       *)
Replace(t, b, how) ==
    /\ changing[t] = "no" /\ Change
    /\ state' = [state EXCEPT ![t] = b]
    /\ changing' = [changing EXCEPT ![t] = how]
    /\ sending' = [sending EXCEPT ![t].attached = FALSE]
    /\ editor' = [editor EXCEPT ![t].stale = editor[t].open]
    /\ current' = current \ {t}
    /\ UNCHANGED <<store, world, made, stray, faults>>

(* handleImport, when the file is read, and resetState: the assistant inbox  *)
(* follows, which takes a while.                                             *)
Import(t) == file # Seed /\ Replace(t, file, "import")
Reset(t) == Replace(t, Seed, "reset")

Replaced(t) ==
    /\ changing[t] # "no"
    /\ Persist(t, state[t])
    /\ changing' = [changing EXCEPT ![t] = "no"]
    /\ UNCHANGED <<editor, sending, world, made, stray, steps>>

(* The assistant inbox of the file is malformed: the import is reported as   *)
(* failed, but the state is the file's and the next change writes it.        *)
ImportFails(t) ==
    /\ changing[t] = "import"
    /\ changing' = [changing EXCEPT ![t] = "no"]
    /\ UNCHANGED <<store, state, editor, sending, world, made, stray, current, steps, faults>>

-----------------------------------------------------------------------------
Operate(t) ==
    \/ Load(t) \/ Touch(t)
    \/ \E l \in Launches : Submit(t, l) \/ Start(t, l) \/ ConfirmTaskStatus(t, l) \/ Send(t, l)
    \/ \E k \in Ids \cup {0} : OpenEditor(t, k) \/ SaveEditor(t, k)
    \/ NewProject(t) \/ AcceptTask(t)
    \/ \E k \in Ids : DeleteProject(t, k) \/ DeleteTask(t, k)
    \/ Export(t) \/ Import(t) \/ Reset(t)

BoardNext ==
    \E t \in Tabs :
        \/ Operate(t)
        \/ Answered(t) \/ SendFails(t)
        \/ Replaced(t) \/ ImportFails(t)

BoardSpec == BoardInit /\ [][BoardNext]_vars

-----------------------------------------------------------------------------
Boards == {store, file} \cup {state[t] : t \in Tabs}

(* However often a launch is started and its status confirmed, and whatever  *)
(* of it is edited, deleted, imported or written by another page between: no *)
(* state has its start tasks or its follow-up twice.                         *)
OneOfEach ==
    \A b \in Boards, k \in {"start", "progress"} :
        \A x, y \in {z \in b.tasks : z.kind = k} : x.of = y.of => x = y

(* The project of a task is there; or it is the one a launch has made, which *)
(* was deleted and comes back when the launch is confirmed; or the task was  *)
(* saved from an inspector that an import had left open.                     *)
LinksResolve ==
    \A b \in Boards :
        \A x \in b.tasks :
            \/ x.project \in b.projects \cup {0}
            \/ \E l \in DOMAIN b.launches : b.launches[l].project = x.project
            \/ x.id \in stray

(* Only a page that another one has overtaken, or that imports or resets,    *)
(* can drop a launch or its mark from what is stored: the others have all of *)
(* it.                                                                       *)
CurrentPageHasAll ==
    \A t \in current : \A l \in DOMAIN store.launches :
        /\ l \in DOMAIN state[t].launches
        /\ store.launches[l].sent => state[t].launches[l].sent

=============================================================================
