---------------------------- MODULE ContentVault ----------------------------
(***************************************************************************)
(* From a donor's directory to retained bytes, and back to a directory     *)
(* (capability/acquisition_contract.rs, capability/content_vault.rs).      *)
(*                                                                         *)
(* capture_to_vault walks a tree that others change meanwhile, copies its  *)
(* files, walks it again, installs the copies in the content-addressed     *)
(* vault, walks it a third time and issues a receipt.  Consumers of the    *)
(* receipt materialize a projection: make the directories, install the     *)
(* files, walk what they made; who finds a projection walks it only.       *)
(*                                                                         *)
(* A walk enters one path after the other and, when it leaves a directory, *)
(* compares its status with that of the entry.  The clock of a status is   *)
(* coarse: a change may go unnoticed by it.  A file is read at one         *)
(* instant: two of its blocks are two files as far as this module goes.    *)
(* A digest is what it commits to.  Names, sizes, depth, links that alias  *)
(* directories and the binding of the private root are left out.           *)
(***************************************************************************)
EXTENDS Naturals, Sequences, FiniteSets, SequencesExt, TLC

CONSTANTS
    Path, Root,     \* the paths of the donor's tree, the empty path
    Above,          \* the path itself and its ancestors
    Order,          \* the paths in the order of their names
    Life,           \* what each path of the donor is, one after the other
    Request,        \* [roots, excluded]: the acquisition requests
    MaxFiles,       \* AcquisitionBudget::max_files
    Capturer, Consumer,
    MaxCaptures, MaxTroubles,  \* bounds on captures, and on I/O errors and deaths
    None

VARIABLES
    age,         \* where each path of the donor is in its life
    objects,     \* the vault's objects, named by their content
    receipt,     \* the receipt that was issued and persisted, or None
    projection,  \* the directory made of the receipt, path by path
    temps,       \* <<consumer, path>>: files staged beside their destination
    call,        \* each call in progress
    captures, faults, stops,
    rivals,      \* history: a call was making or removing the projection beside another call
    served,      \* history: a call returned the projection
    abandoned    \* history: a call met an error where it takes nothing away, or no more

vars == <<age, objects, receipt, projection, temps, call, captures, faults, stops, rivals, served, abandoned>>
vault == <<age, objects, receipt, captures>>

Absent == [is |-> "absent"]
Dir == [is |-> "dir"]
Link == [is |-> "link"]
File(content, executable) == [is |-> "file", content |-> content, executable |-> executable]

Caller == {Capturer} \union Consumer
Donor == [p \in Path |-> Life[p][age[p]]]
Tree(c) == IF c = Capturer THEN Donor ELSE projection
Parent(p) == CHOOSE q \in Above[p] : Above[q] = Above[p] \ {p}
Kids(tree, p) == SelectSeq(Order, LAMBDA q : q # Root /\ Parent(q) = p /\ tree[q] # Absent)

Task(verb, paths) == [i \in DOMAIN paths |-> [do |-> verb, path |-> paths[i]]]
Idle == [at |-> "idle", todo |-> <<>>, seen |-> <<>>, skipped |-> {}, touched |-> {}, dead |-> {},
         goal |-> None, staged |-> <<>>, mine |-> FALSE, whole |-> FALSE, torn |-> FALSE]

-----------------------------------------------------------------------------
(* What a tree is, seen at one instant: the reference for the walks. *)

Covered(request, p) ==
    /\ \E r \in Range(request.roots) : r \in Above[p]
    /\ Above[p] \intersect request.excluded = {}

Observation(tree, request) ==
    LET seen == {p \in Path : tree[p] # Absent /\ Covered(request, p)} \union {Root}
    IN [request |-> request, seen |-> [p \in seen |-> tree[p]],
        skipped |-> {p \in request.excluded : tree[p] # Absent}]

\* The tree, apart from files staged in it, is the goal of the call.
Matches(tree, goal) == goal # None /\ Observation(tree, goal.request) = goal

\* The call of somebody who looks at a tree while it becomes the given one.
\* What changed in a directory shows in its status, or falls into one tick.
Noticing(k, tree, dirs, gone) ==
    LET open == {t.path : t \in {u \in Range(k.todo) : u.do = "leave"}}
    IN [k EXCEPT !.touched = @ \union (dirs \intersect open), !.dead = @ \union (gone \intersect open),
                 !.whole = @ \/ (k.at # "idle" /\ Matches(tree, k.goal))]

Init ==
    /\ age = [p \in Path |-> 1]
    /\ objects = {} /\ receipt = None /\ temps = {}
    /\ projection = [p \in Path |-> Absent]
    /\ call = [c \in Caller |-> Idle]
    /\ captures = 0 /\ faults = 0 /\ stops = 0
    /\ rivals = FALSE /\ served = FALSE /\ abandoned = FALSE

\* Somebody creates, writes, replaces or removes a path of the donor.  What
\* happens to it after the receipt concerns nobody here.
Mutate(p) ==
    /\ receipt = None /\ age[p] < Len(Life[p])
    /\ age' = [age EXCEPT ![p] = @ + 1]
    /\ LET before == Donor
           after == [before EXCEPT ![p] = Life[p][age[p] + 1]]
           moved == (before[p] = Absent) # (after[p] = Absent)
       IN /\ p # Root /\ before[Parent(p)] = Dir /\ (before[p] = Dir => Kids(before, p) = <<>>)
          /\ \E dirs \in {{}, IF moved THEN {Parent(p)} ELSE {}} :
                call' = [call EXCEPT ![Capturer] =
                            Noticing(@, after, dirs, IF after[p] = Absent THEN {p} ELSE {})]
    /\ UNCHANGED <<objects, receipt, projection, temps, captures, faults, stops, rivals, served, abandoned>>

-----------------------------------------------------------------------------
(* The walk, the same in every phase. *)

Update(c, k) == call' = [call EXCEPT ![c] = k]
Walking(c) == call[c].at \in {"capture", "verify", "confirm", "check"}
Here(c) == Head(call[c].todo).path
Rest(c) == Tail(call[c].todo)
Doing(c, verb) == call[c].todo # <<>> /\ Head(call[c].todo).do = verb
others == <<age, objects, receipt, projection, temps, captures, faults, stops, rivals, served, abandoned>>

\* The call as it begins a walk of its tree for the request.
ToWalk(k, at, request) ==
    [k EXCEPT !.at = at, !.todo = Task("enter", request.roots), !.seen = <<>>, !.skipped = {},
              !.torn = FALSE]

\* Variant: the error is returned, and what was made is left.
GivenUpAsItIs(c) == Idle

\* Variant: whoever fails removes the projection.
GivenUpByAll(c) ==
    IF c # Capturer THEN [Idle EXCEPT !.at = "remove", !.todo = Task("enter", <<Root>>)] ELSE Idle

\* A call that fails returns; materialize removes first what it has made.
GivenUp(c) ==
    IF call[c].mine THEN [Idle EXCEPT !.at = "remove", !.todo = Task("enter", <<Root>>)] ELSE Idle

Reachable(c, p) == Tree(c)[p] # Absent /\ (p # Root => Parent(p) \notin call[c].dead)

\* capture_file
EnterFile(c) ==
    /\ Walking(c) /\ Doing(c, "enter") /\ Reachable(c, Here(c))
    /\ Tree(c)[Here(c)].is = "file"
    /\ Cardinality({p \in DOMAIN call[c].seen : call[c].seen[p].is = "file"}) < MaxFiles
    /\ Update(c, [call[c] EXCEPT !.todo = Rest(c), !.seen = (Here(c) :> Tree(c)[Here(c)]) @@ @])
    /\ UNCHANGED others

\* capture_directory: its names, and below what is not excluded.  A file staged
\* by another call is a name like the others.
EnterDirectory(c) ==
    /\ Walking(c) /\ Doing(c, "enter") /\ Reachable(c, Here(c))
    /\ Tree(c)[Here(c)] = Dir
    /\ LET p == Here(c)
           excluded == IF call[c].goal = None THEN {} ELSE call[c].goal.request.excluded
           foreign == {t \in temps : c # Capturer /\ Parent(t[2]) = p}
           kids == Kids(Tree(c), p)
       IN Update(c, [call[c] EXCEPT
              !.todo = Task("enter", SelectSeq(kids, LAMBDA q : q \notin excluded))
                           \o Task("leave", <<p>>) \o Rest(c),
              !.seen = (p :> Dir) @@ @,
              !.skipped = @ \union (Range(kids) \intersect excluded) \union foreign,
              !.touched = @ \ {p}, !.dead = @ \ {p}])
    /\ UNCHANGED others

LeaveDirectory(c) ==
    /\ Walking(c) /\ Doing(c, "leave") /\ Here(c) \notin call[c].touched
    /\ Update(c, [call[c] EXCEPT !.todo = Rest(c), !.dead = @ \ {Here(c)}])
    /\ UNCHANGED others

\* The path is gone or a symbolic link, there are too many files, or a directory
\* changed while it was walked.
RefuseToWalk(c) ==
    /\ Walking(c)
    /\ \/ Doing(c, "leave") /\ Here(c) \in call[c].touched
       \/ /\ Doing(c, "enter")
          /\ \/ ~Reachable(c, Here(c)) \/ Tree(c)[Here(c)] = Link
             \/ /\ Tree(c)[Here(c)].is = "file"
                /\ Cardinality({p \in DOMAIN call[c].seen : call[c].seen[p].is = "file"}) >= MaxFiles
    /\ Update(c, GivenUp(c))
    /\ UNCHANGED others

\* What the walk saw.  A declared scope has its root added.
Observed(c) ==
    [request |-> call[c].goal.request, seen |-> (Root :> Dir) @@ call[c].seen, skipped |-> call[c].skipped]

Walked(c) == Walking(c) /\ call[c].todo = <<>>

ExclusionsSeen(c) == call[c].goal.request.excluded \subseteq call[c].skipped

\* Variant: each entry of the envelope is looked up, and what is new is not.
SameEntries(c) ==
    /\ \A p \in DOMAIN call[c].goal.seen : p \in DOMAIN Observed(c).seen
                                            /\ Observed(c).seen[p] = call[c].goal.seen[p]
    /\ Observed(c).skipped = call[c].goal.skipped

\* verify_against: the walk saw the very envelope.
SameAsGoal(c) == ExclusionsSeen(c) /\ Observed(c) = call[c].goal

Files(goal) == SelectSeq(Order, LAMBDA p : p \in DOMAIN goal.seen /\ goal.seen[p].is = "file")

FindDifference(c) ==
    /\ Walked(c)
    /\ IF call[c].at = "capture" THEN ~ExclusionsSeen(c) ELSE ~SameAsGoal(c)
    /\ Update(c, GivenUp(c))
    /\ UNCHANGED others

-----------------------------------------------------------------------------
(* capture_to_vault. *)

Unseen(request) == [request |-> request, seen |-> <<>>, skipped |-> {}]

BeginCapture(request) ==
    /\ call[Capturer].at = "idle" /\ receipt = None /\ captures < MaxCaptures
    /\ captures' = captures + 1
    /\ Update(Capturer, [ToWalk(Idle, "capture", request) EXCEPT !.goal = Unseen(request)])
    /\ UNCHANGED <<age, objects, receipt, projection, temps, faults, stops, rivals, served, abandoned>>

BeginCopy ==
    /\ Walked(Capturer) /\ call[Capturer].at = "capture" /\ ExclusionsSeen(Capturer)
    /\ Update(Capturer, [call[Capturer] EXCEPT !.at = "copy", !.goal = Observed(Capturer),
                             !.todo = Task("copy", Files(Observed(Capturer)))])
    /\ UNCHANGED others

\* Variant: the copy is of whatever the path holds now.
CopyableNow(p) == Donor[p].is = "file"

\* The file is still what the envelope says.
Copyable(p) == Donor[p] = call[Capturer].goal.seen[p]

Copy ==
    /\ call[Capturer].at = "copy" /\ call[Capturer].todo # <<>> /\ Copyable(Here(Capturer))
    /\ Update(Capturer, [call[Capturer] EXCEPT !.todo = Rest(Capturer),
                             !.staged = (Here(Capturer) :> Donor[Here(Capturer)].content) @@ @])
    /\ UNCHANGED others

RefuseToCopy ==
    /\ call[Capturer].at = "copy" /\ call[Capturer].todo # <<>> /\ ~Copyable(Here(Capturer))
    /\ Update(Capturer, GivenUp(Capturer))
    /\ UNCHANGED others

\* A call remembers whether its tree was the goal at an instant, from here on or
\* since the last object was installed.
Rewalk(at) ==
    Update(Capturer, [ToWalk(call[Capturer], at, call[Capturer].goal.request) EXCEPT
                          !.whole = Matches(Donor, call[Capturer].goal)])

BeginVerify ==
    /\ call[Capturer].at = "copy" /\ call[Capturer].todo = <<>>
    /\ Rewalk("verify")
    /\ UNCHANGED others

BeginInstall ==
    /\ Walked(Capturer) /\ call[Capturer].at = "verify" /\ SameAsGoal(Capturer)
    /\ Update(Capturer, [call[Capturer] EXCEPT !.at = "install",
                             !.todo = Task("install", Files(call[Capturer].goal))])
    /\ UNCHANGED others

\* An object that is there already is read and compared.
Install ==
    /\ call[Capturer].at = "install" /\ call[Capturer].todo # <<>>
    /\ objects' = objects \union {call[Capturer].staged[Here(Capturer)]}
    /\ Update(Capturer, [call[Capturer] EXCEPT !.todo = Rest(Capturer),
                             !.whole = Matches(Donor, call[Capturer].goal)])
    /\ UNCHANGED <<age, receipt, projection, temps, captures, faults, stops, rivals, served, abandoned>>

BeginConfirm ==
    /\ call[Capturer].at = "install" /\ call[Capturer].todo = <<>>
    /\ Rewalk("confirm")
    /\ UNCHANGED others

\* Variant: nobody looks again after the installation.
IssueAtOnce ==
    /\ call[Capturer].at = "install" /\ call[Capturer].todo = <<>>
    /\ receipt' = [goal |-> call[Capturer].goal, bytes |-> call[Capturer].staged]
    /\ Update(Capturer, [Idle EXCEPT !.at = "done", !.whole = call[Capturer].whole])
    /\ UNCHANGED <<age, objects, projection, temps, captures, faults, stops, rivals, served, abandoned>>

\* The receipt is returned, and persisted by the caller.
Issue ==
    /\ Walked(Capturer) /\ call[Capturer].at = "confirm" /\ SameAsGoal(Capturer)
    /\ receipt' = [goal |-> call[Capturer].goal, bytes |-> call[Capturer].staged]
    /\ Update(Capturer, [Idle EXCEPT !.at = "done", !.whole = call[Capturer].whole])
    /\ UNCHANGED <<age, objects, projection, temps, captures, faults, stops, rivals, served, abandoned>>

-----------------------------------------------------------------------------
(* RetainedSourceAdapter::materialize. *)

\* The call of somebody who checks the projection while a part of it is removed.
Torn(k, after) ==
    [k EXCEPT !.torn = @ \/ (k.at = "check" /\ \E p \in Path : projection[p] # Absent /\ after[p] = Absent)]

\* The projection becomes this, by a step of c, whose call becomes k.
Change(c, k, after, staged, dirs, gone) ==
    /\ projection' = after /\ temps' = staged
    /\ \E shown \in {{}, dirs} :
          call' = [d \in Caller |-> IF d = c THEN [k EXCEPT !.whole = @ \/ Matches(after, k.goal)]
                                    ELSE IF d = Capturer THEN call[d]
                                    ELSE Noticing(Torn(call[d], after), after, shown, gone)]

\* CaptureReceipt::verify: every object is in the vault.
Authentic == receipt # None /\ Range(receipt.bytes) \subseteq objects

Begun(at) == [Idle EXCEPT !.at = at, !.goal = receipt.goal,
                          !.whole = Matches(projection, receipt.goal)]

Making(c) == call[c].mine \/ call[c].at \in {"make", "remove"}

FindProjection(c) ==
    /\ call[c].at = "idle" /\ Authentic /\ projection[Root] # Absent
    /\ Update(c, ToWalk(Begun("check"), "check", receipt.goal.request))
    /\ rivals' = (rivals \/ \E d \in Consumer : Making(d))
    /\ UNCHANGED <<vault, projection, temps, faults, stops, served, abandoned>>

FindNothing(c) ==
    /\ call[c].at = "idle" /\ Authentic /\ projection[Root] = Absent
    /\ Update(c, [Begun("make") EXCEPT
                      !.todo = Task("make", SelectSeq(Order, LAMBDA p : p \in DOMAIN receipt.goal.seen))])
    /\ rivals' = (rivals \/ \E d \in Consumer : call[d].at \notin {"idle", "done"})
    /\ UNCHANGED <<vault, projection, temps, faults, stops, served, abandoned>>

\* ensure_private_directory: the path and what is missing above it.
WithDirectories(p) == [q \in Path |-> IF q \in Above[p] THEN Dir ELSE projection[q]]
Parents(p) == {Parent(q) : q \in {r \in Above[p] \ {Root} : projection[r] = Absent}}

\* The root is made first: from then on the call answers for what it makes.
MakeDirectory(c) ==
    /\ call[c].at = "make" /\ call[c].todo # <<>> /\ receipt.goal.seen[Here(c)] = Dir
    /\ Change(c, [call[c] EXCEPT !.todo = Rest(c), !.mine = TRUE], WithDirectories(Here(c)), temps,
              Parents(Here(c)), {})
    /\ UNCHANGED <<vault, faults, stops, rivals, served, abandoned>>

\* The file is staged beside its destination, whose directory is made again if
\* it is missing.
StageFile(c) ==
    /\ call[c].at = "make" /\ call[c].todo # <<>> /\ receipt.goal.seen[Here(c)].is = "file"
    /\ Change(c, [call[c] EXCEPT !.at = "link"], WithDirectories(Parent(Here(c))),
              temps \union {<<c, Here(c)>>},
              Parents(Parent(Here(c))) \union {Parent(Here(c))}, {})
    /\ UNCHANGED <<vault, faults, stops, rivals, served, abandoned>>

\* Variant: the file is installed with the permission of a program.
InstalledToRun(p) == File(receipt.bytes[p], TRUE)

\* The file is private: read and written by its owner, executed by nobody.
Installed(p) == File(receipt.bytes[p], FALSE)

LinkFile(c) ==
    LET p == Here(c) IN
    /\ call[c].at = "link" /\ <<c, p>> \in temps /\ projection[p] = Absent
    /\ Change(c, [call[c] EXCEPT !.at = "make", !.todo = Rest(c)],
              [projection EXCEPT ![p] = Installed(p)], temps \ {<<c, p>>}, {Parent(p)}, {})
    /\ UNCHANGED <<vault, faults, stops, rivals, served, abandoned>>

\* Somebody was faster, or removed the staged file, and perhaps the directory,
\* which is made again before the staged file is looked for.
Collide(c) ==
    LET p == Here(c) IN
    /\ call[c].at = "link" /\ (<<c, p>> \notin temps \/ projection[p] # Absent)
    /\ Change(c, GivenUp(c), WithDirectories(Parent(p)), temps \ {<<c, p>>},
              Parents(Parent(p)) \union {Parent(p)}, {})
    /\ UNCHANGED <<vault, faults, stops, rivals, served, abandoned>>

BeginCheck(c) ==
    /\ call[c].at = "make" /\ call[c].todo = <<>>
    /\ Update(c, ToWalk(call[c], "check", receipt.goal.request))
    /\ UNCHANGED others

Return(c) ==
    /\ Walked(c) /\ call[c].at = "check" /\ SameAsGoal(c)
    /\ Update(c, [Idle EXCEPT !.at = "done", !.whole = call[c].whole, !.torn = call[c].torn])
    /\ served' = TRUE
    /\ UNCHANGED <<vault, projection, temps, faults, stops, rivals, abandoned>>

\* remove_dir_all
RemoveFile(c) ==
    LET p == Here(c) IN
    /\ call[c].at = "remove" /\ Doing(c, "enter") /\ projection[p] # Dir
    /\ Change(c, [call[c] EXCEPT !.todo = Rest(c)], [projection EXCEPT ![p] = Absent], temps,
              IF projection[p] = Absent THEN {} ELSE {Parent(p)}, {})
    /\ UNCHANGED <<vault, faults, stops, rivals, served, abandoned>>

ListDirectory(c) ==
    LET p == Here(c) IN
    /\ call[c].at = "remove" /\ Doing(c, "enter") /\ projection[p] = Dir
    /\ Change(c, [call[c] EXCEPT !.todo = Task("enter", Kids(projection, p)) \o Task("leave", <<p>>) \o Rest(c)],
              projection, {t \in temps : Parent(t[2]) # p},
              IF \E t \in temps : Parent(t[2]) = p THEN {p} ELSE {}, {})
    /\ UNCHANGED <<vault, faults, stops, rivals, served, abandoned>>

Empty(p) == Kids(projection, p) = <<>> /\ \A t \in temps : Parent(t[2]) # p

RemoveDirectory(c) ==
    LET p == Here(c) IN
    /\ call[c].at = "remove" /\ Doing(c, "leave") /\ Empty(p)
    /\ Change(c, [call[c] EXCEPT !.todo = Rest(c)], [projection EXCEPT ![p] = Absent], temps,
              IF p = Root THEN {} ELSE {Parent(p)}, {p})
    /\ UNCHANGED <<vault, faults, stops, rivals, served, abandoned>>

\* Somebody filled the directory meanwhile.  The error of the removal is dropped.
LeaveRemains(c) ==
    /\ call[c].at = "remove" /\ Doing(c, "leave") /\ ~Empty(Here(c))
    /\ Update(c, Idle)
    /\ UNCHANGED others

\* Reading, listing or unlinking fails in the removal: dropped like the above.
FailToRemove(c) ==
    /\ call[c].at = "remove" /\ call[c].todo # <<>>
    /\ Update(c, Idle)
    /\ abandoned' = TRUE
    /\ UNCHANGED <<vault, projection, temps, faults, stops, rivals, served>>

Removed(c) ==
    /\ call[c].at = "remove" /\ call[c].todo = <<>>
    /\ Update(c, Idle)
    /\ UNCHANGED others

-----------------------------------------------------------------------------
Finish(c) == call[c].at = "done" /\ Update(c, Idle) /\ UNCHANGED others

\* Reading or writing fails.
Fail(c) ==
    /\ call[c].at \notin {"idle", "done", "remove"} /\ faults + stops < MaxTroubles
    /\ faults' = faults + 1
    /\ Update(c, GivenUp(c))
    /\ UNCHANGED <<vault, projection, temps, stops, rivals, served, abandoned>>

\* The root was made, and cannot be opened, examined or made private: the call
\* returns before it answers for it.
FailToOwn(c) ==
    /\ call[c].at = "make" /\ Doing(c, "make") /\ Here(c) = Root /\ faults + stops < MaxTroubles
    /\ faults' = faults + 1 /\ abandoned' = TRUE
    /\ Change(c, GivenUp(c), WithDirectories(Root), temps, {}, {})
    /\ UNCHANGED <<vault, stops, rivals, served>>

\* The process dies: what it made stays.
Die(c) ==
    /\ c # Capturer /\ call[c].at # "idle" /\ faults + stops < MaxTroubles
    /\ stops' = stops + 1
    /\ Update(c, Idle)
    /\ UNCHANGED <<vault, projection, temps, faults, rivals, served, abandoned>>

Walk(c) == EnterFile(c) \/ EnterDirectory(c) \/ LeaveDirectory(c) \/ RefuseToWalk(c) \/ FindDifference(c)

CaptureStep == \/ BeginCopy \/ Copy \/ RefuseToCopy \/ BeginVerify \/ BeginInstall \/ Install
               \/ BeginConfirm \/ Issue

TearDown(c) == \/ RemoveFile(c) \/ ListDirectory(c) \/ RemoveDirectory(c) \/ LeaveRemains(c)
               \/ FailToRemove(c) \/ Removed(c)

Materialize(c) == \/ FindProjection(c) \/ FindNothing(c) \/ MakeDirectory(c) \/ StageFile(c) \/ LinkFile(c)
                  \/ Collide(c) \/ FailToOwn(c) \/ BeginCheck(c) \/ Return(c) \/ TearDown(c)

Next ==
    \/ \E p \in Path : Mutate(p)
    \/ \E request \in Request : BeginCapture(request)
    \/ CaptureStep
    \/ \E c \in Consumer : Materialize(c)
    \/ \E c \in Caller : Walk(c) \/ Finish(c) \/ Fail(c) \/ Die(c)

Spec == Init /\ [][Next]_vars

-----------------------------------------------------------------------------
(* Properties. *)

\* A death, or a call beside the one that makes the projection.
Excused == stops > 0 \/ rivals

\* A receipt names one object per file of its envelope; staged files are of
\* calls that install them or take them away, unless such a call died, failed to
\* take them away, or found another one's files in its way and left the rest.
TypeOK ==
    /\ age \in [Path -> Nat \ {0}] /\ DOMAIN projection = Path
    /\ receipt # None =>
          DOMAIN receipt.bytes = {p \in DOMAIN receipt.goal.seen : receipt.goal.seen[p].is = "file"}
    /\ \A t \in temps : t[1] \in Consumer /\ (~Excused /\ ~abandoned => call[t[1]].at \in {"link", "remove"})

\* A path is again what it was before.
Repeated == \E p \in Path : \E i, j \in 1 .. age[p] : i < j /\ Life[p][i] = Life[p][j]

\* Before an object becomes visible, again after the last of them and before the
\* receipt is issued, and before a projection is returned, the whole tree was at
\* one instant what the envelope says, although it was read path by path, while
\* it changed and with a clock that hides changes; unless a path of the donor
\* returned to what it was, which no number of walks would notice, or a part of
\* the projection was removed while it was checked.
SnapshotsAreInstants ==
    \A c \in Caller :
        LET k == call[c]
        IN \/ k.at = "done"
           \/ k.at = "install" /\ k.todo = Task("install", Files(k.goal))
           => k.whole \/ (IF c = Capturer THEN Repeated ELSE k.torn)

\* The bytes of a receipt are those its envelope commits to, and in the vault,
\* although a file may have changed and changed back between walk and copy.
RetainedIsObserved ==
    receipt # None =>
        \A p \in DOMAIN receipt.bytes : /\ receipt.bytes[p] = receipt.goal.seen[p].content
                                        /\ receipt.bytes[p] \in objects

Complete == receipt # None /\ temps = {} /\ Matches(projection, receipt.goal)
Quiet == \A c \in Consumer : call[c].at = "idle"

\* What is left of a projection when nobody works on it is all or nothing,
\* although calls fail at any step, but for the death of a process, a call beside
\* the one that makes it, or an error at the two places where the code takes
\* nothing away: between making the root and answering for it, and in the removal.
PartsHaveACause == Quiet /\ ~Excused /\ ~abandoned => projection[Root] = Absent \/ Complete

\* A projection that was returned stays what it was, whatever happens to those
\* who only check it and however calls failed before.
ServedStays == served /\ ~Excused => Complete

\* Programs and exclusions of a receipt do not survive its projection.
Projectable == /\ \A p \in DOMAIN receipt.goal.seen :
                     receipt.goal.seen[p].is = "file" => ~receipt.goal.seen[p].executable
               /\ receipt.goal.skipped = {}

\* A receipt without programs and exclusions is projected by whoever asks,
\* unless reading or writing fails: nothing that was observed of the donor's
\* directory makes the copy differ from it.
FaithfulIsProjected ==
    \A c \in Consumer : call[c].at = "remove" /\ Projectable => faults > 0 \/ Excused

\* What is vouched for was there: trees, bytes and projections.
EvidenceWasThere == TypeOK /\ SnapshotsAreInstants /\ RetainedIsObserved

\* Projections are made when they can be, are all or nothing, and stay.
ProjectionsStand == PartsHaveACause /\ ServedStays /\ FaithfulIsProjected
=============================================================================
