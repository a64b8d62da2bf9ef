----------------------------- MODULE Lifecycle -----------------------------
(***************************************************************************)
(* The lifecycle of the instances of a hub (src/kinby/hub/service.py,      *)
(* recovery.py, registry.py, images.py, docker.py, adoption.py): what the  *)
(* user asks for, the operations that carry it out one call to Docker at a *)
(* time, the record each leaves, and what a restarted hub makes of records *)
(* and containers it finds.                                                *)
(*                                                                         *)
(* The registry, the directories, and what Docker holds (containers,       *)
(* volumes, images) survive a restart; the tasks, their locks and their    *)
(* events do not.  A handler suspends only in a call to Docker or to the   *)
(* instance, so an operation is atomic from one such call to the next.  A  *)
(* call takes effect first (`landed') and is answered later: a restart in  *)
(* between loses the answer and keeps the effect.                          *)
(***************************************************************************)
EXTENDS Naturals, Sequences, FiniteSets

CONSTANTS
    Hosted,         \* instances the hub creates
    Foreign,        \* instances another manager runs, which the hub may adopt
    Name,           \* the manifest id of each
    Existing,       \* the hosted instances that are there at the start, prepared and stopped
    Images,         \* images that selected revisions build
    Given,          \* the image of the hosted instances that are there at the start
    Brought,        \* the image of what another manager runs
    NoImage,        \* none
    MaxAsks,        \* bound on requests
    MaxTroubles,    \* bound on calls that raise, and on Docker out of reach in recovery
    MaxRestarts,    \* bound on restarts of the hub
    MaxExits        \* bound on containers that stop by themselves

Inst == Hosted \cup Foreign

ASSUME PartsAssumption == Hosted \cap Foreign = {} /\ Existing \subseteq Hosted /\ DOMAIN Name = Inst
ASSUME TagsAssumption == Given \notin Images /\ NoImage \notin Images \cup {Given, Brought}
ASSUME BoundsAssumption == {MaxAsks, MaxTroubles, MaxRestarts, MaxExits} \subseteq Nat

VARIABLES
    \* The registry.
    rec,        \* the record of each instance, with its storage inventory
    ops,        \* its operations in the order they were opened, logins apart
    artifacts,  \* the images of recorded builds
    described,  \* the image described last
    \* The hub's memory.
    line,       \* the operations whose tasks hold or await the instance's lock
    pc,         \* the call the first of them is in
    landed,     \* whether that call has had its effect
    got,        \* the image a create has built and no record names yet
    forced,     \* the operations a force stop escalated
    login,      \* the instances with a sign-in under way
    recovering, \* the records recovery has yet to look at
    gc,         \* whether an image collection is due
    doomed,     \* the images the collection under way still removes
    \* Docker and the disk.
    box,        \* the container of each instance
    data,       \* its directory and its volume
    images,     \* the images Docker has
    leftover,   \* the setup containers of sign-ins the hub did not see end
    used        \* what is spent of each bound

registry == <<rec, ops, artifacts, described>>
tasks == <<line, pc, landed, got, forced>>
memory == <<tasks, login, recovering, gc, doomed>>
docker == <<box, data, images, leftover>>
vars == <<registry, memory, docker, used>>

Kinds == {"create", "start", "stop", "recreate", "update", "remove", "restore",
          "delete", "secrets", "adopt", "resume"}
Calls == {"build", "write", "probe", "drain", "halt", "remove", "create", "start",
          "ready", "directory", "volume"}
Storage == {"directory", "volume"}
Kept == {"no", "opened", "prepared"}
IntendedState == {"stopped", "running", "removed", "deleted"}
ProcessState == {"absent", "stopped", "running"}
ContainerOwner == {"nobody", "hub", "other"}
OperationState == {"unfinished", "succeeded", "failed"}
NoRecord == [kept |-> "no", intended |-> "stopped", image |-> NoImage,
             candidate |-> NoImage, owns |-> {}]
NoBox == [state |-> "absent", image |-> NoImage, by |-> "nobody", fresh |-> TRUE]
Nothing == [kind |-> "none", state |-> "none", begun |-> FALSE]
Spent == {"asks", "troubles", "restarts", "exits"}
AllImages == Images \cup {Given, Brought}

Records == [kept : Kept, intended : IntendedState, image : AllImages \cup {NoImage},
            candidate : AllImages \cup {NoImage}, owns : SUBSET Storage]
Operations == [kind : Kinds, state : OperationState, begun : BOOLEAN]
Containers == [state : ProcessState, image : AllImages \cup {NoImage}, by : ContainerOwner,
               fresh : BOOLEAN]

Can(what, bound) == used[what] < bound
Use(what) == used' = [used EXCEPT ![what] = @ + 1]

Init ==
    /\ rec = [i \in Inst |-> IF i \in Existing
                             THEN [kept |-> "prepared", intended |-> "stopped", image |-> Given,
                                   candidate |-> NoImage, owns |-> Storage]
                             ELSE NoRecord]
    /\ ops = [i \in Inst |-> IF i \in Existing
                             THEN <<[kind |-> "create", state |-> "succeeded", begun |-> TRUE]>>
                             ELSE <<>>]
    /\ artifacts = IF Existing = {} THEN {} ELSE {Given}
    /\ described = IF Existing = {} THEN NoImage ELSE Given
    /\ line = [i \in Inst |-> <<>>] /\ pc = [i \in Inst |-> "idle"]
    /\ landed = [i \in Inst |-> FALSE] /\ got = [i \in Inst |-> NoImage]
    /\ forced = [i \in Inst |-> {}] /\ login = {} /\ recovering = {}
    /\ gc = FALSE /\ doomed = {}
    /\ box = [i \in Inst |->
                CASE i \in Existing -> [state |-> "stopped", image |-> Given, by |-> "hub", fresh |-> TRUE]
                  [] i \in Foreign -> [state |-> "running", image |-> Brought, by |-> "other", fresh |-> TRUE]
                  [] OTHER -> NoBox]
    /\ data = [i \in Inst |-> IF i \in Existing \cup Foreign
                              THEN [directory |-> "whole", volume |-> TRUE]
                              ELSE [directory |-> "none", volume |-> FALSE]]
    /\ images = {Given, Brought} /\ leftover = {}
    /\ used = [s \in Spent |-> 0]

----------------------------------------------------------------------------
(* What the registry answers. *)

Unfinished(i) == {n \in DOMAIN ops[i] : ops[i][n].state = "unfinished"}

\* ManagedInstance.active: what the hub lists and operates.
Active(i) == rec[i].kept = "prepared" /\ rec[i].intended \in {"stopped", "running"}
Removed(i) == rec[i].kept = "prepared" /\ rec[i].intended = "removed"
ActiveOperation(i) == Unfinished(i) # {}
NameTaken(name) == \E i \in Inst : Name[i] = name /\ (Active(i) \/ ActiveOperation(i))

\* managed_instances: what the hub owns, creations that never finished included.
Managed == {i \in Inst : rec[i].kept # "no" /\ rec[i].intended # "deleted"}

\* running_login, and the refusal of what would take its storage away.
SigningIn(i) == i \in login
NotSigningIn(i) == ~SigningIn(i)

\* The latest operation that changed the container, as far as recovery asks.
Changed(op) ==
    /\ op.kind # "secrets"
    /\ op.kind \in {"remove", "adopt"} \/ op.state = "succeeded" \/ op.begun
LastOperation(i) ==
    LET changed == {n \in DOMAIN ops[i] : Changed(ops[i][n])}
    IN IF changed = {} THEN Nothing
       ELSE ops[i][CHOOSE n \in changed : \A m \in changed : m <= n]

PreparingImages == \E i \in Inst : \E n \in Unfinished(i) : ops[i][n].kind \in {"create", "update"}
\* A mutant of Named that forgets the image an update has staged.
NamedSelected == {rec[i].image : i \in Managed}
Named == UNION {{rec[i].image, rec[i].candidate} : i \in Managed}
UnreferencedImages == artifacts \ (Named \cup {described})

----------------------------------------------------------------------------
(* Operations: opened, carried out in turn, finished. *)

Serving == recovering = {}
Works(i) == line[i] # <<>>
Op(i) == Head(line[i])
Kind(i) == ops[i][Op(i)].kind

Opened(i, kind) ==
    /\ ops' = [ops EXCEPT ![i] = Append(@, [kind |-> kind, state |-> "unfinished", begun |-> FALSE])]
    /\ line' = [line EXCEPT ![i] = Append(@, Len(ops[i]) + 1)]

\* advance_operation and the call it announces.
Call(i, call) ==
    /\ pc' = [pc EXCEPT ![i] = call] /\ landed' = [landed EXCEPT ![i] = FALSE]
    /\ ops' = [ops EXCEPT ![i][Op(i)].begun = TRUE]
    /\ UNCHANGED <<line, forced, gc>>

\* finish_operation and the release of the lock.  Creates, updates and
\* deletes collect images once they are over.
End(i, state) ==
    /\ ops' = [ops EXCEPT ![i][Op(i)].state = state]
    /\ line' = [line EXCEPT ![i] = Tail(@)]
    /\ pc' = [pc EXCEPT ![i] = "idle"] /\ landed' = [landed EXCEPT ![i] = FALSE]
    /\ forced' = [forced EXCEPT ![i] = @ \ {Op(i)}]
    /\ gc' = (gc \/ Kind(i) \in {"create", "update", "delete"})

\* What the registry writes over the record of an instance.
Write(i, record) == rec' = [rec EXCEPT ![i] = record]
Same(i) == rec[i]
Intend(i, state) == [rec[i] EXCEPT !.intended = state]
MarkPrepared(i) == [rec[i] EXCEPT !.kept = "prepared"]
RecordPreparation(i, image) == [rec[i] EXCEPT !.image = image, !.owns = Storage]
StageCandidate(i, image) == [rec[i] EXCEPT !.candidate = image]
\* accept_candidate and record_selection: a selection, which spends the candidate.
Selection(i, image) == [rec[i] EXCEPT !.image = image, !.candidate = NoImage]
Release(i, targets) == [rec[i] EXCEPT !.owns = @ \ targets]

\* begin_operation: one unfinished operation of a kind at a time.
BeginOperation(i, kind) == (\A n \in Unfinished(i) : ops[i][n].kind # kind) /\ Opened(i, kind)

\* begin_create
BeginCreate(i) == Opened(i, "create") /\ Write(i, [rec[i] EXCEPT !.kept = "opened"])

\* begin_adoption: the record of an instance another manager runs, opened or opened again.
BeginAdoption(i) ==
    /\ rec[i].kept # "prepared" /\ ~ActiveOperation(i)
    /\ Opened(i, "adopt")
    /\ Write(i, [rec[i] EXCEPT !.kept = "opened", !.owns = Storage, !.image = box[i].image,
                 !.intended = IF box[i].state = "running" THEN "running" ELSE "stopped"])

\* begin_login
BeginLogin(i) == ~SigningIn(i) /\ login' = login \cup {i}

\* record_image_artifact, forget_image
RecordArtifact(image) == artifacts' = artifacts \cup {image}
ForgetImage(image) ==
    /\ artifacts' = artifacts \ {image}
    /\ described' = IF described = image THEN NoImage ELSE described
Refuse(i) == End(i, "failed") /\ UNCHANGED rec

\* _create_container, from the image the record or the update selects.
CallCreate(i) == Call(i, "create")

\* _stop_running: a container that runs is probed, and drained if it answers.
Runs(i) == box[i].state = "running"
StopRunning(i) == Runs(i) /\ Call(i, "probe")

\* What an operation does next once the container runs no more, and is gone.
IntoRemoval(i, record) ==
    /\ Write(i, IF Kind(i) = "adopt" THEN MarkPrepared(i) ELSE record)
    /\ Call(i, "remove")
AfterRemoval(i, record) ==
    IF Kind(i) = "remove" THEN Write(i, Intend(i, "removed")) /\ End(i, "succeeded")
                          ELSE Write(i, record) /\ CallCreate(i)

\* _remove_container and _relinquish, by what the container is found to be.
TakeDown(i, record) ==
    IF Runs(i) THEN Write(i, record) /\ StopRunning(i)
    ELSE IF box[i].state = "stopped" \/ Kind(i) = "adopt" THEN IntoRemoval(i, record)
    ELSE AfterRemoval(i, record)

\* _erase: directories first, each target released once it is gone.
EraseNext(i, owns) ==
    IF owns = {}
    THEN Write(i, [rec[i] EXCEPT !.owns = {}, !.intended = "deleted"]) /\ End(i, "succeeded")
    ELSE /\ Write(i, [rec[i] EXCEPT !.owns = owns])
         /\ Call(i, IF "directory" \in owns THEN "directory" ELSE "volume")

\* The container comes up only for an instance that is meant to run.
IntoRunning(i, record) ==
    /\ Write(i, record)
    /\ IF rec[i].intended = "running" THEN Call(i, "start") ELSE End(i, "succeeded")

----------------------------------------------------------------------------
(* What the user asks of the hub. *)

Asks == Serving /\ Can("asks", MaxAsks) /\ Use("asks")
Ask(i, kind) ==
    /\ Asks /\ Opened(i, kind)
    /\ UNCHANGED <<rec, artifacts, described, pc, landed, got, forced, login, recovering, gc,
                   doomed, docker>>

Create(i) ==
    /\ Asks /\ i \in Hosted /\ rec[i].kept = "no" /\ ~NameTaken(Name[i])
    /\ BeginCreate(i)
    /\ UNCHANGED <<artifacts, described, pc, landed, got, forced, login, recovering, gc, doomed,
                   docker>>

\* A second start returns the one under way.
Start(i) ==
    /\ Active(i) /\ Asks /\ BeginOperation(i, "start")
    /\ UNCHANGED <<rec, artifacts, described, pc, landed, got, forced, login, recovering, gc,
                   doomed, docker>>

\* A stop joins a stop or a removal under way; a forced one escalates it, or
\* whatever drain the instance is in.
Stop(i, force) ==
    LET joins == {n \in Unfinished(i) : ops[i][n].kind \in {"stop", "remove"}}
        drains == force /\ pc[i] = "drain"
        stop == IF drains THEN Op(i) ELSE IF joins # {} THEN CHOOSE n \in joins : TRUE ELSE Len(ops[i]) + 1
    IN /\ Asks /\ (drains \/ Active(i))
       /\ (drains \/ joins # {}) => (force /\ stop \notin forced[i])
       /\ IF drains \/ joins # {} THEN UNCHANGED <<ops, line>> ELSE Opened(i, "stop")
       /\ forced' = IF force THEN [forced EXCEPT ![i] = @ \cup {stop}] ELSE forced
       /\ UNCHANGED <<rec, artifacts, described, pc, landed, got, login, recovering, gc, doomed,
                      docker>>

Recreate(i) == Active(i) /\ ~ActiveOperation(i) /\ Ask(i, "recreate")
Update(i) == Active(i) /\ ~ActiveOperation(i) /\ Ask(i, "update")
SetSecrets(i) == Active(i) /\ Ask(i, "secrets")
Remove(i) == Active(i) /\ ~ActiveOperation(i) /\ NotSigningIn(i) /\ Ask(i, "remove")
Restore(i) == Removed(i) /\ ~ActiveOperation(i) /\ ~NameTaken(Name[i]) /\ Ask(i, "restore")
Delete(i) == Removed(i) /\ ~ActiveOperation(i) /\ NotSigningIn(i) /\ Ask(i, "delete")

\* A container of another manager, whose state becomes the intended one.
Adopt(i) ==
    /\ Asks /\ i \in Foreign /\ box[i].state # "absent"
    /\ BeginAdoption(i)
    /\ UNCHANGED <<artifacts, described, pc, landed, got, forced, login, recovering, gc, doomed,
                   docker>>

\* A sign-in takes no lock: it runs in a container of its own until it exits
\* or its code expires.
SignIn(i) ==
    /\ Asks /\ Active(i) /\ BeginLogin(i)
    /\ UNCHANGED <<registry, tasks, recovering, gc, doomed, docker>>
SignInEnds(i) ==
    /\ SigningIn(i) /\ login' = login \ {i}
    /\ UNCHANGED <<registry, tasks, recovering, gc, doomed, docker, used>>

----------------------------------------------------------------------------
(* An operation takes the instance's lock. *)

Takes(i, kinds) == Works(i) /\ pc[i] = "idle" /\ Kind(i) \in kinds
World == <<artifacts, described, got, login, recovering, doomed, docker, used>>

BeginBuild(i) ==
    /\ Takes(i, {"create", "update"})
    /\ Call(i, "build") /\ UNCHANGED <<rec, World>>

\* A start the user asked for recreates a stopped container whose secrets were
\* replaced; recovery's does not.
BeginStart(i) ==
    /\ Takes(i, {"start", "resume"})
    /\ IF ~Active(i) THEN Refuse(i)
       ELSE IF Kind(i) = "start" /\ box[i].state = "stopped" /\ ~box[i].fresh
       THEN TakeDown(i, Intend(i, "running"))
       ELSE Write(i, Intend(i, "running")) /\ Call(i, "start")
    /\ UNCHANGED World

BeginStop(i) ==
    /\ Takes(i, {"stop"})
    /\ Write(i, Intend(i, "stopped"))
    /\ IF Runs(i) THEN StopRunning(i) ELSE End(i, "succeeded")
    /\ UNCHANGED World

BeginRecreate(i) ==
    /\ Takes(i, {"recreate"})
    /\ TakeDown(i, Same(i)) /\ UNCHANGED World

\* _hand_over: the previous runtime is taken down before its container goes.
BeginAdopt(i) ==
    /\ Takes(i, {"adopt"})
    /\ TakeDown(i, Same(i)) /\ UNCHANGED World

\* DockerRuntime._owner
OwnedByAnother(i) == box[i].by = "other"
BeginRemove(i) ==
    /\ Takes(i, {"remove"})
    /\ IF OwnedByAnother(i) THEN Refuse(i) ELSE TakeDown(i, Intend(i, "stopped"))
    /\ UNCHANGED World

HasImage(image) == image \in images
HasVolume(i) == data[i].volume

\* _bring_back: everything the record retains must still be there.
BeginRestore(i) ==
    /\ Takes(i, {"restore"})
    /\ IF /\ data[i].directory # "none" /\ HasImage(rec[i].image)
          /\ "volume" \in rec[i].owns => HasVolume(i)
          /\ box[i].state = "absent"
       THEN CallCreate(i) /\ UNCHANGED rec
       ELSE Refuse(i)
    /\ UNCHANGED World

\* _deletion_targets: the storage the record retains.
DeletionTargets(i) == rec[i].owns
BeginDelete(i) ==
    /\ Takes(i, {"delete"})
    /\ IF Removed(i) /\ box[i].state = "absent" THEN EraseNext(i, DeletionTargets(i)) ELSE Refuse(i)
    /\ UNCHANGED World

\* The values are written into a file beside the instance, and its container
\* keeps those it was created with.
ReplaceSecrets(i) ==
    /\ Takes(i, {"secrets"})
    /\ IF Active(i)
       THEN End(i, "succeeded") /\ box' = [box EXCEPT ![i].fresh = (@ /\ box[i].by # "hub")]
       ELSE End(i, "failed") /\ UNCHANGED box
    /\ UNCHANGED <<rec, artifacts, described, got, login, recovering, doomed, data, images,
                   leftover, used>>

----------------------------------------------------------------------------
(* The calls: what each does at Docker, and what the hub writes once it has *)
(* the answer. *)

In(i, call) == Works(i) /\ pc[i] = call
Lands(i, call) ==
    /\ In(i, call) /\ ~landed[i]
    /\ landed' = [landed EXCEPT ![i] = TRUE]
    /\ UNCHANGED <<rec, ops, line, pc, forced, login, recovering, gc, doomed, leftover, used>>
Answered(i, call) == In(i, call) /\ landed[i]

\* ImagePreparer.build, which reuses no image while a collection is under way.
ImageBuilt(i, image) ==
    /\ Lands(i, "build") /\ doomed = {}
    /\ images' = images \cup {image} /\ RecordArtifact(image)
    /\ got' = [got EXCEPT ![i] = image]
    /\ UNCHANGED <<described, box, data>>
AfterBuild(i) ==
    /\ Answered(i, "build")
    /\ IF Kind(i) = "create"
       THEN Call(i, "write") /\ UNCHANGED <<rec, got>>
       ELSE TakeDown(i, StageCandidate(i, got[i])) /\ got' = [got EXCEPT ![i] = NoImage]
    /\ UNCHANGED <<artifacts, described, login, recovering, doomed, docker, used>>

\* A vanilla instance is written from what its image declares, which is described first.
InitializeFromImage(i) == described' \in {described, got[i]}
InitializeFromTemplate(i) == described' = described

\* The instance is written beside its place, then published and recorded.
Publish(i) ==
    /\ In(i, "write")
    /\ InitializeFromImage(i) \/ InitializeFromTemplate(i)
    /\ data' = [data EXCEPT ![i].directory = "whole"]
    /\ Write(i, RecordPreparation(i, got[i])) /\ got' = [got EXCEPT ![i] = NoImage]
    /\ CallCreate(i)
    /\ UNCHANGED <<artifacts, login, recovering, doomed, box, images, leftover, used>>

\* An instance that cannot be reached is terminated by a forced stop or a
\* recreation; an adoption may interrupt one that cannot drain.
Probed(i) ==
    /\ In(i, "probe") /\ UNCHANGED <<rec, World>>
    /\ \/ Call(i, "drain")
       \/ (Op(i) \in forced[i] \/ Kind(i) \in {"recreate", "start", "adopt"}) /\ Call(i, "halt")
Drained(i) ==
    /\ In(i, "drain") /\ Call(i, "halt") /\ UNCHANGED <<rec, World>>

Halt(i) ==
    /\ Lands(i, "halt")
    /\ box' = [box EXCEPT ![i].state = IF @ = "running" THEN "stopped" ELSE @]
    /\ UNCHANGED <<artifacts, described, got, data, images>>
AfterHalt(i) ==
    /\ Answered(i, "halt")
    /\ IF Kind(i) = "stop" THEN End(i, "succeeded") /\ UNCHANGED rec ELSE IntoRemoval(i, Same(i))
    /\ UNCHANGED World

RemoveContainer(i) ==
    /\ Lands(i, "remove") /\ box[i].state # "absent"
    /\ box' = [box EXCEPT ![i] = NoBox]
    /\ UNCHANGED <<artifacts, described, got, data, images>>
AfterRemove(i) ==
    Answered(i, "remove") /\ AfterRemoval(i, Same(i)) /\ UNCHANGED World

ImageFor(i) == IF Kind(i) = "update" THEN rec[i].candidate ELSE rec[i].image
\* Docker makes a volume the inventory names and it does not have.
CreateContainer(i) ==
    /\ Lands(i, "create") /\ box[i].state = "absent" /\ HasImage(ImageFor(i))
    /\ box' = [box EXCEPT ![i] = [state |-> "stopped", image |-> ImageFor(i), by |-> "hub",
                                  fresh |-> TRUE]]
    /\ data' = [data EXCEPT ![i].volume = (@ \/ "volume" \in rec[i].owns)]
    /\ UNCHANGED <<artifacts, described, got, images>>
AfterCreate(i) ==
    /\ Answered(i, "create")
    /\ CASE Kind(i) = "create" -> Write(i, MarkPrepared(i)) /\ End(i, "succeeded")
         [] Kind(i) = "restore" -> Write(i, Intend(i, "stopped")) /\ End(i, "succeeded")
         [] Kind(i) = "update" -> IntoRunning(i, Selection(i, rec[i].candidate))
         [] OTHER -> IntoRunning(i, Same(i))
    /\ UNCHANGED World

StartContainer(i) ==
    /\ Lands(i, "start") /\ box[i].state # "absent"
    /\ box' = [box EXCEPT ![i].state = "running"]
    /\ UNCHANGED <<artifacts, described, got, data, images>>
AfterStart(i) ==
    /\ Answered(i, "start") /\ UNCHANGED <<rec, World>>
    /\ IF Kind(i) = "update" THEN Call(i, "ready") ELSE End(i, "succeeded")
Ready(i) ==
    /\ In(i, "ready") /\ box[i].state = "running"
    /\ End(i, "succeeded") /\ UNCHANGED <<rec, World>>

EraseDirectory(i) ==
    /\ Lands(i, "directory")
    /\ data' = [data EXCEPT ![i].directory = "none"]
    /\ UNCHANGED <<artifacts, described, got, box, images>>
\* Docker refuses to delete a volume that a container mounts.
EraseVolume(i) ==
    /\ Lands(i, "volume") /\ i \notin login \cup leftover
    /\ data' = [data EXCEPT ![i].volume = FALSE]
    /\ UNCHANGED <<artifacts, described, got, box, images>>
\* A mutant of AfterErase that does not release what it deleted.
AfterEraseKept(i) ==
    /\ \E target \in Storage : Answered(i, target) /\ EraseNext(i, rec[i].owns)
    /\ UNCHANGED World
AfterErase(i) ==
    /\ \E target \in Storage : Answered(i, target) /\ EraseNext(i, Release(i, {target}).owns)
    /\ UNCHANGED World

\* A call raises: Docker refuses it, or it fails before or after its effect.
\* A create discards what it published, if Docker says no container is there.
Refused(i) ==
    CASE pc[i] \in {"remove", "start"} -> box[i].state = "absent"
      [] pc[i] = "create" -> box[i].state # "absent" \/ ImageFor(i) \notin images
      [] pc[i] = "ready" -> box[i].state # "running"
      [] pc[i] = "volume" -> i \in login \cup leftover
      [] OTHER -> FALSE
Discarded(i) ==
    /\ Kind(i) = "create" /\ rec[i].owns # {} /\ box[i].state = "absent"
    /\ data' = [data EXCEPT ![i].directory = "none"] /\ Write(i, Release(i, Storage))
Raises(i) ==
    /\ Works(i) /\ pc[i] # "idle"
    /\ \/ ~landed[i] /\ Refused(i) /\ UNCHANGED used
       \/ Can("troubles", MaxTroubles) /\ Use("troubles")
    /\ End(i, "failed") /\ got' = [got EXCEPT ![i] = NoImage]
    /\ \/ Discarded(i)
       \/ pc[i] = "directory" /\ ~landed[i] /\ data' = [data EXCEPT ![i].directory = "torn"] /\ UNCHANGED rec
       \/ UNCHANGED <<rec, data>>
    /\ UNCHANGED <<artifacts, described, login, recovering, doomed, box, images, leftover>>

----------------------------------------------------------------------------
(* Images nothing refers to are removed in the background. *)

Collect ==
    /\ gc /\ Serving /\ doomed = {}
    /\ gc' = FALSE /\ doomed' = IF PreparingImages THEN {} ELSE UnreferencedImages
    /\ UNCHANGED <<registry, tasks, login, recovering, docker, used>>

\* Docker keeps an image that a container uses.
RemoveImage(image) ==
    /\ image \in doomed /\ doomed' = doomed \ {image}
    /\ IF \E i \in Inst : box[i].state # "absent" /\ box[i].image = image
       THEN UNCHANGED <<images, artifacts, described>>
       ELSE images' = images \ {image} /\ ForgetImage(image)
    /\ UNCHANGED <<rec, ops, tasks, login, recovering, gc, box, data, leftover, used>>

----------------------------------------------------------------------------
(* A restart of the hub, and recovery of what it finds. *)

Exits(i) ==
    /\ box[i].state = "running" /\ Can("exits", MaxExits) /\ Use("exits")
    /\ box' = [box EXCEPT ![i].state = "stopped"]
    /\ UNCHANGED <<registry, memory, data, images, leftover>>

\* Unfinished operations are failed; setup containers that sign-ins left are
\* removed, if Docker answers.
RemoveSetupContainers == leftover' = {}
FailInterrupted ==
    ops' = [i \in Inst |-> [n \in DOMAIN ops[i] |->
                 IF ops[i][n].state = "unfinished" THEN [ops[i][n] EXCEPT !.state = "failed"]
                                                   ELSE ops[i][n]]]
RestartHub ==
    /\ Can("restarts", MaxRestarts)
    /\ FailInterrupted
    /\ line' = [i \in Inst |-> <<>>] /\ pc' = [i \in Inst |-> "idle"]
    /\ landed' = [i \in Inst |-> FALSE] /\ got' = [i \in Inst |-> NoImage]
    /\ forced' = [i \in Inst |-> {}] /\ login' = {} /\ doomed' = {} /\ gc' = TRUE
    /\ recovering' = Managed
    /\ \/ RemoveSetupContainers /\ Use("restarts")
       \/ /\ login \cup leftover # {} /\ leftover' = leftover \cup login
          /\ Can("troubles", MaxTroubles)
          /\ used' = [used EXCEPT !["restarts"] = @ + 1, !["troubles"] = @ + 1]
    /\ UNCHANGED <<rec, artifacts, described, box, data, images>>

Looks(i) ==
    /\ i \in recovering /\ \A j \in Inst : ~Works(j)
    /\ recovering' = recovering \ {i}
    /\ UNCHANGED <<artifacts, described, pc, landed, got, forced, login, gc, doomed, docker>>

\* Docker out of reach, storage in conflict: nothing is done.
Unavailable(i) ==
    /\ Looks(i) /\ Can("troubles", MaxTroubles) /\ Use("troubles")
    /\ UNCHANGED <<rec, ops, line>>

\* A prepared image whose container exists is recorded as the selected one.
AcceptReplacement(i) ==
    /\ rec[i].candidate # NoImage /\ box[i].image = rec[i].candidate
    /\ LastOperation(i).kind = "update" /\ LastOperation(i).state = "failed"

\* _finish_create, or _unfinished_handoff, whose container is still another's.
Unclaimed(i) ==
    IF LastOperation(i).kind # "adopt" /\ box[i].state # "absent" THEN MarkPrepared(i) ELSE Same(i)
\* _retained: a container the hub made for what was removed comes of a restoration.
Retained(i) == IF box[i].state # "absent" /\ box[i].by = "hub" THEN Intend(i, "stopped") ELSE Same(i)
\* A mutant of UnfinishedRemoval that takes it for a finished one.
RemovedTooSoon(i) == Intend(i, "removed")
\* _unfinished_removal
UnfinishedRemoval(i) == IF box[i].state = "absent" THEN Intend(i, "removed") ELSE Same(i)

\* What recovery writes of the record it looks at.
Reconciled(i) ==
    IF rec[i].kept = "opened" THEN Unclaimed(i)
    ELSE IF Removed(i) THEN Retained(i)
    ELSE IF LastOperation(i).kind = "remove" THEN UnfinishedRemoval(i)
    ELSE IF AcceptReplacement(i) THEN Selection(i, rec[i].candidate) ELSE Same(i)
ToStart(i) ==
    /\ Active(i) /\ rec[i].intended = "running" /\ box[i].state = "stopped"
    /\ LastOperation(i).kind # "remove" /\ LastOperation(i).state # "failed"
Recover(i) ==
    /\ Looks(i) /\ Write(i, Reconciled(i)) /\ UNCHANGED used
    /\ IF ToStart(i) THEN Opened(i, "resume") ELSE UNCHANGED <<ops, line>>

----------------------------------------------------------------------------
Requests(i) ==
    \/ Create(i) \/ Start(i) \/ Recreate(i) \/ Update(i) \/ SetSecrets(i) \/ Remove(i)
    \/ Restore(i) \/ Delete(i) \/ Adopt(i) \/ SignIn(i)
    \/ \E force \in BOOLEAN : Stop(i, force)
Begins(i) ==
    \/ BeginBuild(i) \/ BeginStart(i) \/ BeginStop(i) \/ BeginRecreate(i) \/ BeginAdopt(i) \/ BeginRemove(i)
    \/ BeginRestore(i) \/ BeginDelete(i) \/ ReplaceSecrets(i)
GoesOn(i) ==
    \/ Begins(i)
    \/ \E image \in Images : ImageBuilt(i, image)
    \/ AfterBuild(i) \/ Publish(i) \/ Probed(i) \/ Halt(i) \/ AfterHalt(i)
    \/ RemoveContainer(i) \/ AfterRemove(i) \/ CreateContainer(i) \/ AfterCreate(i)
    \/ StartContainer(i) \/ AfterStart(i) \/ Ready(i)
    \/ EraseDirectory(i) \/ EraseVolume(i) \/ AfterErase(i)
    \/ Raises(i)
Next ==
    \/ \E i \in Inst :
        \/ Requests(i) \/ GoesOn(i) \/ Drained(i) \/ SignInEnds(i) \/ Exits(i)
        \/ Recover(i) \/ Unavailable(i)
    \/ Collect
    \/ \E image \in AllImages : RemoveImage(image)
    \/ RestartHub

Spec == Init /\ [][Next]_vars

\* The tasks of the hub run; Docker answers or refuses.  A drain ends by itself
\* only when it is forced, for the instance's work is its own to finish.
Fairness ==
    /\ \A i \in Inst :
        /\ WF_vars(GoesOn(i)) /\ WF_vars(Recover(i)) /\ WF_vars(SignInEnds(i))
        /\ WF_vars(Drained(i) /\ Op(i) \in forced[i])
    /\ WF_vars(Collect) /\ WF_vars(\E image \in AllImages : RemoveImage(image))
FairSpec == Spec /\ Fairness

----------------------------------------------------------------------------
(* Properties. *)

\* Records, operations, tasks and containers have their types; at most the
\* first task of an instance is in a call, and every task's operation is open.
TypeOK ==
    /\ \A i \in Inst :
        /\ rec[i] \in Records /\ box[i] \in Containers
        /\ data[i] \in [directory : {"none", "torn", "whole"}, volume : BOOLEAN]
        /\ \A n \in DOMAIN ops[i] : ops[i][n] \in Operations
        /\ {line[i][n] : n \in DOMAIN line[i]} = Unfinished(i)
        /\ pc[i] \in Calls \cup {"idle"} /\ (pc[i] # "idle" => Works(i))
    /\ artifacts \cup images \cup doomed \subseteq AllImages

\* A collection takes no image an instance still needs: neither one a record
\* selects or has staged, nor one a create has built and not recorded yet
\* (images.py collect, registry.py unreferenced_images).
ImagesKept ==
    \A i \in Inst :
        /\ rec[i].kept # "no" /\ rec[i].intended # "deleted"
              => {rec[i].image, rec[i].candidate} \subseteq images \cup {NoImage}
        /\ got[i] \in images \cup {NoImage}

\* Storage in use is never taken away: a container has its directory and its
\* volume, and so has a sign-in that writes into the volume (service.py
\* _erase, _not_signing_in, _bring_back).
Mounted ==
    \A i \in Inst :
        box[i].state # "absent" \/ i \in login => data[i].directory # "none" /\ data[i].volume

\* Between operations the record tells the truth about the container: what was
\* stopped does not run, what was removed or deleted has none unless a failed
\* restoration left it, and what was deleted holds no data (service.py, recovery.py).
Settled(i) == Serving /\ ~ActiveOperation(i) /\ rec[i].kept = "prepared"
AtRest ==
    \A i \in Inst : Settled(i) =>
        /\ rec[i].intended = "stopped" /\ LastOperation(i).state = "succeeded"
              => box[i].state # "running"
        /\ rec[i].intended = "removed" /\ box[i].by = "hub"
              => LastOperation(i).kind = "restore" /\ LastOperation(i).state = "failed"
        /\ rec[i].intended = "deleted"
              => box[i].state = "absent" /\ data[i].directory = "none" /\ ~data[i].volume

\* The record, the container and the data of an instance agree, at rest and in
\* the middle of an operation, after crashes and failed steps.
LifecycleInv == TypeOK /\ Mounted /\ AtRest

\* Every operation ends, unless the instance it drains is left to finish its
\* work; a forced drain ends too (service.py _drain).
Draining(i) == Works(i) /\ pc[i] = "drain" /\ Op(i) \notin forced[i]
OperationsEnd == \A i \in Inst : []<>(~ActiveOperation(i) \/ Draining(i))

=============================================================================
