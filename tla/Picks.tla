-------------------------------- MODULE Picks --------------------------------
(***************************************************************************)
(* One skill in the hub's library (hub/library.py) and one instance's copy *)
(* of it: a pick, which skills-lock.json records (instance/skills_lock.py),*)
(* or a folder its factory's template supplied (hub/template_sync.py).     *)
(*                                                                         *)
(* A text stands for the folder's files and for their hash.  Names, MCP    *)
(* servers, links and the checks of a skill's files are left out.          *)
(***************************************************************************)
EXTENDS Naturals

CONSTANTS
    Texts,       \* what a skill's folder can hold
    MaxHubStops  \* bound: stops of the hub

None == "none"   \* no folder, no row, no entry
Torn == "torn"   \* a folder of which only a part is there

VARIABLES
    shelf,     \* the skill's folder in the library
    ships,     \* the version this kinby ships
    shipped,   \* shipped_skills: the hash the hub copied
    gitSkill,  \* git_skills: the hash a skill from git landed with
    mover,     \* the move or the addition that holds _edit_lock, in its thread
    shown,     \* the folder the user's last read or check showed
    served,    \* the folder in the template the factory serves now
    held,      \* the instance: its folder, its lock's entry, its baseline's entry, and whether the
               \* hub recorded a baseline at all
    staged,    \* what a pick under way copied aside
    supplies,  \* history: every text the hub put in the instance's folder, found there as its own, or
               \* locked the folder at
    hubStops

library == <<shelf, ships, shipped, gitSkill, mover, shown>>
picksVars == <<library, served, held, staged, supplies, hubStops>>

NoMove == [kind |-> "none", read |-> None, version |-> None, overwrite |-> FALSE, phase |-> "idle"]

Init ==
    /\ ships \in Texts
    /\ shelf = ships /\ shipped = ships
    /\ gitSkill = None
    /\ mover = NoMove
    /\ shown = None
    /\ served \in Texts \union {None}
    \* An instance installed before the hub kept baselines has none (FactoryMember.baseline).
    /\ \E based \in BOOLEAN :
          held = [copy |-> served, locked |-> None, supplied |-> IF based THEN served ELSE None,
                  based |-> based]
    /\ staged = None
    /\ supplies = {served} \ {None}
    /\ hubStops = 0

-----------------------------------------------------------------------------
(* The library. *)

\* landed_skills: a git skill's row wins over a shipped one's.
Landed == IF gitSkill # None THEN gitSkill ELSE shipped

\* _changed_since_landing
Edited == Landed # None /\ shelf # Landed

\* The user reads the skill, or checks it for a newer version.
Look ==
    /\ shelf # None
    /\ shown' = shelf
    /\ UNCHANGED <<shelf, ships, shipped, gitSkill, mover, served, held, staged, supplies, hubStops>>

\* _write_skill, under _edit_lock: over the folder the user read, or where there is none.
Write(text) ==
    /\ mover = NoMove
    /\ shelf \in {None, shown}
    /\ shelf' = text
    /\ UNCHANGED <<ships, shipped, gitSkill, mover, shown, served, held, staged, supplies, hubStops>>

\* _delete_skill: the folder goes, then its row of git_skills.
Delete ==
    /\ mover = NoMove
    /\ shelf # None /\ shelf = shown
    /\ shelf' = None
    /\ gitSkill' = None
    /\ UNCHANGED <<ships, shipped, mover, shown, served, held, staged, supplies, hubStops>>

\* _move's checks, and the fetch of the version: at the commit the user saw, or the one that this
\* kinby ships and the library has not taken.
Move(version, overwrite) ==
    /\ mover = NoMove
    /\ shelf # None /\ shelf = shown
    /\ Edited => overwrite
    /\ gitSkill = None => shipped \notin {None, ships} /\ version = ships
    /\ mover' = [kind |-> IF gitSkill # None THEN "git" ELSE "shipped", read |-> shown,
                 version |-> version, overwrite |-> overwrite, phase |-> "checked"]
    /\ UNCHANGED <<shelf, ships, shipped, gitSkill, shown, served, held, staged, supplies, hubStops>>

\* _add: the skill at a commit, where the library holds none.
Add(version) ==
    /\ mover = NoMove /\ shelf = None
    /\ mover' = [NoMove EXCEPT !.kind = "git", !.version = version, !.phase = "removed"]
    /\ UNCHANGED <<shelf, ships, shipped, gitSkill, shown, served, held, staged, supplies, hubStops>>

\* _copy_in removes the old folder file by file...
Remove ==
    /\ mover.phase \in {"checked", "removing"}
    /\ \/ /\ mover.phase = "checked"
          /\ shelf' = Torn /\ mover' = [mover EXCEPT !.phase = "removing"]
       \/ /\ mover.phase = "removing"
          /\ shelf' = None /\ mover' = [mover EXCEPT !.phase = "removed"]
    /\ UNCHANGED <<ships, shipped, gitSkill, shown, served, held, staged, supplies, hubStops>>

\* ...renames the new one into place...
Place ==
    /\ mover.phase = "removed"
    /\ shelf' = mover.version
    /\ mover' = [mover EXCEPT !.phase = "placed"]
    /\ UNCHANGED <<ships, shipped, gitSkill, shown, served, held, staged, supplies, hubStops>>

\* ...and its row is recorded, and the lock let go.
Record ==
    /\ mover.phase = "placed"
    /\ \/ /\ mover.kind = "git"
          /\ gitSkill' = shelf
          /\ UNCHANGED shipped
       \/ /\ mover.kind = "shipped"
          /\ shipped' = shelf
          /\ UNCHANGED gitSkill
    /\ mover' = NoMove
    /\ UNCHANGED <<shelf, ships, shown, served, held, staged, supplies, hubStops>>

-----------------------------------------------------------------------------
(* The instance's picks, changed in place while the instance may run. *)

\* _state and _present: a pick is held while its folder is there.
Picked == held.locked # None /\ held.copy # None

\* pick, up to the copy it stages: not over the instance's own folder, nor over a lock that
\* changed since the user read it.
Pick ==
    /\ staged = None /\ ~Picked
    /\ held.copy = None /\ shelf # None
    /\ staged' = shelf
    /\ UNCHANGED <<library, served, held, supplies, hubStops>>

\* Then the staged folder is renamed in and the lock replaced. A folder the agent made meanwhile
\* is in the way, and the pick fails.
PickIn ==
    /\ staged # None
    /\ IF held.copy = None
       THEN /\ held' = [held EXCEPT !.copy = staged, !.locked = staged]
            /\ supplies' = supplies \union {staged}
       ELSE UNCHANGED <<held, supplies>>
    /\ staged' = None
    /\ UNCHANGED <<library, served, hubStops>>

\* The user drops the pick: its folder goes, edited or not, and its entry.
DropPick ==
    /\ staged = None /\ Picked
    /\ held' = [held EXCEPT !.copy = None, !.locked = None]
    /\ UNCHANGED <<library, served, staged, supplies, hubStops>>

\* The agent edits the folder, makes one of its own, or deletes it.
AgentEdits(text) ==
    /\ text # held.copy
    /\ held' = [held EXCEPT !.copy = text]
    /\ UNCHANGED <<library, served, staged, supplies, hubStops>>

\* The factory's user edits its template.
EditTemplate(text) ==
    /\ served' = text
    /\ UNCHANGED <<library, held, staged, supplies, hubStops>>

-----------------------------------------------------------------------------
(* An update of the instance, whose container is gone meanwhile: each operator is what one of    *)
(* its writes makes of the instance.                                                             *)

\* take_supplied: a shipped skill that the template serves no more becomes a pick. A copy that the
\* instance edited is locked at the library's hash, so that it counts as edited.
Taken(h) ==
    IF /\ h.based /\ h.supplied # None /\ served = None
       /\ h.locked = None /\ h.copy # None
       /\ shipped # None /\ shelf # None
    THEN [h EXCEPT !.locked = IF h.copy = h.supplied THEN h.copy ELSE shelf]
    ELSE h

\* sync: a pick behind the library is written from it, unless the instance edited its copy.
Behind(h) == h.locked # None /\ shelf \notin {None, h.locked}

\* A mutant of Written that writes over what the instance edited.
WrittenAnyway(h) == IF Behind(h) THEN [h EXCEPT !.copy = shelf] ELSE h

Written(h) ==
    IF Behind(h) /\ h.copy = h.locked THEN [h EXCEPT !.copy = shelf] ELSE h

Relocked(h) ==
    IF Behind(h) /\ h.copy = shelf THEN [h EXCEPT !.locked = shelf] ELSE h

\* What is left of the baseline: a template's skill that became a pick leaves it.
Before(h) == IF served = None /\ h.locked # None THEN None ELSE h.supplied

\* sync_template: a folder the instance changed since its baseline is kept. An instance that has no
\* baseline takes whatever the template supplies, over its own.
Synced(h) ==
    IF Before(h) # served /\ (h.based => h.copy = Before(h)) THEN [h EXCEPT !.copy = served] ELSE h

\* record_template: the baseline where a kept folder keeps the entry it had.
Recorded(h) ==
    [h EXCEPT !.based = TRUE,
              !.supplied = IF served = Before(h) \/ h.copy = served THEN served ELSE Before(h)]

\* What the hub knows an instance's folder by.
Known(h) == ({h.copy} \intersect {shelf, served}) \union ({h.locked} \ {None})

Update ==
    /\ staged = None
    /\ held' = Recorded(Synced(Relocked(Written(Taken(held)))))
    /\ supplies' = supplies \union Known(Written(Taken(held))) \union Known(held')
    /\ UNCHANGED <<library, served, staged, hubStops>>

\* What a stop of the hub leaves of an update: the writes up to one of them, and a folder that was
\* being replaced gone or in part.
Halves(h) ==
    LET taken == Taken(h)
        written == Written(taken)
    IN {taken, written, Relocked(written), Synced(Relocked(written))}
       \union (IF written # taken
               THEN {[taken EXCEPT !.copy = None], [taken EXCEPT !.copy = Torn]} ELSE {})

-----------------------------------------------------------------------------

\* receive: a shipped skill is copied once, and what a stop cut short is recorded.
Received(folder, build) ==
    IF shipped # None THEN [folder |-> folder, row |-> shipped]
    ELSE IF folder \in {None, build} THEN [folder |-> build, row |-> build]
    ELSE [folder |-> folder, row |-> None]

\* The hub stops, in an update or not, and comes back, perhaps as another version of kinby: a move
\* ends where it was, a delete may have left its row, and a write its folder aside.
HubStops(build, folder, half) ==
    /\ hubStops < MaxHubStops
    /\ folder = shelf \/ (mover = NoMove /\ shelf = shown /\ folder = None)
    /\ half = held \/ (staged = None /\ half \in Halves(held))
    /\ hubStops' = hubStops + 1
    /\ ships' = build
    /\ shelf' = Received(folder, build).folder
    /\ shipped' = Received(folder, build).row
    /\ mover' = NoMove /\ staged' = None
    /\ held' = half
    /\ supplies' = supplies \union (IF half = held THEN {} ELSE Known(half))
    /\ UNCHANGED <<gitSkill, shown, served>>

Next ==
    \/ \E text \in Texts : Write(text) \/ Add(text) \/ \E overwrite \in BOOLEAN : Move(text, overwrite)
    \/ Look \/ Delete
    \/ Remove \/ Place \/ Record
    \/ Pick \/ PickIn \/ DropPick \/ Update
    \/ \E text \in Texts \union {None} : AgentEdits(text) \/ EditTemplate(text)
    \/ \E build \in Texts, folder \in {shelf, None}, half \in {held} \union Halves(held) :
          HubStops(build, folder, half)

Spec == Init /\ [][Next]_picksVars

-----------------------------------------------------------------------------

(* What the agent made of its folder, if no text the hub knows it by, is never overwritten or    *)
(* deleted but by its user's drop, over updates of picks and templates, a template's skill that  *)
(* becomes a pick, a pick the agent makes a folder under, and updates cut short anywhere         *)
(* (library.py sync: "unless the instance edited its copy, which is kept"; template_sync.py: "A  *)
(* file the instance changed since its baseline is kept"). Until an instance has a baseline, an  *)
(* update may put the template's folder in its place, and still deletes none (template_sync.py:  *)
(* "With no baseline, the instance takes every file the template supplies and loses none of its  *)
(* own").                                                                                        *)
CopyStays ==
    held.copy \in Texts \ supplies /\ held'.copy # held.copy
        => \/ DropPick
           \/ \E text \in Texts \union {None} : AgentEdits(text)
           \/ ~held.based /\ served # None /\ held'.copy = served
AgentsKept == [][CopyStays]_picksVars

=============================================================================
