---------------------------- MODULE AddonRuntime ----------------------------
(***************************************************************************)
(* The runtime thread with what the scripts of the addons and the assets   *)
(* keep on disk: EngineDispatch says which code runs, LocalVfs what the    *)
(* files of one addon are, AssetOverlay how assets are registered at the   *)
(* start and when one changes.  The disk outlives the game, which may end  *)
(* at any moment and is started again.                                     *)
(***************************************************************************)
EXTENDS EngineDispatch, LocalVfs, AssetOverlay

CONSTANTS
    Keeper,        \* the addon whose vfs.tar.zstd is modelled
    InitialAssets, \* owner -> source -> content
    MaxRequests,   \* bound: calls of scripts, events, saves and upgrades
    MaxCrashes     \* bound: ends of the game that another start follows

ASSUME RuntimeAssumption ==
    /\ Owners \subseteq Addons /\ Keeper \in Addons
    /\ Closures = 1..MaxRegistrations
    /\ InitialAssets \in [Owners -> [Sources -> Contents \cup {Nothing}]]
    /\ MaxRequests \in Nat /\ MaxCrashes \in Nat

VARIABLES
    requests,  \* counts against MaxRequests
    crashes    \* counts against MaxCrashes

vars == <<dispatchVars, vfsVars, overlayVars, requests, crashes>>

RuntimeTypeOK ==
    /\ DispatchTypeOK /\ VfsTypeOK /\ OverlayTypeOK
    /\ requests \in 0..MaxRequests /\ crashes \in 0..MaxCrashes

Init ==
    /\ DispatchInit /\ VfsInit /\ OverlayInit(InitialAssets)
    /\ requests = 0 /\ crashes = 0

\* Calls block the thread until they return.
Idle == VfsIdle /\ OverlayIdle

Counted ==
    /\ requests < MaxRequests
    /\ requests' = requests + 1
    /\ UNCHANGED crashes

Free == UNCHANGED <<requests, crashes>>

-----------------------------------------------------------------------------
(* Scripts and events.                                                     *)

Moves ==
    /\ Idle
    /\ \/ RuntimeMoves /\ Free
       \/ Requested /\ Counted
    /\ UNCHANGED <<vfsVars, overlayVars>>

\* A script reaches the files through Engine.fs.immanent as it is now, or
\* through what it kept of it while it was loading.
Reaches(r) ==
    /\ InCallback
    /\ r = Len(regs) \/ regs[r] = Head(stack).of

FileCall ==
    /\ Idle
    /\ \E r \in 1..Len(regs) : regs[r] = Keeper /\ Reaches(r) /\ VfsCall(r)
    /\ Counted
    /\ UNCHANGED <<dispatchVars, overlayVars>>

FileCallGoesOn ==
    /\ VfsGoesOn
    /\ UNCHANGED <<dispatchVars, overlayVars>> /\ Free

-----------------------------------------------------------------------------
(* Assets: register_mod_assets in run_with_load_order and in the loop.     *)

NoAssets ==
    /\ Idle
    /\ AssetsRegistered /\ Current \notin Owners
    /\ UNCHANGED <<vfsVars, overlayVars>> /\ Free

StartCopies ==
    /\ Idle
    /\ task.step = "assets" /\ Current \in Owners
    /\ Prepare(Current)
    /\ UNCHANGED <<dispatchVars, vfsVars>> /\ Free

\* An asset of a loaded addon was saved.
ReloadCopies ==
    /\ Idle
    /\ task.step = "watch"
    /\ \E o \in Owners \cap loaded : Prepare(o)
    /\ Counted
    /\ UNCHANGED <<dispatchVars, vfsVars>>

CopiesGoOn ==
    /\ JobGoesOn
    /\ UNCHANGED <<dispatchVars, vfsVars>> /\ Free

CopiesEnd ==
    /\ CopyDone
    /\ IF task.step = "assets" THEN AssetsRegistered ELSE UNCHANGED dispatchVars
    /\ UNCHANGED vfsVars /\ Free

CopiesFail ==
    /\ AssetsFail
    /\ \/ JobFails
       \/ /\ Idle /\ task.step = "assets" /\ Current \in Owners
          /\ PrepareFails(Current)
       \/ /\ Idle /\ task.step = "watch"
          /\ \E o \in Owners \cap loaded : PrepareFails(o)
    /\ UNCHANGED vfsVars /\ Free

-----------------------------------------------------------------------------

\* Between registrations it does not matter when the user saves.
UserSaves ==
    /\ Idle
    /\ task.step \in {"assets", "watch"}
    /\ UserChanges /\ Counted
    /\ UNCHANGED <<dispatchVars, vfsVars>>

\* The game ends, in whatever way, and is started again.
Crash ==
    /\ crashes < MaxCrashes
    /\ crashes' = crashes + 1
    /\ DispatchCrash /\ VfsCrash /\ OverlayCrash
    /\ UNCHANGED requests

Next ==
    \/ Moves \/ FileCall \/ FileCallGoesOn
    \/ NoAssets \/ StartCopies \/ ReloadCopies \/ CopiesGoOn \/ CopiesEnd \/ CopiesFail
    \/ UserSaves \/ Crash

Spec == Init /\ [][Next]_vars

-----------------------------------------------------------------------------
(* Properties.                                                             *)

\* "Installs Engine.fs.local APIs scoped to the currently loading mod
\* directory" (engine_fs.rs:83): what the code of an addon writes while the
\* addon is loaded or reloaded goes to its own files, whatever was loaded and
\* reloaded before, and what the handlers it dispatches to write goes to theirs
\* or to its own.  Code that runs later - post_init, unload, quit, handlers of
\* events - may find the files of the addon loaded last behind
\* Engine.fs.immanent (engine_fs.rs:160).
WritesStayHome ==
    [][ writing.by = 0 /\ writing'.by # 0 =>
           LET target == regs[writing'.by] IN
           /\ task.step \in Loading => target \in {Current, Head(stack).of}
           /\ Len(stack) = 1 /\ task.step \in Loading => target = Head(stack).of
      ]_vars

\* What scripts were told is written stays written, and is what they read.
FilesKept == AcknowledgedKept /\ ReadsAreStored
=============================================================================
