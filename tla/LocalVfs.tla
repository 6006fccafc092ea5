------------------------------ MODULE LocalVfs ------------------------------
(***************************************************************************)
(* The files an addon keeps (loader/engine_fs.rs).  They live in one       *)
(* archive on disk, vfs.tar.zstd in the directory of the addon.  Each      *)
(* registration of Engine.fs makes a read and a write closure that share a *)
(* cache of the whole archive, filled at their first call; two             *)
(* registrations for one directory share nothing but the archive.  A write *)
(* changes the cache, truncates the archive and writes all of it anew.     *)
(*                                                                         *)
(* External: what is left of an archive when writing it is cut short does  *)
(* not decode (the zstd frame has no end).                                 *)
(***************************************************************************)
EXTENDS Naturals, Sequences

CONSTANTS
    Closures,   \* registrations of Engine.fs for the directory
    Files,      \* names of files, after normalize_vfs_path
    Chunks,     \* what one call writes
    MaxLength   \* bound: chunks in a file

ASSUME VfsAssumption == MaxLength \in Nat /\ 0 \notin Closures

VARIABLES
    archive,    \* vfs.tar.zstd: absent, torn or whole, and the files in it
    cache,      \* closure -> DeferredLocalVfs.state
    writing,    \* the persist_vfs that has truncated the archive
    stored,     \* history: the files as the successful calls left them
    newest,     \* history: closures no other closure has written behind
    dirty,      \* history: closures whose cache holds what a call failed to write
    flaws       \* history: why stored may not be what is on disk

vfsVars == <<archive, cache, writing, stored, newest, dirty, flaws>>

\* A file of no chunks is one that is not there.
Entries == [Files -> Seq(Chunks)]
NoFiles == [f \in Files |-> <<>>]
Unloaded == [loaded |-> FALSE, files |-> NoFiles]
NotWriting == [by |-> 0, files |-> NoFiles, told |-> NoFiles]

VfsTypeOK ==
    /\ archive \in [state : {"absent", "torn", "whole"}, files : Entries]
    /\ cache \in [Closures -> [loaded : BOOLEAN, files : Entries]]
    /\ writing \in [by : Closures \cup {0}, files : Entries, told : Entries]
    /\ stored \in Entries
    /\ newest \subseteq Closures /\ dirty \subseteq Closures
    /\ flaws \subseteq {"cut", "refused", "stale"}

VfsInit ==
    /\ archive = [state |-> "absent", files |-> NoFiles]
    /\ cache = [r \in Closures |-> Unloaded]
    /\ writing = NotWriting
    /\ stored = NoFiles
    /\ newest = {} /\ dirty = {} /\ flaws = {}

VfsIdle == writing.by = 0

-----------------------------------------------------------------------------
(* ensure_loaded and load_or_initialize_vfs.                               *)

Loadable(r) == cache[r].loaded \/ archive.state # "torn"

\* What the closure works on once it is loaded.
Held(r) == IF cache[r].loaded THEN cache[r].files ELSE archive.files

LoadedNow(r) == IF cache[r].loaded THEN newest ELSE newest \cup {r}

\* A read: the first call of a closure reads the archive.
Read(r) ==
    /\ VfsIdle /\ Loadable(r)
    /\ cache[r].loaded \/ archive.state = "whole"
    /\ cache' = [cache EXCEPT ![r] = [loaded |-> TRUE, files |-> Held(r)]]
    /\ newest' = LoadedNow(r)
    /\ UNCHANGED <<archive, writing, stored, dirty, flaws>>

\* Faulty: an archive that does not decode is made anew.
BeginOpen_Torn(r) ==
    /\ VfsIdle /\ ~cache[r].loaded
    /\ archive.state # "whole"
    /\ archive' = [state |-> "torn", files |-> NoFiles]
    /\ writing' = [by |-> r, files |-> NoFiles, told |-> stored]
    /\ UNCHANGED <<cache, stored, newest, dirty, flaws>>

\* The first call of all finds no archive and makes an empty one.
BeginOpen(r) ==
    /\ VfsIdle /\ ~cache[r].loaded
    /\ archive.state = "absent"
    /\ archive' = [state |-> "torn", files |-> NoFiles]
    /\ writing' = [by |-> r, files |-> NoFiles, told |-> stored]
    /\ UNCHANGED <<cache, stored, newest, dirty, flaws>>

-----------------------------------------------------------------------------
(* The write closure and persist_vfs.                                      *)

Changed(files, f, c, append) ==
    [files EXCEPT ![f] = IF append THEN Append(@, c) ELSE <<c>>]

WriteAllowed(r, f, append) ==
    /\ VfsIdle /\ Loadable(r)
    /\ cache[r].loaded \/ archive.state = "whole"
    /\ append => Len(Held(r)[f]) < MaxLength

\* The cache is changed before anything can fail.
ChangeCache(r, f, c, append) ==
    /\ cache' = [cache EXCEPT ![r] =
                    [loaded |-> TRUE, files |-> Changed(Held(r), f, c, append)]]
    /\ newest' = LoadedNow(r)

BeginWrite(r, f, c, append) ==
    /\ WriteAllowed(r, f, append)
    /\ ChangeCache(r, f, c, append)
    /\ archive' = [state |-> "torn", files |-> NoFiles]
    /\ writing' = [by |-> r, files |-> Changed(Held(r), f, c, append),
                   told |-> Changed(stored, f, c, append)]
    /\ UNCHANGED <<stored, dirty, flaws>>

\* File::create fails: the script gets an error, the cache stays changed.
CreateFails(r, f, c, append) ==
    /\ WriteAllowed(r, f, append)
    /\ ChangeCache(r, f, c, append)
    /\ dirty' = dirty \cup {r}
    /\ UNCHANGED <<archive, writing, stored, flaws>>

Persisted ==
    /\ ~VfsIdle
    /\ LET r == writing.by IN
       /\ archive' = [state |-> "whole", files |-> writing.files]
       /\ cache' = [cache EXCEPT ![r] = [loaded |-> TRUE, files |-> writing.files]]
       /\ stored' = writing.told
       /\ newest' = {r}
       /\ flaws' = (flaws \ {"cut"})
                     \cup (IF r \in dirty THEN {"refused"} ELSE {})
                     \cup (IF cache[r].loaded /\ r \notin newest THEN {"stale"} ELSE {})
    /\ writing' = NotWriting
    /\ UNCHANGED dirty

\* The disk is full, say: the archive stays truncated, the cache changed.
PersistFails ==
    /\ ~VfsIdle
    /\ dirty' = IF cache[writing.by].loaded THEN dirty \cup {writing.by} ELSE dirty
    /\ flaws' = flaws \cup {"cut"}
    /\ writing' = NotWriting
    /\ UNCHANGED <<archive, cache, stored, newest>>

\* The game ends or is killed.  Only the archive is left.
VfsCrash ==
    /\ cache' = [r \in Closures |-> Unloaded]
    /\ writing' = NotWriting
    /\ newest' = {} /\ dirty' = {}
    /\ flaws' = IF VfsIdle THEN flaws ELSE flaws \cup {"cut"}
    /\ UNCHANGED <<archive, stored>>

\* A call of a script on closure r, up to the truncation of the archive.
VfsCall(r) ==
    \/ Read(r)
    \/ BeginOpen(r)
    \/ \E f \in Files, c \in Chunks, append \in BOOLEAN :
          \/ BeginWrite(r, f, c, append)
          \/ CreateFails(r, f, c, append)

\* The rest of the call.
VfsGoesOn == Persisted \/ PersistFails

VfsNext == (\E r \in Closures : VfsCall(r)) \/ VfsGoesOn \/ VfsCrash

VfsSpec == VfsInit /\ [][VfsNext]_vfsVars

-----------------------------------------------------------------------------
(* Properties.                                                             *)

\* Between calls the archive holds, for every file, what the successful calls
\* of all sessions wrote - also after crashes between calls and after failed
\* calls - unless a call was cut off after truncating the archive, a closure
\* wrote what an earlier call of it had failed to write, or a closure wrote
\* from a cache filled before another one's write (engine_fs.rs:300, :136).
AcknowledgedKept ==
    VfsIdle /\ flaws = {} => archive.state # "torn" /\ archive.files = stored

\* What a script reads is what the successful calls wrote, and an archive that
\* was torn is refused and never taken for an empty one: the cache of each
\* closure that nobody wrote behind, and none of whose calls failed, holds what
\* is stored.
ReadsAreStored ==
    VfsIdle /\ flaws \subseteq {"cut"} =>
        \A r \in newest \ dirty : cache[r].loaded => cache[r].files = stored
=============================================================================
