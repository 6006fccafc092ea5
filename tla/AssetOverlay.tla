---------------------------- MODULE AssetOverlay ----------------------------
(***************************************************************************)
(* The assets of addons (loader/overlay_vfs.rs).  Registering the assets   *)
(* of an addon converts those that a converter matches, copies all of them *)
(* under the launcher's directory and then the converted ones.  Converted  *)
(* assets are kept in an archive of the addon, converts.tar.zstd: a        *)
(* manifest tells for converter and source the hash converted last and the *)
(* name of the result, and the results are found by that name.             *)
(*                                                                         *)
(* Users change assets and replace converters while nothing is registered. *)
(* A file is truncated and then written: a write that fails, or the end of *)
(* the game, may leave it torn.  External: each version of a converter     *)
(* gives each content one name and one result; what is left of an archive  *)
(* whose writing was cut short does not decode.                            *)
(***************************************************************************)
EXTENDS Naturals, Sequences, SequencesExt

CONSTANTS
    Owners,     \* addons with a directory of assets
    Sources,    \* names of assets
    Outputs,    \* names of converted assets
    Converters,
    Matches,    \* <<converter, source>> pairs that match, in the loops' order
    Contents,   \* what an asset may hold
    OutputOf,   \* <<pair, content, version>> -> name of the result
    MaxVersion, \* bound: versions of a converter
    Nothing     \* no such file

ASSUME OverlayAssumption ==
    /\ Matches \in Seq(Converters \X Sources)
    /\ OutputOf \in [(Converters \X Sources) \X Contents \X (1..MaxVersion) -> Outputs]
    /\ MaxVersion \in Nat \ {0}
    /\ Nothing \notin Contents \cup (Contents \X Sources \X Converters \X (1..MaxVersion))
    /\ Nothing # << >>

VARIABLES
    assets,     \* owner -> source -> content
    version,    \* converter -> installed version of its .wasm
    converts,   \* owner -> converts.tar.zstd
    root,       \* path -> file under the launcher's directory
    job,        \* the copy_assets_from_mod under way
    due,        \* history: what root would hold were everything converted anew
    claims      \* history: <<owner, pair, content, output>> of all conversions

overlayVars == <<assets, version, converts, root, job, due, claims>>

Pairs == Converters \X Sources
Paths == Sources \cup Outputs

\* A file is <<content>> as it came, or <<content, source, converter, version>>.
Raw(c) == <<c>>
Converted(c, p) == <<c, p[2], p[1], version[p[1]]>>
Torn == << >>
Versions == 1..MaxVersion
Results == Contents \X Sources \X Converters \X Versions
Data == {Nothing, Torn} \cup {Raw(c) : c \in Contents} \cup Results

NoEntry == [hash |-> Nothing, output |-> Nothing]
NoFile == [o \in Outputs |-> Nothing]
NoCache == [manifest |-> [p \in Pairs |-> NoEntry], files |-> NoFile]
Caches == [manifest : [Pairs -> {NoEntry} \cup [hash : Contents, output : Outputs]],
           files : [Outputs -> {Nothing} \cup Results]]

NoJob == [of |-> Nothing, step |-> "none", cache |-> NoCache,
          outs |-> NoFile, raws |-> {}, puts |-> {}]

OverlayTypeOK ==
    /\ assets \in [Owners -> [Sources -> Contents \cup {Nothing}]]
    /\ version \in [Converters -> Versions]
    /\ converts \in [Owners -> [state : {"absent", "torn", "whole"}, cache : Caches]]
    /\ root \in [Paths -> Data] /\ due \in [Paths -> Data]
    /\ job \in [of : Owners \cup {Nothing}, step : {"none", "saving", "copying"},
                cache : Caches, outs : [Outputs -> {Nothing} \cup Results],
                raws : SUBSET Sources, puts : SUBSET Outputs]
    /\ claims \subseteq Owners \X Pairs \X Contents \X Outputs

\* The assets an owner starts with are a parameter of the initial states.
OverlayInit(initial) ==
    /\ assets = initial
    /\ version = [w \in Converters |-> 1]
    /\ converts = [o \in Owners |-> [state |-> "absent", cache |-> NoCache]]
    /\ root = [f \in Paths |-> Nothing] /\ due = root
    /\ job = NoJob
    /\ claims = {}

OverlayIdle == job.step = "none"

-----------------------------------------------------------------------------
(* prepare_converted_assets.                                               *)

\* Faulty: an entry is taken whatever was converted then.
Hit_NoHash(cache, p, c) ==
    /\ cache.manifest[p] # NoEntry
    /\ cache.files[cache.manifest[p].output] # Nothing

\* The cached result is taken when the manifest has the hash and the archive
\* a file of the name the manifest gives; the converter's version is not asked.
Hit(cache, p, c) ==
    /\ cache.manifest[p].hash = c
    /\ cache.files[cache.manifest[p].output] # Nothing

\* The name that the converter as it is installed gives the result.
NameOf(p, c) == OutputOf[<<p, c, version[p[1]]>>]

Convert(acc, p, c) ==
    LET output == NameOf(p, c) IN
    [outs |-> [acc.outs EXCEPT ![output] = Converted(c, p)],
     cache |-> [manifest |-> [acc.cache.manifest EXCEPT ![p] =
                                 [hash |-> c, output |-> output]],
                files |-> [acc.cache.files EXCEPT ![output] = Converted(c, p)]],
     dirty |-> TRUE]

\* Under the name of the conversion then.
Serve(acc, p) ==
    LET output == acc.cache.manifest[p].output
    IN [acc EXCEPT !.outs[output] = acc.cache.files[output]]

Turn(acc, o, p) ==
    LET c == assets[o][p[2]] IN
    IF c = Nothing THEN acc
    ELSE IF Hit(acc.cache, p, c) THEN Serve(acc, p)
    ELSE Convert(acc, p, c)

\* The loops over assets and converters, on the cache that they change.
Prepared(o) ==
    LET after[n \in 0..Len(Matches)] ==
            IF n = 0 THEN [outs |-> NoFile, cache |-> converts[o].cache, dirty |-> FALSE]
            ELSE Turn(after[n - 1], o, Matches[n])
    IN after[Len(Matches)]

\* The n-th pair matches and its result has this name.
Makes(o, n, output) ==
    LET c == assets[o][Matches[n][2]]
    IN c # Nothing /\ NameOf(Matches[n], c) = output

\* What they would give without a cache: of two results of one name, the later.
Anew(o) ==
    [output \in Outputs |->
        LET makers == {n \in 1..Len(Matches) : Makes(o, n, output)}
        IN IF makers = {} THEN Nothing
           ELSE LET last == CHOOSE n \in makers : \A k \in makers : k <= n
                IN Converted(assets[o][Matches[last][2]], Matches[last])]

Claimed(o) ==
    {<<o, p, assets[o][p[2]], NameOf(p, assets[o][p[2]])>> :
        p \in {q \in ToSet(Matches) : assets[o][q[2]] # Nothing}}

Present(o) == {s \in Sources : assets[o][s] # Nothing}
Written(outs) == {output \in Outputs : outs[output] # Nothing}

Copying(o, result) ==
    [of |-> o, step |-> "copying", cache |-> NoCache, outs |-> result.outs,
     raws |-> Present(o), puts |-> Written(result.outs)]

\* Up to the truncation of the archive, if there is something new to keep.
Prepare(o) ==
    /\ OverlayIdle
    /\ converts[o].state # "torn"
    /\ LET result == Prepared(o) IN
       IF result.dirty
       THEN /\ job' = [Copying(o, result) EXCEPT !.step = "saving", !.cache = result.cache]
            /\ converts' = [converts EXCEPT ![o] = [state |-> "torn", cache |-> NoCache]]
       ELSE /\ job' = Copying(o, result)
            /\ UNCHANGED converts
    /\ claims' = claims \cup Claimed(o)
    /\ UNCHANGED <<assets, version, root, due>>

\* The archive does not decode; a converter fails, or an asset cannot be read,
\* before anything is written.
PrepareFails(o) ==
    /\ OverlayIdle
    /\ UNCHANGED overlayVars

SaveCache ==
    /\ job.step = "saving"
    /\ converts' = [converts EXCEPT ![job.of] = [state |-> "whole", cache |-> job.cache]]
    /\ job' = [job EXCEPT !.step = "copying", !.cache = NoCache]
    /\ UNCHANGED <<assets, version, root, due, claims>>

-----------------------------------------------------------------------------
(* copy_assets_from_mod, after that.                                       *)

\* Faulty: a file that is there is taken for the asset.
CopyAsset_Exists(s) ==
    /\ job.step = "copying" /\ s \in job.raws
    /\ LET new == IF root[s] = Nothing THEN Raw(assets[job.of][s]) ELSE root[s]
       IN root' = [root EXCEPT ![s] = new] /\ due' = [due EXCEPT ![s] = new]
    /\ job' = [job EXCEPT !.raws = @ \ {s}]
    /\ UNCHANGED <<assets, version, converts, claims>>

CopyAsset(s) ==
    /\ job.step = "copying" /\ s \in job.raws
    /\ root' = [root EXCEPT ![s] = Raw(assets[job.of][s])]
    /\ due' = [due EXCEPT ![s] = Raw(assets[job.of][s])]
    /\ job' = [job EXCEPT !.raws = @ \ {s}]
    /\ UNCHANGED <<assets, version, converts, claims>>

CopyOutput(output) ==
    /\ job.step = "copying" /\ job.raws = {} /\ output \in job.puts
    /\ root' = [root EXCEPT ![output] = job.outs[output]]
    /\ due' = [due EXCEPT ![output] = Anew(job.of)[output]]
    /\ job' = [job EXCEPT !.puts = @ \ {output}]
    /\ UNCHANGED <<assets, version, converts, claims>>

CopyDone ==
    /\ job.step = "copying" /\ job.raws = {} /\ job.puts = {}
    /\ job' = NoJob
    /\ UNCHANGED <<assets, version, converts, root, due, claims>>

\* The file that may be open for writing: the converted ones come last.
BeingWritten ==
    IF job.step # "copying" THEN {} ELSE IF job.raws # {} THEN job.raws ELSE job.puts

\* The job ends where it is, and a copy under way may be cut short.
CutShort ==
    /\ job' = NoJob
    /\ \/ UNCHANGED <<root, due>>
       \/ \E f \in BeingWritten :
             root' = [root EXCEPT ![f] = Torn] /\ due' = [due EXCEPT ![f] = Torn]
    /\ UNCHANGED <<assets, version, converts, claims>>

\* A write fails.
JobFails == ~OverlayIdle /\ CutShort

\* The game ends or is killed; the other files stay as they are.
OverlayCrash == CutShort

\* What one step of a registration under way does.
JobGoesOn ==
    \/ SaveCache
    \/ \E s \in Sources : CopyAsset(s)
    \/ \E output \in Outputs : CopyOutput(output)

-----------------------------------------------------------------------------
(* The user.                                                               *)

Edit(o, s, c) ==
    /\ OverlayIdle
    /\ c # assets[o][s]
    /\ assets' = [assets EXCEPT ![o][s] = c]
    /\ UNCHANGED <<version, converts, root, job, due, claims>>

Upgrade(w) ==
    /\ OverlayIdle
    /\ version[w] < MaxVersion
    /\ version' = [version EXCEPT ![w] = @ + 1]
    /\ UNCHANGED <<assets, converts, root, job, due, claims>>

UserChanges ==
    \/ \E o \in Owners, s \in Sources, c \in Contents \cup {Nothing} : Edit(o, s, c)
    \/ \E w \in Converters : Upgrade(w)

OverlayNext ==
    \/ \E o \in Owners : Prepare(o) \/ PrepareFails(o)
    \/ JobGoesOn \/ CopyDone \/ JobFails \/ OverlayCrash
    \/ UserChanges

OverlaySpec(initial) == OverlayInit(initial) /\ [][OverlayNext]_overlayVars

-----------------------------------------------------------------------------
(* Properties.                                                             *)

\* Two pairs of one owner gave this name.
Shared(conversions, output) ==
    \E x, y \in conversions :
        x[1] = y[1] /\ x[2] # y[2] /\ x[4] = output /\ y[4] = output

\* One pair gave one content two names, of which this is one.
Renamed(conversions, output) ==
    \E x, y \in conversions :
        /\ x[1] = y[1] /\ x[2] = y[2] /\ x[3] = y[3]
        /\ x[4] # y[4] /\ x[4] = output

\* Both come from the same asset through the same converter, d through an
\* older version of it.
Older(d, e) ==
    /\ d \in Results /\ e \in Results
    /\ SubSeq(d, 1, 3) = SubSeq(e, 1, 3)
    /\ d[4] < e[4]

\* The cache is not seen in what the game is given: each file under the
\* launcher's directory is what the same registrations, edits, failures and ends
\* of the game would have left had everything been converted anew, torn copies
\* included, and no result is left out or copied without its asset.  Excepted
\* is a name that two converters or assets gave, and what is left of a converter
\* that was replaced behind an entry of the cache (overlay_vfs.rs:149-152): a
\* result of its older version, and the names of a result that it renamed.
CacheTransparent ==
    /\ \A f \in Paths :
        \/ root[f] = due[f]
        \/ f \in Outputs /\ (Shared(claims, f) \/ Renamed(claims, f))
        \/ Older(root[f], due[f])
    /\ ~OverlayIdle =>
        \A f \in Outputs :
            Renamed(claims, f) \/ (job.outs[f] = Nothing <=> Anew(job.of)[f] = Nothing)

\* A registration that comes to its end has put every asset and every result of
\* its addon under the launcher's directory, whole, and mended what an earlier
\* one that failed or was killed half way left torn or old (overlay_vfs.rs:64).
\* A result may take the name of an asset (overlay_vfs.rs:117).
CopiesWhole ==
    job.step = "copying" /\ job.raws = {} /\ job.puts = {} =>
        /\ \A f \in Written(job.outs) : root[f] = job.outs[f]
        /\ \A s \in Present(job.of) \ Written(job.outs) :
               root[s] = Raw(assets[job.of][s])
=============================================================================
