--------------------------- MODULE MCAddonRuntime ---------------------------
(***************************************************************************)
(* Two addons, the second handling the event of the first and its own; the *)
(* first keeps a file and has assets: two sources, of which the second     *)
(* changes the name of its result with its content, to that of the first   *)
(* one's, and with the version of the converter.                           *)
(***************************************************************************)
EXTENDS AddonRuntime

CONSTANTS First, Second, Event, Sprite, Palette, Sheet, Table, Chart, Old, New, Wasm

MCOrder == <<First, Second>>
MCHandles == {<<First, Event>>, <<Second, Event>>}
MCMatches == << <<Wasm, Sprite>>, <<Wasm, Palette>> >>
MCOutputOf ==
    [x \in ({Wasm} \X {Sprite, Palette}) \X {Old, New} \X (1..MaxVersion) |->
        IF x[1] # <<Wasm, Palette>> \/ x[2] = New THEN Sheet
        ELSE IF x[3] = 1 THEN Table ELSE Chart]
MCInitialAssets ==
    [o \in {First} |-> [s \in {Sprite, Palette} |-> Old]]
MCClosures == 1..MaxRegistrations
=============================================================================
