--------------------------- MODULE MCAssetProcess ---------------------------
(* Two callbacks; a step loop with and without other callbacks, a manual   *)
(* loop, and a dictionary that leaves one loop out instead of None.        *)
EXTENDS AssetProcess

CONSTANTS f, g

MCCallables == {f, g}
MCDict(i, r, s, m) == [on_initialize |-> i, on_reset |-> r,
                       on_simulation_step |-> s, on_manual_timing_control |-> m]
MCDicts == {MCDict("none", "null", f, "none"), MCDict(f, "none", g, "none"),
            MCDict("none", "null", "none", f), MCDict("null", "null", g, "null")}
MCFaults == {"ABORT", "OTHER"}
=============================================================================
