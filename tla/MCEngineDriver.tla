--------------------------- MODULE MCEngineDriver ---------------------------
EXTENDS EngineDriver

CONSTANTS s1, s2, original, changed, broken

MCScenes      == {s1, s2}
MCContents    == {original, changed, broken}
MCLoadable    == {original, changed}
MCSlowest     == {<<0>>}
MCInitialDisk == [s \in Scenes |-> original]
\* the second scene's file is broken when the shell starts
MCBrokenDisk  == [s \in Scenes |-> IF s = s2 THEN broken ELSE original]
=============================================================================
