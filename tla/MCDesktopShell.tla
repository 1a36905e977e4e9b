--------------------------- MODULE MCDesktopShell ---------------------------
EXTENDS DesktopShell

CONSTANTS s1, s2, s3, original, changed, broken

MCScenes      == {s1, s2, s3}
MCContents    == {original, changed, broken}
MCLoadable    == {original, changed}
MCInitialDisk == [s \in Scenes |-> original]
\* the third scene's file does not load
MCBrokenDisk  == [s \in Scenes |-> IF s = s3 THEN broken ELSE original]
=============================================================================
