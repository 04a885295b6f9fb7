-------------------------- MODULE MCKeyManagement --------------------------
(* Small instance of KeyManagement for TLC: key numbers 0 and 1, and     *)
(* the default key-file names of key numbers 0, 1 and the out-of-range 16 *)
(* (the code formats any number into the name), three runs of the tool.   *)
EXTENDS KeyManagement, TLC

MCKeyNos == {0, 1}
MCBadKeyNo == 16
MCPaths == {"key0", "key1", "key16", "key0_new", "key1_new", "key16_new"}
MCProvPath == (0 :> "key0" @@ 1 :> "key1" @@ 16 :> "key16")
MCRotPath == (0 :> "key0_new" @@ 1 :> "key1_new" @@ 16 :> "key16_new")
=============================================================================
