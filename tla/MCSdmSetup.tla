----------------------------- MODULE MCSdmSetup -----------------------------
(* SdmSetup on three base URLs: the default "https://example.com/tap"      *)
(* (a 73-byte template in one chunk), one whose template is exactly 256     *)
(* bytes (two chunks, the second of one byte), and one a byte too long.     *)
EXTENDS SdmSetup, TLC

MCUrls == {"tap", "full", "long"}
MCUrlLen == ("tap" :> 23 @@ "full" :> 206 @@ "long" :> 207)
MCPrefixLen == ("tap" :> 8 @@ "full" :> 8 @@ "long" :> 8)
MCSdmKeyNos == {1, 16}
=============================================================================
