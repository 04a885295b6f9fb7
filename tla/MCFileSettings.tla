-------------------------- MODULE MCFileSettings --------------------------
(* Instances of FileSettings for TLC.  MCMainArgs: the arguments main    *)
(* passes (SDMOptions 0xC1, SDMMetaRead 0x0E) widened to every option and *)
(* nibble combination for which the builder emits a field the parser      *)
(* reads; offsets of one and three significant bytes.                     *)
EXTENDS FileSettings

MCCommModes == {0, 3}
MCARs == {224}
MCOpts == {0, 1, 65, 129, 193}
MCMetas == {5, 14, 15}
MCFiles == {0, 1, 15}
MCCtrs == {1, 15}
MCOffsets == {32, 70000}

\* Every SDMMetaRead, and the SDMOptions bits for encrypted file data and
\* a counter limit.
MCAllOpts == {193, 209, 225}
MCAllMetas == 0 .. 15
====
