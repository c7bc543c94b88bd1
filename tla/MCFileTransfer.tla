--------------------------- MODULE MCFileTransfer ---------------------------
(* Small instances of FileTransfer: the first file has two packets.        *)
EXTENDS FileTransfer

MCTotalPackets == [f \in Files |-> IF f = 0 THEN 2 ELSE IF f = 1 THEN 2 ELSE 1]
MCAnyBitmap    == SUBSET {0, 1}
MCNoBits       == {{}}
=============================================================================
