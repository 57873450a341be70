--------------------------- MODULE MCBinaryTransfer ---------------------------
(***************************************************************************)
(* A small instance of BinaryTransfer.                                     *)
(***************************************************************************)
EXTENDS BinaryTransfer, TLC

CONSTANTS t1, t2, t3, t4, t5, t6, t7, a, b

\* Three begins over a pool of two, two of them with nothing to carry; two uploads to one edited
\* target; or an upload of three bytes in two or three chunks beside a download.
MCMixes == {{t1, t2, t3}, {t4, t5}, {t6, t7}}
MCDirection ==
  [t \in Transfers |-> IF t \in {t2, t4, t5, t6} THEN "upload" ELSE "download"]
MCDeclared ==
  [t \in Transfers |-> CASE t \in {t2, t3} -> <<>> [] t \in {t4, t5} -> <<b>> [] t = t6 -> <<a, b, b>>
                        [] OTHER -> <<a>>]
MCBytes == [t \in Transfers |-> Len(MCDeclared[t])]

MCValues == {a, b}
MCChunks == {<<b>>, <<a, b>>}
MCContents == {<<>>, <<a>>}

\* At most two accidents in one behaviour: an edit, a crash, a failed step.
TwoAccidents == edits + crashes + faults <= 2
=============================================================================
