---------------------------- MODULE MCOcoresIrq ----------------------------
(***************************************************************************)
(* Small instance of OcoresIrq.  All addresses have seven bits: the        *)
(* interrupt branch ignores I2C_M_TEN, which ocores_func does not offer.   *)
(***************************************************************************)
EXTENDS OcoresIrq

Msg(rd, nostart, len) ==
    [rd |-> rd, ten |-> FALSE, nostart |-> nostart, len |-> len]

(* An address alone, a read with a byte that is not the last, and a write *)
(* that goes on without START.                                            *)
MCTransfers ==
    { <<Msg(FALSE, FALSE, 0), Msg(TRUE, FALSE, 2), Msg(FALSE, TRUE, 1)>> }
=============================================================================
