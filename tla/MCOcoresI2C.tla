---------------------------- MODULE MCOcoresI2C ----------------------------
(***************************************************************************)
(* Small instance of OcoresI2C: transfers that reach every way through     *)
(* ocores_poll.                                                            *)
(***************************************************************************)
EXTENDS OcoresI2C

Msg(rd, ten, nostart, len) ==
    [rd |-> rd, ten |-> ten, nostart |-> nostart, len |-> len]

W(len) == Msg(FALSE, FALSE, FALSE, len)
R(len) == Msg(TRUE, FALSE, FALSE, len)

MCTransfers ==
    { <<W(0)>>,                                 \* quick write
      <<R(0), W(1)>>,                           \* quick read, then a write
      <<W(1), R(2)>>,                           \* register read
      <<Msg(FALSE, TRUE, FALSE, 2)>>,           \* ten bit address
      <<W(1), Msg(FALSE, FALSE, TRUE, 1)>>,     \* one message in two pieces
      <<R(1), Msg(TRUE, FALSE, TRUE, 2)>>,
      <<R(1), Msg(FALSE, FALSE, TRUE, 1), R(1)>> }
=============================================================================
