--------------------------- MODULE BuildSessionMC ---------------------------
(* An instance of BuildSession for TLC: two models MIGraphX can build and one *)
(* it cannot, a calibrator of two batches, one profile.                          *)
EXTENDS BuildSession

CONSTANTS mnist, cnn, broken, cal, prof, batch

MCModels == { mnist, cnn, broken }
MCBroken == { broken }
MCCalibrators == { cal }
MCBatchCount == [c \in MCCalibrators |-> 2]
MCProfiles == { prof }
MCAxes == { batch }
=============================================================================
