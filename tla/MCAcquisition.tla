---------------------------- MODULE MCAcquisition ----------------------------
(* Values for model checking Acquisition.                                    *)
EXTENDS Acquisition

ModeCommands == {"SetModeContinuous", "SetModeTrigger", "StartStream"}
AllCommands  == Mgr!DeviceCommands

=============================================================================
