--------------------------- MODULE MCStepperMotor ---------------------------
EXTENDS StepperMotor
=============================================================================
