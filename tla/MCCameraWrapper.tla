-------------------------- MODULE MCCameraWrapper --------------------------
\* A small instance of CameraWrapper for TLC.
EXTENDS CameraWrapperProofs
=============================================================================
