------------------------------ MODULE MCAdapters ------------------------------
\* Every adapter, for the runs of Adapters.
EXTENDS Adapters

AllKinds == CameraKinds \union {"poll", "push", "ble", "quest", "audio", "oglo"}
=============================================================================
