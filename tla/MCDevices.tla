---- MODULE MCDevices ----
\* The instance: see the .cfg for the bounds.
EXTENDS Devices
====
