---- MODULE MCOverlays ----
\* The instance: see the .cfg for the bounds.
EXTENDS Overlays
====
