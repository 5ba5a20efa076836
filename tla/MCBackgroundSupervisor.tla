----------------------- MODULE MCBackgroundSupervisor -----------------------
EXTENDS BackgroundSupervisor

Observed == {"exited", "stopped", "dead"}
=============================================================================
