------------------------------ MODULE MCInstall ------------------------------
\* Every kind of image, a run on a new partition and one after it.
EXTENDS Install
=============================================================================
