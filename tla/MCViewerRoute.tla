---------------------------- MODULE MCViewerRoute ----------------------------
EXTENDS ViewerRoute
=============================================================================
