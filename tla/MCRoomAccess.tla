------------------------------ MODULE MCRoomAccess ------------------------------
EXTENDS RoomAccess
Sym == Permutations(Clients) \cup Permutations(Codes)
=============================================================================
