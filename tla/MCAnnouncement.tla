-------------------------- MODULE MCAnnouncement ---------------------------
(* Instances of Announcement; the constants are given in the .cfg files.    *)
EXTENDS Announcement
=============================================================================
