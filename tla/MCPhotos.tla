-------------------------------- MODULE MCPhotos -------------------------------
(* A small instance of Photos for TLC.                                      *)
EXTENDS Photos
===============================================================================
