------------------------------- MODULE MCAccess -------------------------------
(* Values of Access' constants for TLC: one employee with a browser and a  *)
(* desktop app.                                                            *)
EXTENDS Access

CONSTANTS e1, w1, browser, app

MCEndpoints == {{}, {"HR"}}
=============================================================================
