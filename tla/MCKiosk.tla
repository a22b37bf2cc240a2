------------------------------ MODULE MCKiosk ------------------------------
EXTENDS Kiosk

CONSTANTS sam, kim

MCEmployees == {sam, kim}
MCServers == {sam}
=============================================================================
