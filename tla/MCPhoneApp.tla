---------------------------- MODULE MCPhoneApp -----------------------------
EXTENDS PhoneApp
============================================================================
