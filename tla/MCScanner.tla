----------------------------- MODULE MCScanner -----------------------------
EXTENDS ScannerProperties
=============================================================================
