----------------------------- MODULE MCReports -----------------------------
\* Instances of Reports.
EXTENDS Reports
=============================================================================
