---- MODULE MCLogs ----
EXTENDS LogsFollow
CONSTANTS web, db
====
