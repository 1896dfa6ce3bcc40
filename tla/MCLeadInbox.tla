---------------------------- MODULE MCLeadInbox ----------------------------
EXTENDS LeadInbox
=============================================================================
