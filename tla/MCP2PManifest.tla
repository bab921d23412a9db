---------------------------- MODULE MCP2PManifest ----------------------------
EXTENDS P2PManifest

CONSTANTS ra, rb, main, dev

TwoEntries == <<ra, rb>>
=============================================================================
