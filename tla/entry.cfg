SPECIFICATION FairSpec
CONSTANTS
    Work = {"TRACE", "SECCOMP", "SIGPENDING", "NOTIFY", "EMU", "PATCH"}
    Entry = {"64", "int80", "fast"}
    MaxSet = 3
INVARIANTS RunsJudged CompatRight UserClean NoLostResume
PROPERTY KickHandled
