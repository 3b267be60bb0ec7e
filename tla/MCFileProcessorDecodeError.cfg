CONSTANTS
    Char <- MCChar
    AsciiChars <- MCAscii
    Utf8 <- MCUtf8
    SpecialForms <- MCSpecialForms
    StdlibMacros <- MCStdlibMacros
    Primitives <- MCPrimitives
    NilMapping <- MCNilMapping
    AsciiTokenReplacements <- MCAsciiTokenReplacements
    Whitespace <- MCWhitespace
    NonPrintable <- MCNonPrintable
    HexEscape <- MCHexEscape
    Intern = Intern
    Header = Header
    TestFile = TestFile
    Stdlib = Stdlib
    NoFile = NoFile
    NotUtf8 = NotUtf8
    NoRead = NoRead
    Files <- MCFiles
    InternFile = Intern
    Ext <- MCExt
    FileOrder <- MCFileOrder
    Absent = NoFile
    Undecodable = NotUtf8
    Unreadable = NoRead
    Contents <- MCContents
    Invocations <- MCInvocations
    MaxRuns = 2
SPECIFICATION Spec
INVARIANT UnreadableSkipped
CHECK_DEADLOCK FALSE
