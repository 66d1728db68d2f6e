SPECIFICATION Spec
CONSTANTS
  NoChat = NoChat
  Accounts = {a1, a2}
  Chats = {c1}
INVARIANTS
  LiveLinkIsWelcome
